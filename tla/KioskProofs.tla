----------------------------- MODULE KioskProofs -----------------------------
(* Theorems about Kiosk, for any Tools entries and bounds.                 *)
EXTENDS Kiosk, TLAPS

USE DEF display, blockVars, scriptVars, desktopVars, feVars, toolVars, processes, files,
        adminVars, history

-----------------------------------------------------------------------------
(* Typing, part by part.                                                   *)

\* Every variable starts within its range.
LEMMA TypingInit == Init => TypeOK
<1> USE KioskAssumption DEF Init, SesPcs, Armed, Statuses, Modes, CrashLimit
<1>1. Init => DisplayTypeOK
  BY DEF DisplayTypeOK
<1>2. Init => ProcessTypeOK
  BY DEF ProcessTypeOK
<1>3. Init => RequestTypeOK
  BY DEF RequestTypeOK
<1>4. Init => BooleanTypeOK
  BY DEF BooleanTypeOK
<1>5. QED
  BY <1>1, <1>2, <1>3, <1>4 DEF TypeOK

\* Every step keeps the display manager and the script within their ranges, the crash counter too.
LEMMA DisplayTyping ==
  ASSUME TypeOK, SessionInv, [Next]_vars
  PROVE  DisplayTypeOK'
<1> USE KioskAssumption
    DEF TypeOK, DisplayTypeOK, ProcessTypeOK, SessionInv, SesPcs, Armed, Statuses, CrashLimit,
        Goes, Passes
<1>1. CASE ReadMode
  BY <1>1 DEF ReadMode
<1>2. CASE ClearMode
  BY <1>2 DEF ClearMode
<1>3. CASE ClearRefused
  BY <1>3 DEF ClearRefused
<1>4. CASE ArmTrap
  BY <1>4 DEF ArmTrap
<1>5. CASE LaunchDesktop
  BY <1>5 DEF LaunchDesktop
<1>6. CASE RecordPid
  BY <1>6 DEF RecordPid
<1>7. CASE ForwardPending
  BY <1>7 DEF ForwardPending, TellDesktop
<1>8. CASE ResetWait
  BY <1>8 DEF ResetWait
<1>9. CASE WaitReturns
  BY <1>9 DEF WaitReturns
<1>10. CASE CheckWait
  BY <1>10 DEF CheckWait
<1>11. CASE Untrap
  BY <1>11 DEF Untrap
<1>12. CASE Prune
  BY <1>12 DEF Prune
<1>13. CASE Prepare
  BY <1>13 DEF Prepare
<1>14. CASE PreFrontendStep
  BY <1>14 DEF PreFrontendStep
<1>15. CASE LaunchFrontend
  BY <1>15 DEF LaunchFrontend
<1>16. CASE CageReturns
  BY <1>16 DEF CageReturns, Bereft
<1>17. CASE TestMark
  BY <1>17 DEF TestMark
<1>18. CASE StatMark
  BY <1>18 DEF StatMark
<1>19. CASE RemoveMark
  BY <1>19 DEF RemoveMark
<1>20. CASE Count
  BY <1>20 DEF Count, Counted, GivesUp
<1>21. CASE Sleep
  BY <1>21 DEF Sleep
<1>22. CASE Exit
  BY <1>22 DEF Exit, Over, Bereft, ForgetDesktop, Reported
<1>23. CASE Signal
  BY <1>23 DEF Signal, TellDesktop, Over, Bereft, ForgetDesktop
<1>24. CASE Login
  BY <1>24 DEF Login
<1>25. CASE Restarted
  BY <1>25 DEF Restarted
<1>26. CASE SwitchRestart
  BY <1>26 DEF SwitchRestart, AdminEnds
<1>27. CASE Reboot
  BY <1>27 DEF Reboot, AdminEnds
<1>28. CASE RunLong \/ FrontendExits \/ LingeringEnds \/ DesktopExits \/ Lapse
            \/ SwitchRefused
  BY <1>28 DEF RunLong, FrontendExits, LingeringEnds, DesktopExits, Lapse, SwitchRefused
<1>29. ASSUME NEW t \in Tools,
             ToolsStart(t) \/ ToolsFind(t) \/ ToolsTouch(t) \/ ToolsKill(t)
             \/ ToolsKillFails(t) \/ ToolsWithdraw(t) \/ ToolsEnds(t)
      PROVE  DisplayTypeOK'
  BY <1>29 DEF ToolsStart, ToolsFind, ToolsTouch, ToolsKill, ToolsKillFails,
     ToolsWithdraw, ToolsEnds, ToolExits, ToolGoes
<1>30. ASSUME NEW m \in Modes, SwitchWrite(m)
      PROVE  DisplayTypeOK'
  BY <1>30 DEF SwitchWrite
<1>31. CASE UNCHANGED vars
  BY <1>31 DEF vars
<1>32. QED
  BY <1>1, <1>2, <1>3, <1>4, <1>5, <1>6, <1>7, <1>8, <1>9, <1>10, <1>11, <1>12, <1>13,
     <1>14, <1>15, <1>16, <1>17, <1>18, <1>19, <1>20, <1>21, <1>22, <1>23, <1>24, <1>25,
     <1>26, <1>27, <1>28, <1>29, <1>30, <1>31
     DEF Next, SessionStep, DesktopBlock, FrontendLoop, DisplayManager, ToolsEntry

\* Every step keeps the desktop, the frontend and the Tools entries within their ranges.
LEMMA ProcessTyping ==
  ASSUME TypeOK, [Next]_vars
  PROVE  ProcessTypeOK'
<1> USE DEF TypeOK, ProcessTypeOK, Statuses, Goes, Passes
<1>1. CASE LaunchDesktop
  BY <1>1 DEF LaunchDesktop
<1>2. CASE LaunchFrontend
  BY <1>2 DEF LaunchFrontend
<1>3. CASE CageReturns
  BY <1>3 DEF CageReturns, Bereft
<1>4. CASE Count
  BY <1>4 DEF Count, Counted, GivesUp
<1>5. CASE Exit
  BY <1>5 DEF Exit, Over, Bereft, ForgetDesktop, Reported
<1>6. CASE Signal
  BY <1>6 DEF Signal, TellDesktop, Over, Bereft, ForgetDesktop
<1>7. CASE FrontendExits
  BY <1>7 DEF FrontendExits
<1>8. CASE LingeringEnds
  BY <1>8 DEF LingeringEnds
<1>9. CASE DesktopExits
  BY <1>9 DEF DesktopExits
<1>10. ASSUME NEW t \in Tools, ToolsStart(t)
      PROVE  ProcessTypeOK'
  BY <1>10 DEF ToolsStart, ToolGoes
<1>11. ASSUME NEW t \in Tools, ToolsFind(t)
      PROVE  ProcessTypeOK'
  BY <1>11 DEF ToolsFind, ToolGoes
<1>12. ASSUME NEW t \in Tools, ToolsTouch(t)
      PROVE  ProcessTypeOK'
  BY <1>12 DEF ToolsTouch, ToolGoes
<1>13. ASSUME NEW t \in Tools, ToolsKill(t)
      PROVE  ProcessTypeOK'
  BY <1>13 DEF ToolsKill, ToolExits
<1>14. ASSUME NEW t \in Tools, ToolsKillFails(t)
      PROVE  ProcessTypeOK'
  BY <1>14 DEF ToolsKillFails, ToolGoes
<1>15. ASSUME NEW t \in Tools, ToolsWithdraw(t)
      PROVE  ProcessTypeOK'
  BY <1>15 DEF ToolsWithdraw, ToolExits
<1>16. ASSUME NEW t \in Tools, ToolsEnds(t)
      PROVE  ProcessTypeOK'
  BY <1>16 DEF ToolsEnds, ToolExits
<1>17. CASE Reboot
  BY <1>17 DEF Reboot, AdminEnds
<1>18. CASE ReadMode \/ ClearMode \/ ClearRefused \/ ArmTrap \/ RecordPid
            \/ ForwardPending \/ ResetWait \/ WaitReturns \/ CheckWait \/ Untrap \/ Prune
            \/ Prepare \/ PreFrontendStep \/ TestMark \/ StatMark \/ RemoveMark \/ Sleep
            \/ Login \/ Restarted \/ RunLong \/ Lapse \/ SwitchRestart \/ SwitchRefused
  BY <1>18 DEF ReadMode, ClearMode, ClearRefused, ArmTrap, RecordPid, ForwardPending,
     ResetWait, WaitReturns, CheckWait, Untrap, Prune, Prepare, PreFrontendStep, TestMark,
     StatMark, RemoveMark, Sleep, Login, Restarted, RunLong, Lapse, SwitchRestart,
     SwitchRefused
<1>19. ASSUME NEW m \in Modes, SwitchWrite(m)
      PROVE  ProcessTypeOK'
  BY <1>19 DEF SwitchWrite
<1>20. CASE UNCHANGED vars
  BY <1>20 DEF vars
<1>21. QED
  BY <1>1, <1>2, <1>3, <1>4, <1>5, <1>6, <1>7, <1>8, <1>9, <1>10, <1>11, <1>12, <1>13,
     <1>14, <1>15, <1>16, <1>17, <1>18, <1>19, <1>20
     DEF Next, SessionStep, DesktopBlock, FrontendLoop, DisplayManager, ToolsEntry

\* Every step keeps the mark, the mode flag and emubox-mode within their ranges.
LEMMA RequestTyping ==
  ASSUME TypeOK, [Next]_vars
  PROVE  RequestTypeOK'
<1> USE KioskAssumption DEF TypeOK, RequestTypeOK, Modes, Goes, Passes
<1>1. CASE ReadMode
  BY <1>1 DEF ReadMode
<1>2. CASE ClearMode
  BY <1>2 DEF ClearMode
<1>3. CASE Prune
  BY <1>3 DEF Prune
<1>4. CASE TestMark
  BY <1>4 DEF TestMark
<1>5. CASE RemoveMark
  BY <1>5 DEF RemoveMark
<1>6. CASE Lapse
  BY <1>6 DEF Lapse
<1>7. ASSUME NEW t \in Tools, ToolsTouch(t)
      PROVE  RequestTypeOK'
  BY <1>7 DEF ToolsTouch, ToolGoes
<1>8. ASSUME NEW t \in Tools, ToolsWithdraw(t)
      PROVE  RequestTypeOK'
  BY <1>8 DEF ToolsWithdraw, ToolExits
<1>9. ASSUME NEW m \in Modes, SwitchWrite(m)
      PROVE  RequestTypeOK'
  BY <1>9 DEF SwitchWrite, Settled
<1>10. CASE SwitchRestart
  BY <1>10 DEF SwitchRestart, AdminEnds
<1>11. CASE SwitchRefused
  BY <1>11 DEF SwitchRefused, AdminEnds
<1>12. CASE Reboot
  BY <1>12 DEF Reboot, AdminEnds
<1>13. CASE ClearRefused \/ ArmTrap \/ LaunchDesktop \/ RecordPid \/ ForwardPending
            \/ ResetWait \/ WaitReturns \/ CheckWait \/ Untrap \/ Prepare
            \/ PreFrontendStep \/ LaunchFrontend \/ CageReturns \/ StatMark \/ Count
            \/ Sleep \/ Exit \/ Signal \/ Login \/ Restarted \/ RunLong \/ FrontendExits
            \/ LingeringEnds \/ DesktopExits
  BY <1>13 DEF ClearRefused, ArmTrap, LaunchDesktop, RecordPid, ForwardPending, ResetWait,
     WaitReturns, CheckWait, Untrap, Prepare, PreFrontendStep, LaunchFrontend,
     CageReturns, StatMark, Count, Sleep, Exit, Signal, Login, Restarted, RunLong,
     FrontendExits, LingeringEnds, DesktopExits
<1>14. ASSUME NEW t \in Tools,
             ToolsStart(t) \/ ToolsFind(t) \/ ToolsKill(t) \/ ToolsKillFails(t)
             \/ ToolsEnds(t)
      PROVE  RequestTypeOK'
  BY <1>14 DEF ToolsStart, ToolsFind, ToolsKill, ToolsKillFails, ToolsEnds, ToolExits, ToolGoes
<1>15. CASE UNCHANGED vars
  BY <1>15 DEF vars
<1>16. QED
  BY <1>1, <1>2, <1>3, <1>4, <1>5, <1>6, <1>7, <1>8, <1>9, <1>10, <1>11, <1>12, <1>13,
     <1>14, <1>15
     DEF Next, SessionStep, DesktopBlock, FrontendLoop, DisplayManager, ToolsEntry

\* Every step keeps the flags truth values.
LEMMA BooleanTyping ==
  ASSUME TypeOK, [Next]_vars
  PROVE  BooleanTypeOK'
<1> USE DEF TypeOK, BooleanTypeOK, Goes, Passes
<1>1. CASE ClearMode
  BY <1>1 DEF ClearMode
<1>2. CASE ForwardPending
  BY <1>2 DEF ForwardPending, TellDesktop
<1>3. CASE ResetWait
  BY <1>3 DEF ResetWait
<1>4. CASE LaunchFrontend
  BY <1>4 DEF LaunchFrontend
<1>5. CASE TestMark
  BY <1>5 DEF TestMark
<1>6. CASE StatMark
  BY <1>6 DEF StatMark
<1>7. CASE Count
  BY <1>7 DEF Count, Counted, GivesUp
<1>8. CASE Exit
  BY <1>8 DEF Exit, Over, Bereft, ForgetDesktop, Reported
<1>9. CASE Signal
  BY <1>9 DEF Signal, TellDesktop, Over, Bereft, ForgetDesktop
<1>10. CASE RunLong
  BY <1>10 DEF RunLong
<1>11. CASE LingeringEnds
  BY <1>11 DEF LingeringEnds
<1>12. CASE Lapse
  BY <1>12 DEF Lapse
<1>13. ASSUME NEW t \in Tools, ToolsKill(t)
      PROVE  BooleanTypeOK'
  BY <1>13 DEF ToolsKill, ToolExits
<1>14. ASSUME NEW t \in Tools, ToolsWithdraw(t)
      PROVE  BooleanTypeOK'
  BY <1>14 DEF ToolsWithdraw, ToolExits
<1>15. ASSUME NEW m \in Modes, SwitchWrite(m)
      PROVE  BooleanTypeOK'
  BY <1>15 DEF SwitchWrite, Settled
<1>16. CASE SwitchRestart
  BY <1>16 DEF SwitchRestart, AdminEnds
<1>17. CASE SwitchRefused
  BY <1>17 DEF SwitchRefused, AdminEnds
<1>18. CASE Reboot
  BY <1>18 DEF Reboot, AdminEnds
<1>19. CASE ReadMode \/ ClearRefused \/ ArmTrap \/ LaunchDesktop \/ RecordPid
            \/ WaitReturns \/ CheckWait \/ Untrap \/ Prune \/ Prepare \/ PreFrontendStep
            \/ CageReturns \/ RemoveMark \/ Sleep \/ Login \/ Restarted \/ FrontendExits
            \/ DesktopExits
  BY <1>19 DEF ReadMode, ClearRefused, ArmTrap, LaunchDesktop, RecordPid, WaitReturns,
     CheckWait, Untrap, Prune, Prepare, PreFrontendStep, CageReturns, RemoveMark, Sleep,
     Login, Restarted, FrontendExits, DesktopExits
<1>20. ASSUME NEW t \in Tools,
             ToolsStart(t) \/ ToolsFind(t) \/ ToolsTouch(t) \/ ToolsKillFails(t)
             \/ ToolsEnds(t)
      PROVE  BooleanTypeOK'
  BY <1>20 DEF ToolsStart, ToolsFind, ToolsTouch, ToolsKillFails, ToolsEnds, ToolExits, ToolGoes
<1>21. CASE UNCHANGED vars
  BY <1>21 DEF vars
<1>22. QED
  BY <1>1, <1>2, <1>3, <1>4, <1>5, <1>6, <1>7, <1>8, <1>9, <1>10, <1>11, <1>12, <1>13,
     <1>14, <1>15, <1>16, <1>17, <1>18, <1>19, <1>20, <1>21
     DEF Next, SessionStep, DesktopBlock, FrontendLoop, DisplayManager, ToolsEntry

\* Every step keeps every variable within its range, given where the script may be.
LEMMA TypingNext == TypeOK /\ SessionInv /\ [Next]_vars => TypeOK'
BY DisplayTyping, ProcessTyping, RequestTyping, BooleanTyping DEF TypeOK


-----------------------------------------------------------------------------
(* The session and the display manager.                                    *)

\* Every step keeps who has a script, and where it is while the frontend runs.
LEMMA SessionNext ==
  ASSUME TypeOK, SessionInv, [Next]_vars
  PROVE  SessionInv'
<1> USE DEF TypeOK, DisplayTypeOK, ProcessTypeOK, SessionInv, CrashLimit, Armed, Goes, Passes
<1>1. CASE ReadMode
  BY <1>1 DEF ReadMode
<1>2. CASE ClearMode
  BY <1>2 DEF ClearMode
<1>3. CASE ClearRefused
  BY <1>3 DEF ClearRefused
<1>4. CASE ArmTrap
  BY <1>4 DEF ArmTrap
<1>5. CASE LaunchDesktop
  BY <1>5 DEF LaunchDesktop
<1>6. CASE RecordPid
  BY <1>6 DEF RecordPid
<1>7. CASE ForwardPending
  BY <1>7 DEF ForwardPending, TellDesktop
<1>8. CASE ResetWait
  BY <1>8 DEF ResetWait
<1>9. CASE WaitReturns
  BY <1>9 DEF WaitReturns
<1>10. CASE CheckWait
  BY <1>10 DEF CheckWait
<1>11. CASE Untrap
  BY <1>11 DEF Untrap
<1>12. CASE Prune
  BY <1>12 DEF Prune
<1>13. CASE Prepare
  BY <1>13 DEF Prepare
<1>14. CASE PreFrontendStep
  BY <1>14 DEF PreFrontendStep
<1>15. CASE LaunchFrontend
  BY <1>15 DEF LaunchFrontend
<1>16. CASE CageReturns
  BY <1>16 DEF CageReturns, Bereft
<1>17. CASE TestMark
  BY <1>17 DEF TestMark
<1>18. CASE StatMark
  BY <1>18 DEF StatMark
<1>19. CASE RemoveMark
  BY <1>19 DEF RemoveMark
<1>20. CASE Count
  BY <1>20 DEF Count, Counted, GivesUp
<1>21. CASE Sleep
  BY <1>21 DEF Sleep
<1>22. CASE Exit
  BY <1>22 DEF Exit, Over, Bereft, ForgetDesktop, Reported
<1>23. CASE Signal
  BY <1>23 DEF Signal, TellDesktop, Over, Bereft, ForgetDesktop
<1>24. CASE Login
  BY <1>24 DEF Login
<1>25. CASE Restarted
  BY <1>25 DEF Restarted
<1>26. CASE FrontendExits
  BY <1>26 DEF FrontendExits
<1>27. CASE SwitchRestart
  BY <1>27 DEF SwitchRestart, AdminEnds
<1>28. CASE Reboot
  BY <1>28 DEF Reboot, AdminEnds
<1>29. CASE RunLong \/ LingeringEnds \/ DesktopExits \/ Lapse \/ SwitchRefused
  BY <1>29 DEF RunLong, LingeringEnds, DesktopExits, Lapse, SwitchRefused
<1>30. ASSUME NEW t \in Tools,
             ToolsStart(t) \/ ToolsFind(t) \/ ToolsTouch(t) \/ ToolsKill(t)
             \/ ToolsKillFails(t) \/ ToolsWithdraw(t) \/ ToolsEnds(t)
      PROVE  SessionInv'
  BY <1>30 DEF ToolsStart, ToolsFind, ToolsTouch, ToolsKill, ToolsKillFails,
     ToolsWithdraw, ToolsEnds, ToolExits, ToolGoes
<1>31. ASSUME NEW m \in Modes, SwitchWrite(m)
      PROVE  SessionInv'
  BY <1>31 DEF SwitchWrite
<1>32. CASE UNCHANGED vars
  BY <1>32 DEF vars
<1>33. QED
  BY <1>1, <1>2, <1>3, <1>4, <1>5, <1>6, <1>7, <1>8, <1>9, <1>10, <1>11, <1>12, <1>13,
     <1>14, <1>15, <1>16, <1>17, <1>18, <1>19, <1>20, <1>21, <1>22, <1>23, <1>24, <1>25,
     <1>26, <1>27, <1>28, <1>29, <1>30, <1>31, <1>32
     DEF Next, SessionStep, DesktopBlock, FrontendLoop, DisplayManager, ToolsEntry

-----------------------------------------------------------------------------
(* The desktop: where it runs, and what its status is.                     *)

\* Every step keeps the desktop under the trap that will tell it to end.
LEMMA DesktopNext ==
  ASSUME TypeOK, SessionInv, DesktopInv, [Next]_vars
  PROVE  DesktopInv'
<1> USE DEF TypeOK, BooleanTypeOK, SessionInv, DesktopInv, Armed, Goes, Passes
<1>1. CASE ReadMode
  BY <1>1 DEF ReadMode
<1>2. CASE ClearMode
  BY <1>2 DEF ClearMode
<1>3. CASE ClearRefused
  BY <1>3 DEF ClearRefused
<1>4. CASE ArmTrap
  BY <1>4 DEF ArmTrap
<1>5. CASE LaunchDesktop
  BY <1>5 DEF LaunchDesktop
<1>6. CASE RecordPid
  BY <1>6 DEF RecordPid
<1>7. CASE ForwardPending
  BY <1>7 DEF ForwardPending, TellDesktop
<1>8. CASE ResetWait
  BY <1>8 DEF ResetWait
<1>9. CASE WaitReturns
  BY <1>9 DEF WaitReturns
<1>10. CASE CheckWait
  BY <1>10 DEF CheckWait
<1>11. CASE Untrap
  BY <1>11 DEF Untrap
<1>12. CASE Prune
  BY <1>12 DEF Prune
<1>13. CASE Prepare
  BY <1>13 DEF Prepare
<1>14. CASE PreFrontendStep
  BY <1>14 DEF PreFrontendStep
<1>15. CASE LaunchFrontend
  BY <1>15 DEF LaunchFrontend
<1>16. CASE CageReturns
  BY <1>16 DEF CageReturns, Bereft
<1>17. CASE TestMark
  BY <1>17 DEF TestMark
<1>18. CASE StatMark
  BY <1>18 DEF StatMark
<1>19. CASE RemoveMark
  BY <1>19 DEF RemoveMark
<1>20. CASE Count
  BY <1>20 DEF Count, Counted, GivesUp
<1>21. CASE Sleep
  BY <1>21 DEF Sleep
<1>22. CASE Exit
  BY <1>22 DEF Exit, Over, Bereft, ForgetDesktop, Reported
<1>23. CASE Signal
  BY <1>23 DEF Signal, TellDesktop, Over, Bereft, ForgetDesktop
<1>24. CASE Login
  BY <1>24 DEF Login
<1>25. CASE DesktopExits
  BY <1>25 DEF DesktopExits
<1>26. CASE Reboot
  BY <1>26 DEF Reboot, AdminEnds
<1>27. CASE Restarted \/ RunLong \/ FrontendExits \/ LingeringEnds \/ Lapse
            \/ SwitchRestart \/ SwitchRefused
  BY <1>27 DEF Restarted, RunLong, FrontendExits, LingeringEnds, Lapse, SwitchRestart,
     SwitchRefused
<1>28. ASSUME NEW t \in Tools,
             ToolsStart(t) \/ ToolsFind(t) \/ ToolsTouch(t) \/ ToolsKill(t)
             \/ ToolsKillFails(t) \/ ToolsWithdraw(t) \/ ToolsEnds(t)
      PROVE  DesktopInv'
  BY <1>28 DEF ToolsStart, ToolsFind, ToolsTouch, ToolsKill, ToolsKillFails,
     ToolsWithdraw, ToolsEnds, ToolExits, ToolGoes
<1>29. ASSUME NEW m \in Modes, SwitchWrite(m)
      PROVE  DesktopInv'
  BY <1>29 DEF SwitchWrite
<1>30. CASE UNCHANGED vars
  BY <1>30 DEF vars
<1>31. QED
  BY <1>1, <1>2, <1>3, <1>4, <1>5, <1>6, <1>7, <1>8, <1>9, <1>10, <1>11, <1>12, <1>13,
     <1>14, <1>15, <1>16, <1>17, <1>18, <1>19, <1>20, <1>21, <1>22, <1>23, <1>24, <1>25,
     <1>26, <1>27, <1>28, <1>29, <1>30
     DEF Next, SessionStep, DesktopBlock, FrontendLoop, DisplayManager, ToolsEntry

-----------------------------------------------------------------------------
(* The restart mark: what a fresh one stands for.                          *)

\* Every step keeps the mark and the requests it stands for together.
LEMMA MarkNext ==
  ASSUME TypeOK, SessionInv, MarkInv, [Next]_vars
  PROVE  MarkInv'
<1> USE DEF TypeOK, RequestTypeOK, BooleanTypeOK, SessionInv, MarkInv, Goes, Passes
<1>1. CASE ReadMode
  BY <1>1 DEF ReadMode
<1>2. CASE ClearMode
  BY <1>2 DEF ClearMode
<1>3. CASE ClearRefused
  BY <1>3 DEF ClearRefused
<1>4. CASE ArmTrap
  BY <1>4 DEF ArmTrap
<1>5. CASE LaunchDesktop
  BY <1>5 DEF LaunchDesktop
<1>6. CASE RecordPid
  BY <1>6 DEF RecordPid
<1>7. CASE ForwardPending
  BY <1>7 DEF ForwardPending, TellDesktop
<1>8. CASE ResetWait
  BY <1>8 DEF ResetWait
<1>9. CASE WaitReturns
  BY <1>9 DEF WaitReturns
<1>10. CASE CheckWait
  BY <1>10 DEF CheckWait
<1>11. CASE Untrap
  BY <1>11 DEF Untrap
<1>12. CASE Prune
  BY <1>12 DEF Prune
<1>13. CASE Prepare
  BY <1>13 DEF Prepare
<1>14. CASE PreFrontendStep
  BY <1>14 DEF PreFrontendStep
<1>15. CASE LaunchFrontend
  BY <1>15 DEF LaunchFrontend
<1>16. CASE CageReturns
  BY <1>16 DEF CageReturns, Bereft
<1>17. CASE TestMark
  BY <1>17 DEF TestMark
<1>18. CASE StatMark
  BY <1>18 DEF StatMark
<1>19. CASE RemoveMark
  BY <1>19 DEF RemoveMark
<1>20. CASE Count
  BY <1>20 DEF Count, Counted, GivesUp
<1>21. CASE Sleep
  BY <1>21 DEF Sleep
<1>22. CASE Exit
  BY <1>22 DEF Exit, Over, Bereft, ForgetDesktop, Reported
<1>23. CASE Signal
  BY <1>23 DEF Signal, TellDesktop, Over, Bereft, ForgetDesktop
<1>24. CASE Login
  BY <1>24 DEF Login
<1>25. CASE FrontendExits
  BY <1>25 DEF FrontendExits
<1>26. CASE Lapse
  BY <1>26 DEF Lapse
<1>27. ASSUME NEW t \in Tools, ToolsTouch(t)
      PROVE  MarkInv'
  BY <1>27 DEF ToolsTouch, ToolGoes
<1>28. ASSUME NEW t \in Tools, ToolsKill(t)
      PROVE  MarkInv'
  BY <1>28 DEF ToolsKill, ToolExits
<1>29. ASSUME NEW t \in Tools, ToolsWithdraw(t)
      PROVE  MarkInv'
  BY <1>29 DEF ToolsWithdraw, ToolExits
<1>30. CASE Reboot
  BY <1>30 DEF Reboot, AdminEnds
<1>31. CASE Restarted \/ RunLong \/ LingeringEnds \/ DesktopExits \/ SwitchRestart
            \/ SwitchRefused
  BY <1>31 DEF Restarted, RunLong, LingeringEnds, DesktopExits, SwitchRestart,
     SwitchRefused
<1>32. ASSUME NEW t \in Tools,
             ToolsStart(t) \/ ToolsFind(t) \/ ToolsKillFails(t) \/ ToolsEnds(t)
      PROVE  MarkInv'
  BY <1>32 DEF ToolsStart, ToolsFind, ToolsKillFails, ToolsEnds, ToolExits, ToolGoes
<1>33. ASSUME NEW m \in Modes, SwitchWrite(m)
      PROVE  MarkInv'
  BY <1>33 DEF SwitchWrite
<1>34. CASE UNCHANGED vars
  BY <1>34 DEF vars
<1>35. QED
  BY <1>1, <1>2, <1>3, <1>4, <1>5, <1>6, <1>7, <1>8, <1>9, <1>10, <1>11, <1>12, <1>13,
     <1>14, <1>15, <1>16, <1>17, <1>18, <1>19, <1>20, <1>21, <1>22, <1>23, <1>24, <1>25,
     <1>26, <1>27, <1>28, <1>29, <1>30, <1>31, <1>32, <1>33, <1>34
     DEF Next, SessionStep, DesktopBlock, FrontendLoop, DisplayManager, ToolsEntry

-----------------------------------------------------------------------------
(* The mode flag: what it records, and what a switch promises.             *)

\* Every step keeps the mode flag what was last selected.
LEMMA FlagNext ==
  ASSUME TypeOK, SessionInv, FlagInv, [Next]_vars
  PROVE  FlagInv'
<1> USE DEF TypeOK, DisplayTypeOK, RequestTypeOK, BooleanTypeOK, SessionInv, FlagInv,
        Modes, Settled, Armed, Goes, Passes
<1>1. CASE ReadMode
  BY <1>1 DEF ReadMode
<1>2. CASE ClearMode
  BY <1>2 DEF ClearMode
<1>3. CASE ClearRefused
  BY <1>3 DEF ClearRefused
<1>4. CASE ArmTrap
  BY <1>4 DEF ArmTrap
<1>5. CASE LaunchDesktop
  BY <1>5 DEF LaunchDesktop
<1>6. CASE RecordPid
  BY <1>6 DEF RecordPid
<1>7. CASE ForwardPending
  BY <1>7 DEF ForwardPending, TellDesktop
<1>8. CASE ResetWait
  BY <1>8 DEF ResetWait
<1>9. CASE WaitReturns
  BY <1>9 DEF WaitReturns
<1>10. CASE CheckWait
  BY <1>10 DEF CheckWait
<1>11. CASE Untrap
  BY <1>11 DEF Untrap
<1>12. CASE Prune
  BY <1>12 DEF Prune
<1>13. CASE Prepare
  BY <1>13 DEF Prepare
<1>14. CASE PreFrontendStep
  BY <1>14 DEF PreFrontendStep
<1>15. CASE LaunchFrontend
  BY <1>15 DEF LaunchFrontend
<1>16. CASE CageReturns
  BY <1>16 DEF CageReturns, Bereft
<1>17. CASE TestMark
  BY <1>17 DEF TestMark
<1>18. CASE StatMark
  BY <1>18 DEF StatMark
<1>19. CASE RemoveMark
  BY <1>19 DEF RemoveMark
<1>20. CASE Count
  BY <1>20 DEF Count, Counted, GivesUp
<1>21. CASE Sleep
  BY <1>21 DEF Sleep
<1>22. CASE Exit
  BY <1>22 DEF Exit, Over, Bereft, ForgetDesktop, Reported
<1>23. CASE Signal
  BY <1>23 DEF Signal, TellDesktop, Over, Bereft, ForgetDesktop
<1>24. CASE Login
  BY <1>24 DEF Login
<1>25. CASE Restarted
  BY <1>25 DEF Restarted
<1>26. ASSUME NEW m \in Modes, SwitchWrite(m)
      PROVE  FlagInv'
  BY <1>26 DEF SwitchWrite, Settled
<1>27. CASE SwitchRestart
  BY <1>27 DEF SwitchRestart, AdminEnds
<1>28. CASE SwitchRefused
  BY <1>28 DEF SwitchRefused, AdminEnds
<1>29. CASE Reboot
  BY <1>29 DEF Reboot, AdminEnds
<1>30. CASE RunLong \/ FrontendExits \/ LingeringEnds \/ DesktopExits \/ Lapse
  BY <1>30 DEF RunLong, FrontendExits, LingeringEnds, DesktopExits, Lapse
<1>31. ASSUME NEW t \in Tools,
             ToolsStart(t) \/ ToolsFind(t) \/ ToolsTouch(t) \/ ToolsKill(t)
             \/ ToolsKillFails(t) \/ ToolsWithdraw(t) \/ ToolsEnds(t)
      PROVE  FlagInv'
  BY <1>31 DEF ToolsStart, ToolsFind, ToolsTouch, ToolsKill, ToolsKillFails,
     ToolsWithdraw, ToolsEnds, ToolExits, ToolGoes
<1>32. CASE UNCHANGED vars
  BY <1>32 DEF vars
<1>33. QED
  BY <1>1, <1>2, <1>3, <1>4, <1>5, <1>6, <1>7, <1>8, <1>9, <1>10, <1>11, <1>12, <1>13,
     <1>14, <1>15, <1>16, <1>17, <1>18, <1>19, <1>20, <1>21, <1>22, <1>23, <1>24, <1>25,
     <1>26, <1>27, <1>28, <1>29, <1>30, <1>31, <1>32
     DEF Next, SessionStep, DesktopBlock, FrontendLoop, DisplayManager, ToolsEntry

-----------------------------------------------------------------------------
(* The theorems.                                                           *)

\* The inductive invariant holds initially.
LEMMA KioskInit == Init => KioskInv
<1>1. Init => SessionInv
  BY DEF Init, SessionInv, CrashLimit
<1>2. Init => DesktopInv
  BY DEF Init, DesktopInv
<1>3. Init => MarkInv
  BY DEF Init, MarkInv
<1>4. Init => FlagInv
  BY DEF Init, FlagInv
<1>5. QED
  BY TypingInit, <1>1, <1>2, <1>3, <1>4 DEF KioskInv

\* The invariant is inductive.
LEMMA KioskNext == KioskInv /\ [Next]_vars => KioskInv'
BY TypingNext, SessionNext, DesktopNext, MarkNext, FlagNext DEF KioskInv

\* The inductive invariant, types included.
THEOREM KioskInvariant == Spec => []KioskInv
BY KioskInit, KioskNext, PTL DEF Spec

\* Every variable keeps to its range; so the crash counter never passes its limit.
THEOREM TypeCorrect == Spec => []TypeOK
<1>1. KioskInv => TypeOK
  BY DEF KioskInv
<1>2. QED
  BY <1>1, KioskInvariant, PTL

\* No way out of the script, a signal at any command included, leaves a desktop running.
THEOREM NoDesktopLeftBehind == Spec => []SessionOutlivesDesktop
<1>1. KioskInv => SessionOutlivesDesktop
  BY DEF KioskInv, DesktopInv, SessionOutlivesDesktop
<1>2. QED
  BY <1>1, KioskInvariant, PTL

\* However often its wait is interrupted, the block reports the desktop's own status.
THEOREM StatusIsReal == Spec => []RealStatus
<1>1. KioskInv => RealStatus
  BY DEF KioskInv, DesktopInv, RealStatus
<1>2. QED
  BY <1>1, KioskInvariant, PTL

\* A frontend that an entry told to end is not counted as crashed.
THEOREM RequestsAreHonoured == Spec => []RequestIsHonoured
<1>1. KioskInv => RequestIsHonoured
  BY DEF KioskInv, MarkInv, RequestIsHonoured
<1>2. QED
  BY <1>1, KioskInvariant, PTL

\* Only a request that still stands excuses an exit.
THEOREM OnlyRequestsExcuse == Spec => ExcusedByOwnRequest
<1>1. KioskInv /\ [Next]_vars => [~requested /\ requested' => open # {}]_vars
  <2> SUFFICES ASSUME KioskInv, [Next]_vars, ~requested, requested'
               PROVE  open # {}
    OBVIOUS
  <2>1. sesPc = "stat" /\ requested' = (mark = "fresh")
    <3> USE DEF Goes, Passes
    <3>1. CASE DesktopBlock
      BY <3>1 DEF ReadMode, ClearMode, ClearRefused, ArmTrap, LaunchDesktop, RecordPid,
         ForwardPending, ResetWait, WaitReturns, CheckWait, Untrap, TellDesktop,
         DesktopBlock
    <3>2. CASE FrontendLoop
      BY <3>2 DEF Prune, Prepare, PreFrontendStep, LaunchFrontend, CageReturns, TestMark,
         StatMark, RemoveMark, Count, Sleep, Bereft, Counted, GivesUp, FrontendLoop
    <3>3. CASE Exit \/ DisplayManager
      BY <3>3 DEF Exit, Signal, Login, Restarted, Over, Bereft, ForgetDesktop, Reported,
         TellDesktop, DisplayManager
    <3>4. CASE RunLong \/ FrontendExits \/ LingeringEnds \/ DesktopExits \/ Lapse
      BY <3>4 DEF RunLong, FrontendExits, LingeringEnds, DesktopExits, Lapse
    <3>5. ASSUME NEW t \in Tools, ToolsEntry(t)
          PROVE  sesPc = "stat" /\ requested' = (mark = "fresh")
      BY <3>5 DEF ToolsStart, ToolsFind, ToolsTouch, ToolsKill, ToolsKillFails,
         ToolsWithdraw, ToolsEnds, ToolGoes, ToolExits, ToolsEntry
    <3>6. ASSUME NEW m \in Modes, SwitchWrite(m)
          PROVE  sesPc = "stat" /\ requested' = (mark = "fresh")
      BY <3>6 DEF SwitchWrite, Settled
    <3>7. CASE SwitchRestart \/ SwitchRefused \/ Reboot
      BY <3>7 DEF SwitchRestart, SwitchRefused, Reboot, AdminEnds
    <3>8. CASE UNCHANGED vars
      BY <3>8 DEF vars
    <3>9. QED
      BY <3>1, <3>2, <3>3, <3>4, <3>5, <3>6, <3>7, <3>8 DEF Next, SessionStep
  <2>2. QED
    BY <2>1 DEF KioskInv, MarkInv
<1>2. QED
  BY <1>1, KioskInvariant, PTL DEF Spec, ExcusedByOwnRequest

\* One selection of the desktop gives at most one session in it.
THEOREM DesktopIsOneShot == Spec => OneShot
<1>1. KioskInv => [sesPc = "clear" /\ sesPc' = "arm" => selected]_vars
  BY DEF KioskInv, FlagInv
<1>2. QED
  BY <1>1, KioskInvariant, PTL DEF OneShot

\* A switch made while no session was starting, and accepted, decides the next session's mode.
THEOREM SwitchesDecide == Spec => SwitchDecides
<1>1. KioskInv /\ [Next]_vars =>
        [sesPc = "start" /\ sesPc' \in {"clear", "prune"} =>
           /\ due = "desktop" => sesPc' = "clear"
           /\ due = "kiosk" => sesPc' = "prune"]_vars
  <2> SUFFICES ASSUME KioskInv, [Next]_vars, sesPc = "start", sesPc' \in {"clear", "prune"}
               PROVE  /\ due = "desktop" => sesPc' = "clear"
                      /\ due = "kiosk" => sesPc' = "prune"
    OBVIOUS
  <2>1. sesPc' = IF flag = "desktop" THEN "clear" ELSE "prune"
    <3> USE DEF Goes, Passes
    <3>1. CASE DesktopBlock
      BY <3>1 DEF ReadMode, ClearMode, ClearRefused, ArmTrap, LaunchDesktop, RecordPid,
         ForwardPending, ResetWait, WaitReturns, CheckWait, Untrap, TellDesktop,
         DesktopBlock
    <3>2. CASE FrontendLoop
      BY <3>2 DEF Prune, Prepare, PreFrontendStep, LaunchFrontend, CageReturns, TestMark,
         StatMark, RemoveMark, Count, Sleep, Bereft, Counted, GivesUp, FrontendLoop
    <3>3. CASE Exit \/ DisplayManager
      BY <3>3 DEF Exit, Signal, Login, Restarted, Over, Bereft, ForgetDesktop, Reported,
         TellDesktop, DisplayManager
    <3>4. CASE RunLong \/ FrontendExits \/ LingeringEnds \/ DesktopExits \/ Lapse
      BY <3>4 DEF RunLong, FrontendExits, LingeringEnds, DesktopExits, Lapse
    <3>5. ASSUME NEW t \in Tools, ToolsEntry(t)
          PROVE  sesPc' = IF flag = "desktop" THEN "clear" ELSE "prune"
      BY <3>5 DEF ToolsStart, ToolsFind, ToolsTouch, ToolsKill, ToolsKillFails,
         ToolsWithdraw, ToolsEnds, ToolGoes, ToolExits, ToolsEntry
    <3>6. ASSUME NEW m \in Modes, SwitchWrite(m)
          PROVE  sesPc' = IF flag = "desktop" THEN "clear" ELSE "prune"
      BY <3>6 DEF SwitchWrite, Settled
    <3>7. CASE SwitchRestart \/ SwitchRefused \/ Reboot
      BY <3>7 DEF SwitchRestart, SwitchRefused, Reboot, AdminEnds
    <3>8. CASE UNCHANGED vars
      BY <3>8 DEF vars
    <3>9. QED
      BY <3>1, <3>2, <3>3, <3>4, <3>5, <3>6, <3>7, <3>8 DEF Next, SessionStep
  <2>2. QED
    BY <2>1 DEF KioskInv, FlagInv
<1>2. QED
  BY <1>1, KioskInvariant, PTL DEF Spec, SwitchDecides

-----------------------------------------------------------------------------
(* The other side of the finding: when an accepted switch is selected.     *)

\* A desktop in the flag of a switch that has not restarted yet is the one it asked for.
AskedInv == adminPc = "restart" /\ flag = "desktop" => adminMode = "desktop"

\* Every step keeps it: besides emubox-mode, the session only removes the flag.
LEMMA AskedNext == AskedInv /\ [Next]_vars => AskedInv'
<1> SUFFICES ASSUME AskedInv, [Next]_vars PROVE AskedInv'
  OBVIOUS
<1> USE DEF AskedInv
<1>1. CASE \E m \in Modes : SwitchWrite(m)
  BY <1>1 DEF SwitchWrite
<1>2. CASE SwitchRestart \/ SwitchRefused \/ Reboot
  BY <1>2 DEF SwitchRestart, SwitchRefused, Reboot, AdminEnds
<1>3. CASE ClearMode
  BY <1>3 DEF ClearMode, Goes
<1>4. CASE \E t \in Tools : ToolsEntry(t)
  BY <1>4
  DEF ToolsEntry, ToolsStart, ToolsFind, ToolsTouch, ToolsKill, ToolsKillFails, ToolsWithdraw,
      ToolsEnds
<1>5. CASE DesktopBlock /\ ~ClearMode
  BY <1>5
  DEF DesktopBlock, ReadMode, ClearRefused, ArmTrap, LaunchDesktop, RecordPid, ForwardPending,
      ResetWait, WaitReturns, CheckWait, Untrap, Passes, Goes
<1>6. CASE FrontendLoop
  BY <1>6
  DEF FrontendLoop, Prune, Prepare, PreFrontendStep, LaunchFrontend, CageReturns, TestMark,
      StatMark, RemoveMark, Count, Sleep, Passes, Goes
<1>7. CASE Exit \/ DisplayManager
  BY <1>7 DEF Exit, DisplayManager, Signal, Login, Restarted
<1>8. CASE RunLong \/ FrontendExits \/ LingeringEnds \/ DesktopExits \/ Lapse \/ UNCHANGED vars
  BY <1>8 DEF RunLong, FrontendExits, LingeringEnds, DesktopExits, Lapse, vars
<1>9. QED
  BY <1>1, <1>2, <1>3, <1>4, <1>5, <1>6, <1>7, <1>8 DEF Next, SessionStep

\* emubox-mode's message is true of every switch whose flag was written while no session was
\* starting, and of every switch to the kiosk: the finding needs a desktop and a starting session.
THEOREM SettledSwitchIsSelected == Spec => AcceptedOnceSettled
<1>1. Init => AskedInv
  BY DEF Init, AskedInv
<1>2. KioskInv /\ AskedInv =>
        [SwitchRestart =>
           /\ settled => (adminMode = "desktop" <=> flag = "desktop")
           /\ flag = "desktop" => adminMode = "desktop"]_vars
  BY DEF KioskInv, FlagInv, AskedInv, SwitchRestart
<1>3. QED
  BY <1>1, <1>2, AskedNext, KioskInvariant, PTL DEF Spec, AcceptedOnceSettled

-----------------------------------------------------------------------------
(* Kiosk implements Screen.                                                *)

\* What a step is to Screen.
PictureStep == TV!Next \/ UNCHANGED <<Picture, selected>>

\* A step of the script shows what Screen allows.
LEMMA SessionPictureStep ==
  ASSUME KioskInv, SessionStep
  PROVE  PictureStep
<1> USE DEF PictureStep, TV!Next, TV!Select, TV!Appear, TV!Open, TV!OpenDesktop, TV!Vanish,
        Picture, KioskInv, TypeOK, DisplayTypeOK, ProcessTypeOK, SessionInv, DesktopInv,
        FlagInv, Armed, Goes, Passes
<1>1. CASE ReadMode \/ ClearRefused \/ ArmTrap \/ RecordPid \/ ForwardPending
  BY <1>1 DEF ReadMode, ClearRefused, ArmTrap, RecordPid, ForwardPending, TellDesktop
<1>2. CASE ClearMode
  BY <1>2 DEF ClearMode
<1>3. CASE LaunchDesktop
  BY <1>3 DEF LaunchDesktop
<1>4. CASE ResetWait \/ WaitReturns \/ CheckWait \/ Untrap
  BY <1>4 DEF ResetWait, WaitReturns, CheckWait, Untrap
<1>5. CASE Prune \/ Prepare \/ PreFrontendStep
  BY <1>5 DEF Prune, Prepare, PreFrontendStep
<1>6. CASE LaunchFrontend
  BY <1>6 DEF LaunchFrontend
<1>7. CASE CageReturns \/ TestMark \/ StatMark \/ RemoveMark \/ Sleep
  BY <1>7 DEF CageReturns, TestMark, StatMark, RemoveMark, Sleep, Bereft
<1>8. CASE Count
  BY <1>8 DEF Count, Counted, GivesUp
<1>9. CASE Exit
  BY <1>9 DEF Exit, Over, Bereft, ForgetDesktop, Reported
<1>10. QED
  BY <1>1, <1>2, <1>3, <1>4, <1>5, <1>6, <1>7, <1>8, <1>9
  DEF SessionStep, DesktopBlock, FrontendLoop

\* Every other step shows what Screen allows.
LEMMA OtherPictureStep ==
  ASSUME KioskInv, Next, ~SessionStep
  PROVE  PictureStep
<1> USE DEF PictureStep, TV!Next, TV!Select, TV!Appear, TV!Vanish, TV!PowerOff, Picture,
        KioskInv, TypeOK, DisplayTypeOK, ProcessTypeOK, SessionInv, DesktopInv, Armed
<1>1. CASE Signal
  BY <1>1 DEF Signal, Over, Bereft, ForgetDesktop, TellDesktop
<1>2. CASE Login \/ Restarted
  BY <1>2 DEF Login, Restarted
<1>3. CASE RunLong \/ FrontendExits \/ LingeringEnds \/ DesktopExits \/ Lapse
  BY <1>3 DEF RunLong, FrontendExits, LingeringEnds, DesktopExits, Lapse
<1>4. ASSUME NEW t \in Tools, ToolsEntry(t)
      PROVE  PictureStep
  BY <1>4 DEF ToolsStart, ToolsFind, ToolsTouch, ToolsKill, ToolsKillFails, ToolsWithdraw,
     ToolsEnds, ToolGoes, ToolExits, ToolsEntry
<1>5. ASSUME NEW m \in Modes, SwitchWrite(m)
      PROVE  PictureStep
  <2>1. selected' = selected \/ selected' = TRUE
    BY <1>5, Zenon DEF SwitchWrite, BooleanTypeOK
  <2>2. UNCHANGED Picture
    BY <1>5 DEF SwitchWrite
  <2>3. QED
    BY <2>1, <2>2
<1>6. CASE SwitchRestart \/ SwitchRefused \/ Reboot
  BY <1>6 DEF SwitchRestart, SwitchRefused, Reboot, AdminEnds
<1>7. QED
  BY <1>1, <1>2, <1>3, <1>4, <1>5, <1>6 DEF Next, DisplayManager

\* Every behaviour of Kiosk is a behaviour of Screen.
THEOREM ScreenIsImplemented == Spec => ScreenImplemented
<1>1. Init => TV!Init
  BY DEF Init, TV!Init, Picture
<1>2. KioskInv /\ [Next]_vars => [TV!Next]_<<Picture, selected>>
  <2>1. UNCHANGED vars => UNCHANGED <<Picture, selected>>
    BY DEF vars, Picture
  <2>2. QED
    BY <2>1, SessionPictureStep, OtherPictureStep DEF PictureStep
<1>3. QED
  BY <1>1, <1>2, KioskInvariant, PTL DEF Spec, ScreenImplemented, TV!Spec

-----------------------------------------------------------------------------
(* What the script waits for.                                              *)

\* What the script waits for is there, and a stop's signal is not lost.
LEMMA WaitNext ==
  ASSUME KioskInv, WaitInv, [Next]_vars
  PROVE  WaitInv'
<1> USE KioskAssumption
    DEF KioskInv, TypeOK, DisplayTypeOK, ProcessTypeOK, SessionInv, DesktopInv, WaitInv, Armed,
        Goes, Passes
<1>1. CASE ReadMode \/ ClearMode \/ ClearRefused \/ ArmTrap \/ LaunchDesktop \/ RecordPid
  BY <1>1 DEF ReadMode, ClearMode, ClearRefused, ArmTrap, LaunchDesktop, RecordPid
<1>2. CASE ForwardPending
  BY <1>2 DEF ForwardPending, TellDesktop
<1>3. CASE ResetWait \/ WaitReturns \/ CheckWait \/ Untrap
  BY <1>3 DEF ResetWait, WaitReturns, CheckWait, Untrap
<1>4. CASE Prune \/ Prepare \/ PreFrontendStep \/ LaunchFrontend \/ CageReturns
  BY <1>4 DEF Prune, Prepare, PreFrontendStep, LaunchFrontend, CageReturns, Bereft
<1>5. CASE TestMark \/ StatMark \/ RemoveMark \/ Count \/ Sleep
  BY <1>5 DEF TestMark, StatMark, RemoveMark, Count, Sleep
<1>6. CASE Exit
  BY <1>6 DEF Exit, Over, Reported, ForgetDesktop
<1>7. CASE Signal
  BY <1>7 DEF Signal, Over, TellDesktop, ForgetDesktop
<1>8. CASE Login \/ Restarted
  BY <1>8 DEF Login, Restarted
<1>9. CASE RunLong \/ FrontendExits \/ LingeringEnds \/ DesktopExits \/ Lapse
  BY <1>9 DEF RunLong, FrontendExits, LingeringEnds, DesktopExits, Lapse
<1>10. CASE \E t \in Tools : ToolsEntry(t)
  BY <1>10
  DEF ToolsEntry, ToolsStart, ToolsFind, ToolsTouch, ToolsKill, ToolsKillFails, ToolsWithdraw,
      ToolsEnds
<1>11. CASE (\E m \in Modes : SwitchWrite(m)) \/ SwitchRefused
  BY <1>11 DEF SwitchWrite, SwitchRefused
<1>12. CASE SwitchRestart
  BY <1>12 DEF SwitchRestart
<1>13. CASE Reboot
  BY <1>13 DEF Reboot
<1>14. CASE UNCHANGED vars
  BY <1>14 DEF vars
<1>15. QED
  BY <1>1, <1>2, <1>3, <1>4, <1>5, <1>6, <1>7, <1>8, <1>9, <1>10, <1>11, <1>12, <1>13, <1>14
  DEF Next, SessionStep, DesktopBlock, FrontendLoop, DisplayManager

\* So it is in every state.
LEMMA WaitInvariant == Spec => [](KioskInv /\ WaitInv)
<1>1. Init => WaitInv
  BY DEF Init, WaitInv, Armed
<1>2. QED
  BY <1>1, KioskInit, KioskNext, WaitNext, PTL DEF Spec

-----------------------------------------------------------------------------
(* What a step does to the script.                                         *)

\* The script's own step, from each of its commands.
LEMMA ScriptGoes ==
  ASSUME KioskInv, SessionStep
  PROVE  /\ sesPc = "start" => sesPc' \in {"clear", "prune"}
         /\ sesPc = "clear" => sesPc' \in {"arm", "prune"}
         /\ sesPc = "arm" => sesPc' = "launch"
         /\ sesPc = "launch" => sesPc' = "pid" /\ desktop' = "running"
         /\ sesPc = "pid" => sesPc' = "pending"
         /\ sesPc = "pending" => sesPc' = "resetWait"
         /\ sesPc = "resetWait" => sesPc' = "wait" /\ ~interrupted'
         /\ sesPc = "wait" => sesPc' = "check"
         /\ sesPc = "check" => sesPc' = IF interrupted THEN "resetWait" ELSE "untrap"
         /\ sesPc = "untrap" => sesPc' = "exit"
         /\ sesPc = "exit" => sesPc' = "none" /\ (dm = "session" => dm' = "greeter")
<1> USE DEF KioskInv, SessionInv, Goes, Passes, Reported
<1>1. CASE DesktopBlock
  BY <1>1
  DEF DesktopBlock, ReadMode, ClearMode, ClearRefused, ArmTrap, LaunchDesktop, RecordPid,
      ForwardPending, ResetWait, WaitReturns, CheckWait, Untrap
<1>2. CASE FrontendLoop
  BY <1>2
  DEF FrontendLoop, Prune, Prepare, PreFrontendStep, LaunchFrontend, CageReturns, TestMark,
      StatMark, RemoveMark, Count, Sleep
<1>3. CASE Exit
  BY <1>3 DEF Exit, Over
<1>4. QED
  BY <1>1, <1>2, <1>3 DEF SessionStep

\* The frontend's loop, and what the counting does with the run that has ended.
LEMMA LoopGoes ==
  ASSUME KioskInv, SessionStep
  PROVE  /\ sesPc = "prune" => sesPc' = "prepare"
         /\ sesPc = "prepare" => sesPc' \in {"step", "exit"}
         /\ sesPc = "step" => sesPc' = "cage"
         /\ sesPc = "cage" => sesPc' = "run" /\ fe' \in {"running", "exited"} /\ ~long'
         /\ sesPc = "run" => sesPc' = "test"
         /\ sesPc = "test" => sesPc' = (IF mark = "none" THEN "count" ELSE "stat") /\ ~requested'
         /\ sesPc = "stat" => sesPc' = "remove"
         /\ sesPc = "remove" => sesPc' = "count" /\ mark' = "none"
         /\ sesPc = "count" => /\ sesPc' \in {"sleep", "exit"}
                               /\ crashes' = Counted
                               /\ GivesUp => sesPc' = "exit"
                               /\ ~long'
         /\ sesPc = "sleep" => sesPc' = "prepare"
<1> USE DEF KioskInv, SessionInv, Goes, Passes
<1>1. CASE DesktopBlock
  BY <1>1
  DEF DesktopBlock, ReadMode, ClearMode, ClearRefused, ArmTrap, LaunchDesktop, RecordPid,
      ForwardPending, ResetWait, WaitReturns, CheckWait, Untrap
<1>2. CASE FrontendLoop
  BY <1>2
  DEF FrontendLoop, Prune, Prepare, PreFrontendStep, LaunchFrontend, CageReturns, TestMark,
      StatMark, RemoveMark, Count, Sleep
<1>3. CASE Exit
  BY <1>3 DEF Exit, Over
<1>4. QED
  BY <1>1, <1>2, <1>3 DEF SessionStep

\* Only the end of the frontend's run touches the counter and the request.
LEMMA CounterKept ==
  ASSUME KioskInv, SessionStep, sesPc # "exit"
  PROVE  /\ sesPc # "count" => crashes' = crashes
         /\ sesPc \notin {"test", "stat"} => requested' = requested
         /\ dm' = dm
         /\ desktop' = desktop \/ sesPc = "launch"
         /\ sesPc # "cage" => fe' = fe \/ fe' = "none"
         /\ sesPc \notin {"cage", "count"} => long' = long
<1> USE DEF KioskInv, SessionInv, Goes, Passes
<1>1. CASE DesktopBlock
  BY <1>1
  DEF DesktopBlock, ReadMode, ClearMode, ClearRefused, ArmTrap, LaunchDesktop, RecordPid,
      ForwardPending, ResetWait, WaitReturns, CheckWait, Untrap
<1>2. CASE FrontendLoop
  BY <1>2
  DEF FrontendLoop, Prune, Prepare, PreFrontendStep, LaunchFrontend, CageReturns, TestMark,
      StatMark, RemoveMark, Count, Sleep
<1>3. CASE Exit
  BY <1>3 DEF Exit
<1>4. QED
  BY <1>1, <1>2, <1>3 DEF SessionStep

\* The steps that end a script from outside, begin one, or signal it.
Intrudes == Signal \/ Login \/ Reboot

\* Any other step leaves the script alone.
LEMMA ScriptStands ==
  ASSUME [Next]_vars, ~SessionStep, ~Intrudes
  PROVE  /\ UNCHANGED <<sesPc, scriptVars>>
         /\ fe' = fe \/ (fe = "running" /\ fe' = "exited")
         /\ long' = long \/ fe = "running"
<1> USE DEF Intrudes
<1>1. CASE RunLong \/ FrontendExits \/ LingeringEnds \/ DesktopExits \/ Lapse \/ Restarted
  BY <1>1 DEF RunLong, FrontendExits, LingeringEnds, DesktopExits, Lapse, Restarted
<1>2. CASE \E t \in Tools : ToolsEntry(t)
  BY <1>2
  DEF ToolsEntry, ToolsStart, ToolsFind, ToolsTouch, ToolsKill, ToolsKillFails, ToolsWithdraw,
      ToolsEnds
<1>3. CASE (\E m \in Modes : SwitchWrite(m)) \/ SwitchRestart \/ SwitchRefused
  BY <1>3 DEF SwitchWrite, SwitchRestart, SwitchRefused
<1>4. CASE UNCHANGED vars
  BY <1>4 DEF vars
<1>5. QED
  BY <1>1, <1>2, <1>3, <1>4 DEF Next, DisplayManager

\* A command of the script, as the temporal steps see it.
At(pc) == sesPc = pc

-----------------------------------------------------------------------------
(* Nobody is stuck.  This theorem and those of liveness take               *)
(* []GuardsSuffice as their hypothesis: that an action whose guard holds   *)
(* is enabled, the one fact about ENABLED they need.                       *)

\* What the script's commands ask for before they return.
ScriptGuard ==
  \/ sesPc \in {"start", "clear", "arm", "launch", "pid", "pending", "resetWait", "check", "untrap"}
  \/ sesPc = "wait" /\ desktop = "gone"                     \* WaitReturns
  \/ sesPc \in {"prune", "prepare", "step", "cage", "test", "stat", "remove", "count", "sleep"}
  \/ sesPc = "run" /\ fe = "exited"                         \* CageReturns
  \/ sesPc = "exit"                                         \* Exit

\* What the display manager asks for.
DisplayGuard ==
  \/ dm = "login"                                                     \* Login
  \/ dm = "stopping" /\ sesPc = "none"                                \* Restarted
  \/ dm = "stopping" /\ sesPc # "none" /\ signals < MaxSignals        \* Signal

\* A guard that holds enables its action: the primed conjuncts only assign.
GuardsSuffice ==
  /\ ScriptGuard => ENABLED <<SessionStep>>_vars
  /\ DisplayGuard => ENABLED <<DisplayManager>>_vars
  /\ told /\ desktop = "running" => ENABLED <<DesktopObeys>>_vars

\* Somebody has a step to take, or the TV shows what only its user can end, or a switch during a
\* login has left the display manager looping.
SomebodyActs ==
  \/ dm = "greeter" \/ fe = "running" \/ (desktop = "running" /\ ~told)
  \/ Looping
  \/ ENABLED <<SessionStep>>_vars
  \/ ENABLED <<DisplayManager>>_vars
  \/ ENABLED <<DesktopObeys>>_vars

\* Neither the script nor the display manager ever waits for something that is over, and the
\* kiosk rests only on the greeter, a frontend or a desktop nobody told to end, or, after a
\* switch that met a login, in a display manager that loops.
THEOREM NobodyIsStuck == Spec /\ []GuardsSuffice => []NeverStuck /\ []SomebodyActs
<1>1. KioskInv /\ WaitInv /\ GuardsSuffice => NeverStuck /\ SomebodyActs
  <2> SUFFICES ASSUME KioskInv, WaitInv, GuardsSuffice
               PROVE  NeverStuck /\ SomebodyActs
    OBVIOUS
  <2> USE DEF KioskInv, TypeOK, DisplayTypeOK, ProcessTypeOK
  <2>1. SessionReady => ScriptGuard
    BY DEF SessionReady, ScriptGuard, SesPcs, Armed
  <2>2. DisplayReady => DisplayGuard
    BY DEF DisplayReady, DisplayGuard
  <2>3. NeverStuck
    BY <2>1, <2>2 DEF GuardsSuffice, NeverStuck, DesktopReady
  <2>4. CASE dm = "login"
    BY <2>3, <2>4 DEF DisplayGuard, GuardsSuffice, SomebodyActs
  <2>5. CASE dm \in {"session", "stopping"} /\ sesPc # "none"
    <3>1. CASE sesPc = "wait"
      <4>1. desktop # "none"
        BY <3>1 DEF WaitInv, Armed
      <4>2. CASE desktop = "gone"
        BY <2>3, <3>1, <4>2 DEF ScriptGuard, GuardsSuffice, SomebodyActs
      <4>3. CASE desktop = "running" /\ told
        BY <2>3, <4>3 DEF GuardsSuffice, SomebodyActs
      <4>4. QED
        BY <2>3, <4>1, <4>2, <4>3 DEF SomebodyActs
    <3>2. CASE sesPc = "run"
      <4>1. fe # "none"
        BY <3>2 DEF WaitInv
      <4>2. QED
        BY <2>3, <3>2, <4>1 DEF ScriptGuard, GuardsSuffice, SomebodyActs
    <3>3. CASE sesPc \notin {"wait", "run"}
      <4>1. SessionReady
        BY <2>5, <3>3 DEF SessionReady
      <4>2. QED
        BY <2>1, <2>3, <4>1 DEF GuardsSuffice, SomebodyActs
    <3>4. QED
      BY <3>1, <3>2, <3>3
  <2>6. CASE dm = "stopping" /\ sesPc = "none"
    BY <2>3, <2>6 DEF DisplayGuard, GuardsSuffice, SomebodyActs
  <2>7. CASE dm = "greeter"
    BY <2>3, <2>7 DEF SomebodyActs
  <2>8. CASE dm = "looping"
    BY <2>3, <2>8 DEF SomebodyActs, Looping
  <2>9. QED
    BY <2>3, <2>4, <2>5, <2>6, <2>7, <2>8 DEF WaitInv
<1>2. QED
  BY <1>1, WaitInvariant, PTL

-----------------------------------------------------------------------------
(* A crash loop ends.                                                      *)

\* With no desktop, no request and no long run, the script goes round its loop, one short run
\* at a time, and leaves it at the third.
THEOREM CrashLoopsEnd == FairSpec /\ []GuardsSuffice => CrashLoopEnds
<1> DEFINE Step == KioskInv /\ WaitInv /\ Unaided /\ Unaided' /\ [Next]_vars
           Short(n) == crashes = n
           Asked == requested
           Up == fe = "running"
<1>1. KioskInv /\ WaitInv /\ Unaided =>
        \/ At("start") \/ At("clear") \/ At("arm") \/ At("launch") \/ At("prune")
        \/ At("prepare") \/ At("step") \/ At("cage") \/ At("run") \/ At("test") \/ At("stat")
        \/ At("remove") \/ At("count") \/ At("sleep") \/ At("exit")
  BY DEF KioskInv, TypeOK, DisplayTypeOK, SesPcs, WaitInv, Armed, Unaided, At
<1>2. Step /\ ~SessionStep =>
        /\ At("start") => At("start")'
        /\ At("clear") => At("clear")'
        /\ At("arm") => At("arm")'
        /\ At("launch") => At("launch")'
        /\ At("prune") => At("prune")'
        /\ At("prepare") => At("prepare")'
        /\ At("step") => At("step")'
        /\ At("cage") => At("cage")'
        /\ At("run") => At("run")'
        /\ At("test") => At("test")'
        /\ At("stat") => At("stat")'
        /\ At("remove") => At("remove")'
        /\ At("count") => At("count")'
        /\ At("sleep") => At("sleep")'
        /\ At("exit") => At("exit")'
        /\ Short(0) => Short(0)'
        /\ Short(1) => Short(1)'
        /\ Short(2) => Short(2)'
        /\ ~Asked => ~Asked'
        /\ ~Up => ~Up'
  <2> SUFFICES ASSUME Step, ~SessionStep
               PROVE  UNCHANGED <<sesPc, scriptVars>> /\ (~Up => ~Up')
    BY DEF At
  <2>1. ~Intrudes
    BY DEF Intrudes, Unaided, Signal, Login, Reboot
  <2>2. QED
    BY <2>1, ScriptStands
<1>3. Step /\ SessionStep =>
        /\ At("start") => At("clear")' \/ At("prune")'
        /\ At("clear") => At("arm")' \/ At("prune")'
        /\ At("arm") => At("launch")'
        /\ ~At("launch")
        /\ At("prune") => At("prepare")'
        /\ At("prepare") => At("step")' \/ At("exit")'
        /\ At("step") => At("cage")'
        /\ At("cage") => At("run")'
        /\ At("run") => At("test")' /\ ~Up
        /\ At("test") => At("count")' /\ ~Asked'
        /\ At("stat") => At("remove")'
        /\ At("remove") => At("count")'
        /\ At("count") => At("sleep")' \/ At("exit")'
        /\ At("sleep") => At("prepare")'
        /\ ~At("exit")
  <2> SUFFICES ASSUME Step, SessionStep
               PROVE  /\ sesPc = "start" => sesPc' \in {"clear", "prune"}
                      /\ sesPc = "clear" => sesPc' \in {"arm", "prune"}
                      /\ sesPc = "arm" => sesPc' = "launch"
                      /\ sesPc # "launch"
                      /\ sesPc = "prune" => sesPc' = "prepare"
                      /\ sesPc = "prepare" => sesPc' \in {"step", "exit"}
                      /\ sesPc = "step" => sesPc' = "cage"
                      /\ sesPc = "cage" => sesPc' = "run"
                      /\ sesPc = "run" => sesPc' = "test" /\ ~Up
                      /\ sesPc = "test" => sesPc' = "count" /\ ~requested'
                      /\ sesPc = "stat" => sesPc' = "remove"
                      /\ sesPc = "remove" => sesPc' = "count"
                      /\ sesPc = "count" => sesPc' \in {"sleep", "exit"}
                      /\ sesPc = "sleep" => sesPc' = "prepare"
                      /\ sesPc # "exit"
    BY DEF At
  <2>1. sesPc = "run" => ~Up
    BY DEF SessionStep, DesktopBlock, ReadMode, ClearMode, ClearRefused, ArmTrap, LaunchDesktop,
           RecordPid, ForwardPending, ResetWait, WaitReturns, CheckWait, Untrap, FrontendLoop,
           Prune, Prepare, PreFrontendStep, LaunchFrontend, CageReturns, TestMark, StatMark,
           RemoveMark, Count, Sleep, Exit, Goes, Passes
  <2>2. QED
    BY <2>1, ScriptGoes, LoopGoes DEF Unaided
<1>4. Step /\ SessionStep =>
        /\ ~At("count") /\ Short(0) => Short(0)'
        /\ ~At("count") /\ Short(1) => Short(1)'
        /\ ~At("count") /\ Short(2) => Short(2)'
        /\ ~At("test") /\ ~At("stat") /\ ~Asked => ~Asked'
        /\ At("count") /\ ~Asked /\ Short(0) => Short(1)'
        /\ At("count") /\ ~Asked /\ Short(1) => Short(2)'
        /\ At("count") /\ ~Asked /\ Short(2) => At("exit")'
  <2> SUFFICES ASSUME Step, SessionStep, sesPc # "exit"
               PROVE  /\ sesPc # "count" => crashes' = crashes
                      /\ sesPc \notin {"test", "stat"} /\ ~requested => ~requested'
                      /\ sesPc = "count" /\ ~requested => crashes' = crashes + 1
                      /\ sesPc = "count" /\ ~requested /\ crashes = 2 => sesPc' = "exit"
    BY <1>3 DEF At
  <2>1. QED
    BY CounterKept, LoopGoes
    DEF Counted, GivesUp, CrashLimit, Unaided, KioskInv, TypeOK, DisplayTypeOK
<1>5. KioskInv => Short(0) \/ Short(1) \/ Short(2) \/ At("exit")
  BY DEF KioskInv, TypeOK, DisplayTypeOK, SessionInv, CrashLimit, At
<1>6. KioskInv /\ WaitInv /\ (At("run") => ~Up) /\ Unaided => SessionReady
  BY DEF KioskInv, TypeOK, DisplayTypeOK, ProcessTypeOK, WaitInv, Unaided, SessionReady, Armed, At
<1>7. <<SessionStep>>_vars => SessionStep
  OBVIOUS
<1>8. KioskInv /\ Up => At("run")
  BY DEF KioskInv, SessionInv, At
<1>9. KioskInv /\ WaitInv /\ [Next]_vars /\ Unaided /\ Unaided' => Step
  OBVIOUS
<1>10. /\ At("count") \/ At("run") \/ At("test") \/ At("stat") =>
            /\ ~At("start") /\ ~At("clear") /\ ~At("arm") /\ ~At("launch") /\ ~At("prune")
            /\ ~At("prepare") /\ ~At("step") /\ ~At("cage") /\ ~At("remove") /\ ~At("sleep")
            /\ ~At("exit")
       /\ At("count") => ~At("run") /\ ~At("test") /\ ~At("stat")
       /\ At("run") => ~At("test") /\ ~At("stat")
       /\ At("test") => ~At("stat")
  BY DEF At
<1> HIDE DEF Step, Short, Asked, Up
<1>11. FairSpec /\ []GuardsSuffice =>
         [](KioskInv /\ WaitInv) /\ [][Next]_vars /\ ([]<>~SessionReady \/ []<><<SessionStep>>_vars)
  BY WaitInvariant, NobodyIsStuck, PTL DEF FairSpec, Spec, Fairness, NeverStuck
<1>12. FairSpec /\ []GuardsSuffice /\ <>[]Unaided => <>[]Up
  BY <1>1, <1>2, <1>3, <1>4, <1>5, <1>6, <1>7, <1>8, <1>9, <1>10, <1>11, PTL
<1>13. QED
  BY <1>12 DEF CrashLoopEnds, Up

-----------------------------------------------------------------------------
(* A stop ends, and the switch it serves has its session.                  *)

\* The desktop's block under a stop that has sent its last signal.
LEMMA BlockGoes ==
  ASSUME KioskInv, WaitInv, SessionStep, sesPc \in Armed
  PROVE  /\ ~interrupted => ~interrupted'
         /\ desktop = "gone" => desktop' = "gone" \/ sesPc = "launch"
<1> USE DEF Goes, Passes, Armed
<1>1. CASE DesktopBlock
  BY <1>1
  DEF DesktopBlock, ReadMode, ClearMode, ClearRefused, ArmTrap, LaunchDesktop, RecordPid,
      ForwardPending, ResetWait, WaitReturns, CheckWait, Untrap
<1>2. CASE FrontendLoop
  BY <1>2
  DEF FrontendLoop, Prune, Prepare, PreFrontendStep, LaunchFrontend, CageReturns, TestMark,
      StatMark, RemoveMark, Count, Sleep
<1>3. CASE Exit
  BY <1>3 DEF Exit
<1>4. QED
  BY <1>1, <1>2, <1>3 DEF SessionStep

\* Who may change the display manager, and its signals.
LEMMA DisplayGoes ==
  ASSUME KioskInv, WaitInv, [Next]_vars, ~Signal, ~SwitchRestart, dm \in {"stopping", "login"}
  PROVE  /\ dm = "stopping" => dm' \in {"stopping", "login"}
         /\ dm = "login" => dm' \in {"login", "session"}
         /\ dm = "stopping" /\ dm' = "stopping" =>
              signals' = signals /\ ~Intrudes /\ ~DisplayManager
<1>1. CASE SessionStep
  <2> USE DEF Goes, Passes, KioskInv, SessionInv
  <2>1. CASE DesktopBlock
    BY <2>1
    DEF DesktopBlock, ReadMode, ClearMode, ClearRefused, ArmTrap, LaunchDesktop, RecordPid,
        ForwardPending, ResetWait, WaitReturns, CheckWait, Untrap, Intrudes, Signal, Login, Reboot,
        DisplayManager, Restarted
  <2>2. CASE FrontendLoop
    BY <2>2
    DEF FrontendLoop, Prune, Prepare, PreFrontendStep, LaunchFrontend, CageReturns, TestMark,
        StatMark, RemoveMark, Count, Sleep, Intrudes, Signal, Login, Reboot,
        DisplayManager, Restarted
  <2>3. CASE Exit
    BY <2>3 DEF Exit, Intrudes, Login, Reboot, DisplayManager, Restarted
  <2>4. QED
    BY <1>1, <2>1, <2>2, <2>3 DEF SessionStep
<1>2. CASE Login \/ Restarted \/ Reboot
  BY <1>2 DEF Login, Restarted, Reboot, Intrudes, DisplayManager
<1>3. CASE RunLong \/ FrontendExits \/ LingeringEnds \/ DesktopExits \/ Lapse
  BY <1>3
  DEF RunLong, FrontendExits, LingeringEnds, DesktopExits, Lapse, Intrudes, Login, Reboot,
      DisplayManager, Restarted
<1>4. CASE \E t \in Tools : ToolsEntry(t)
  BY <1>4
  DEF ToolsEntry, ToolsStart, ToolsFind, ToolsTouch, ToolsKill, ToolsKillFails, ToolsWithdraw,
      ToolsEnds, Intrudes, Login, Reboot, DisplayManager, Restarted
<1>5. CASE (\E m \in Modes : SwitchWrite(m)) \/ SwitchRefused
  BY <1>5 DEF SwitchWrite, SwitchRefused, Intrudes, Login, Reboot, DisplayManager, Restarted
<1>6. CASE UNCHANGED vars
  BY <1>6 DEF vars, Intrudes, Login, Reboot, DisplayManager, Restarted
<1>7. QED
  BY <1>1, <1>2, <1>3, <1>4, <1>5, <1>6 DEF Next, DisplayManager

\* A stop that no further signal reaches, and that no further restart follows, is served: the
\* script ends, for its desktop was told, and the display manager logs player in again.
LEMMA StopsEnd ==
  FairSpec /\ []GuardsSuffice /\ <>[][~<<Signal \/ SwitchRestart>>_vars]_vars => SwitchCompletes
<1> DEFINE Stopping == dm = "stopping"
           Coming == dm = "login"
           Served == dm = "session" \/ Looping
           Step == KioskInv /\ WaitInv /\ [Next]_vars /\ ~Signal /\ ~SwitchRestart
           Stays == Step /\ Stopping /\ Stopping'
           More == signals < MaxSignals
           Again == interrupted
           Gone == desktop = "gone"
<1>1. Step => /\ Stopping => Stopping' \/ Coming'
              /\ Coming => Coming' \/ Served'
  BY DisplayGoes DEF Looping
<1>2. Step /\ DisplayManager =>
        /\ Coming => Served'
        /\ Stopping => At("none") /\ Coming'
  BY DEF DisplayManager, Login, Restarted, At
<1>3. /\ Coming => DisplayReady
      /\ Stopping /\ At("none") => DisplayReady
      /\ Stopping /\ More => DisplayReady
  BY DEF DisplayReady, At
<1>4. Stays => (~More => ~More')
  BY DisplayGoes
<1>5. KioskInv /\ WaitInv /\ Stopping /\ ~More =>
        \/ At("none") \/ At("launch") \/ At("pid") \/ At("pending") \/ At("resetWait")
        \/ At("wait") \/ At("check") \/ At("untrap") \/ At("exit")
  BY KioskAssumption
  DEF KioskInv, TypeOK, DisplayTypeOK, SesPcs, WaitInv, Armed, At
<1>6. Stays /\ ~SessionStep =>
        /\ At("none") => At("none")'
        /\ At("launch") => At("launch")'
        /\ At("pid") => At("pid")'
        /\ At("pending") => At("pending")'
        /\ At("resetWait") => At("resetWait")'
        /\ At("wait") => At("wait")'
        /\ At("check") => At("check")'
        /\ At("untrap") => At("untrap")'
        /\ At("exit") => At("exit")'
        /\ ~Again => ~Again'
  <2> SUFFICES ASSUME Stays, ~SessionStep
               PROVE  UNCHANGED <<sesPc, scriptVars>>
    BY DEF At
  <2>1. QED
    BY ScriptStands, DisplayGoes
<1>7. Stays /\ SessionStep =>
        /\ ~At("none")
        /\ At("launch") => At("pid")'
        /\ At("pid") => At("pending")'
        /\ At("pending") => At("resetWait")'
        /\ At("resetWait") => At("wait")' /\ ~Again'
        /\ At("wait") => At("check")' /\ (~Again => ~Again')
        /\ At("check") => At("resetWait")' \/ (At("untrap")' /\ ~Again)
        /\ At("check") /\ ~Again => At("untrap")'
        /\ At("untrap") => At("exit")'
        /\ At("exit") => At("none")'
  <2> SUFFICES ASSUME Stays, SessionStep
               PROVE  /\ sesPc # "none"
                      /\ sesPc = "launch" => sesPc' = "pid"
                      /\ sesPc = "pid" => sesPc' = "pending"
                      /\ sesPc = "pending" => sesPc' = "resetWait"
                      /\ sesPc = "resetWait" => sesPc' = "wait" /\ ~interrupted'
                      /\ sesPc = "wait" => sesPc' = "check" /\ (~interrupted => ~interrupted')
                      /\ sesPc = "check" => sesPc' = IF interrupted THEN "resetWait" ELSE "untrap"
                      /\ sesPc = "untrap" => sesPc' = "exit"
                      /\ sesPc = "exit" => sesPc' = "none"
    BY DEF At
  <2>1. sesPc # "none"
    BY DEF SessionStep, DesktopBlock, ReadMode, ClearMode, ClearRefused, ArmTrap, LaunchDesktop,
           RecordPid, ForwardPending, ResetWait, WaitReturns, CheckWait, Untrap, FrontendLoop,
           Prune, Prepare, PreFrontendStep, LaunchFrontend, CageReturns, TestMark, StatMark,
           RemoveMark, Count, Sleep, Exit, Goes, Passes
  <2>2. QED
    BY <2>1, ScriptGoes, BlockGoes DEF Armed
<1>8. Stays /\ At("wait") /\ Gone => Gone' \/ ~At("wait")'
  <2>1. CASE SessionStep
    BY <2>1, ScriptGoes DEF At
  <2>2. CASE ~SessionStep
    BY <2>2, DisplayGoes
    DEF At, Intrudes, DisplayManager, Next, RunLong, FrontendExits, LingeringEnds, DesktopExits,
        ToolsEntry, ToolsStart, ToolsFind, ToolsTouch, ToolsKill, ToolsKillFails, ToolsWithdraw,
        ToolsEnds, Lapse, SwitchWrite, SwitchRefused, Reboot, vars
  <2>3. QED
    BY <2>1, <2>2
<1>9. KioskInv /\ WaitInv /\ Stopping /\ ~More /\ At("wait") /\ ~Gone => DesktopReady
  BY KioskAssumption
  DEF KioskInv, TypeOK, DisplayTypeOK, ProcessTypeOK, WaitInv, Armed, At, DesktopReady
<1>10. <<DesktopObeys>>_vars => Gone'
  BY DEF DesktopObeys, DesktopExits
<1>11. /\ At("launch") \/ At("pid") \/ At("pending") \/ At("resetWait") \/ At("check")
             \/ At("untrap") \/ At("exit") => SessionReady
       /\ At("wait") /\ Gone => SessionReady
  BY DEF At, SessionReady
<1>12. /\ <<SessionStep>>_vars => SessionStep
       /\ <<DisplayManager>>_vars => DisplayManager
  OBVIOUS
<1>13. KioskInv /\ WaitInv /\ [Next]_vars =>
         /\ Stopping => Stopping' \/ Coming'
         /\ Coming => Coming' \/ Served' \/ Stopping'
  <2> SUFFICES ASSUME KioskInv, WaitInv, [Next]_vars
               PROVE  /\ Stopping => Stopping' \/ Coming'
                      /\ Coming => Coming' \/ Served' \/ Stopping'
    OBVIOUS
  <2>1. CASE Signal
    BY <2>1 DEF Signal
  <2>2. CASE SwitchRestart
    BY <2>2 DEF SwitchRestart, Looping
  <2>3. CASE ~Signal /\ ~SwitchRestart
    BY <2>3, DisplayGoes DEF Looping
  <2>4. QED
    BY <2>1, <2>2, <2>3
<1>14. KioskInv /\ WaitInv /\ [Next]_vars /\ ~<<Signal \/ SwitchRestart>>_vars => Step
  <2>1. KioskInv /\ Signal => signals' # signals
    BY KioskAssumption DEF KioskInv, TypeOK, DisplayTypeOK, Signal
  <2>2. SwitchRestart => adminPc' # adminPc
    BY DEF SwitchRestart, AdminEnds
  <2>3. QED
    BY <2>1, <2>2 DEF vars
<1>15. /\ At("none") => /\ ~At("launch") /\ ~At("pid") /\ ~At("pending") /\ ~At("resetWait")
                        /\ ~At("wait") /\ ~At("check") /\ ~At("untrap") /\ ~At("exit")
       /\ At("wait") => ~At("check") /\ ~At("resetWait") /\ ~At("untrap")
       /\ At("check") => ~At("resetWait") /\ ~At("untrap")
       /\ ~(Stopping /\ Coming) /\ ~(Stopping /\ Served) /\ ~(Coming /\ Served)
  BY DEF At, Looping
<1>16. Step /\ Stopping /\ Stopping' => Stays
  OBVIOUS
<1> HIDE DEF Step, Stays, Stopping, Coming, Served, More, Again, Gone
<1>17. FairSpec /\ []GuardsSuffice /\ <>[][~<<Signal \/ SwitchRestart>>_vars]_vars =>
         (Stopping ~> Served)
  BY <1>1, <1>2, <1>3, <1>4, <1>5, <1>6, <1>7, <1>8, <1>9, <1>10, <1>11, <1>12, <1>13, <1>14,
     <1>15, <1>16, WaitInvariant, NobodyIsStuck, PTL
  DEF FairSpec, Spec, Fairness, NeverStuck
<1>18. QED
  BY <1>17 DEF SwitchCompletes, Stopping, Served

\* The script's own steps neither begin a stop nor send its signals.
LEMMA ExitLeaves ==
  ASSUME SessionStep
  PROVE  signals' = signals /\ (dm' = "stopping" => dm = "stopping")
<1> USE DEF Goes, Passes
<1>1. CASE DesktopBlock
  BY <1>1
  DEF DesktopBlock, ReadMode, ClearMode, ClearRefused, ArmTrap, LaunchDesktop, RecordPid,
      ForwardPending, ResetWait, WaitReturns, CheckWait, Untrap
<1>2. CASE FrontendLoop
  BY <1>2
  DEF FrontendLoop, Prune, Prepare, PreFrontendStep, LaunchFrontend, CageReturns, TestMark,
      StatMark, RemoveMark, Count, Sleep
<1>3. CASE Exit
  BY <1>3 DEF Exit
<1>4. QED
  BY <1>1, <1>2, <1>3 DEF SessionStep

\* One stop signals its session for ever: the signals only grow, and never cease.
SignalsMount == signals' >= signals
Signalled    == signals' > signals
SignalsForEver == <>[][SignalsMount]_vars /\ []<><<Signalled>>_vars

\* Signals never cease only if restarts never do, or one stop goes on signalling.
LEMMA SignalsCease ==
  Spec => []<><<SwitchRestart>>_vars \/ SignalsForEver \/ <>[][~<<Signal \/ SwitchRestart>>_vars]_vars
<1> DEFINE Stopping == dm = "stopping"
           Step == KioskInv /\ WaitInv /\ [Next]_vars /\ ~<<SwitchRestart>>_vars
<1>1. Step /\ <<Signal>>_vars => Stopping /\ <<Signalled>>_vars
  BY DEF Signal, Signalled, KioskInv, TypeOK, DisplayTypeOK
<1>2. Step /\ ~Stopping => ~Stopping'
  <2> SUFFICES ASSUME Step, ~Stopping PROVE ~Stopping'
    OBVIOUS
  <2>1. CASE vars' = vars
    BY <2>1 DEF vars
  <2>2. CASE vars' # vars /\ SessionStep
    BY <2>2, ExitLeaves
  <2>3. CASE vars' # vars /\ ~SessionStep
    BY <2>3
    DEF Next, DisplayManager, Signal, Login, Restarted, RunLong, FrontendExits, LingeringEnds,
        DesktopExits, ToolsEntry, ToolsStart, ToolsFind, ToolsTouch, ToolsKill, ToolsKillFails,
        ToolsWithdraw, ToolsEnds, Lapse, SwitchWrite, SwitchRefused, Reboot
  <2>4. QED
    BY <2>1, <2>2, <2>3
<1>3. Step /\ Stopping /\ Stopping' => SignalsMount
  <2> SUFFICES ASSUME Step, Stopping, Stopping' PROVE signals' >= signals
    BY DEF SignalsMount
  <2>1. signals \in Nat
    BY DEF KioskInv, TypeOK, DisplayTypeOK
  <2>2. CASE vars' = vars
    BY <2>1, <2>2 DEF vars
  <2>3. CASE vars' # vars /\ SessionStep
    BY <2>1, <2>3, ExitLeaves
  <2>4. CASE vars' # vars /\ ~SessionStep
    BY <2>1, <2>4
    DEF Next, DisplayManager, Signal, Login, Restarted, RunLong, FrontendExits, LingeringEnds,
        DesktopExits, ToolsEntry, ToolsStart, ToolsFind, ToolsTouch, ToolsKill, ToolsKillFails,
        ToolsWithdraw, ToolsEnds, Lapse, SwitchWrite, SwitchRefused, Reboot
  <2>5. QED
    BY <2>2, <2>3, <2>4
<1>4. KioskInv /\ WaitInv /\ [Next]_vars /\ ~<<SwitchRestart>>_vars => Step
  OBVIOUS
<1>5. <<Signal \/ SwitchRestart>>_vars => <<Signal>>_vars \/ <<SwitchRestart>>_vars
  OBVIOUS
<1> HIDE DEF Step, Stopping
<1>6. QED
  BY <1>1, <1>2, <1>3, <1>4, <1>5, WaitInvariant, PTL DEF Spec, SignalsForEver

\* A switch gets its session or, if the next one meets its login, may leave the display manager
\* looping; unless emubox-mode restarts it for ever, or one stop signals for ever.
THEOREM SwitchesComplete ==
  FairSpec /\ []GuardsSuffice => SwitchCompletes \/ []<><<SwitchRestart>>_vars \/ SignalsForEver
BY StopsEnd, SignalsCease, PTL DEF FairSpec

-----------------------------------------------------------------------------
(* The screen comes back.                                                  *)

Touched == \E t \in Tools : ToolsTouch(t)

\* Nothing but an entry's touch makes a mark.
LEMMA MarkStands ==
  ASSUME [Next]_vars, ~Touched, mark = "none"
  PROVE  mark' = "none"
<1>1. CASE SessionStep
  <2> USE DEF Goes, Passes
  <2>1. CASE DesktopBlock
    BY <2>1
    DEF DesktopBlock, ReadMode, ClearMode, ClearRefused, ArmTrap, LaunchDesktop, RecordPid,
        ForwardPending, ResetWait, WaitReturns, CheckWait, Untrap
  <2>2. CASE FrontendLoop
    BY <2>2
    DEF FrontendLoop, Prune, Prepare, PreFrontendStep, LaunchFrontend, CageReturns, TestMark,
        StatMark, RemoveMark, Count, Sleep
  <2>3. CASE Exit
    BY <2>3 DEF Exit
  <2>4. QED
    BY <1>1, <2>1, <2>2, <2>3 DEF SessionStep
<1>2. CASE DisplayManager \/ Reboot
  BY <1>2 DEF DisplayManager, Signal, Login, Restarted, Reboot
<1>3. CASE RunLong \/ FrontendExits \/ LingeringEnds \/ DesktopExits \/ Lapse
  BY <1>3 DEF RunLong, FrontendExits, LingeringEnds, DesktopExits, Lapse
<1>4. CASE \E t \in Tools : ToolsEntry(t)
  BY <1>4
  DEF ToolsEntry, ToolsStart, ToolsFind, ToolsKill, ToolsKillFails, ToolsWithdraw, ToolsEnds,
      Touched
<1>5. CASE (\E m \in Modes : SwitchWrite(m)) \/ SwitchRestart \/ SwitchRefused
  BY <1>5 DEF SwitchWrite, SwitchRestart, SwitchRefused
<1>6. CASE UNCHANGED vars
  BY <1>6 DEF vars
<1>7. QED
  BY <1>1, <1>2, <1>3, <1>4, <1>5, <1>6 DEF Next

\* A session that shows nothing is soon one whose runs are short and unaided: the desktop's
\* block would end in the greeter, and one round of the loop is enough to spend an old mark.
LEMMA DarkIsUnaided ==
  FairSpec /\ []GuardsSuffice /\ <>[](dm = "session" /\ ~Shown) /\ <>[][~<<Touched>>_vars]_vars
    => <>[]Unaided
<1> DEFINE Dark == dm = "session" /\ ~Shown
           Step == KioskInv /\ WaitInv /\ [Next]_vars /\ ~Touched /\ Dark /\ Dark'
           Again == interrupted
           Long == long
           Clear == mark = "none"
           Bare == desktop = "none"
<1>1. KioskInv /\ WaitInv /\ Dark =>
        /\ \/ At("start") \/ At("clear") \/ At("arm") \/ At("launch") \/ At("prune")
           \/ At("prepare") \/ At("step") \/ At("cage") \/ At("run") \/ At("test")
           \/ At("stat") \/ At("remove") \/ At("count") \/ At("sleep") \/ At("exit")
           \/ At("pid") \/ At("pending") \/ At("resetWait") \/ At("wait") \/ At("check")
           \/ At("untrap")
        /\ SessionReady
        /\ (\/ At("prune") \/ At("prepare") \/ At("step") \/ At("cage") \/ At("run")
            \/ At("test") \/ At("stat") \/ At("remove") \/ At("count") \/ At("sleep")) => Bare
  BY DEF KioskInv, TypeOK, DisplayTypeOK, ProcessTypeOK, SesPcs, DesktopInv, WaitInv, Armed,
         Shown, SessionReady, At
<1>2. Step /\ ~SessionStep =>
        /\ At("start") => At("start")'
        /\ At("clear") => At("clear")'
        /\ At("arm") => At("arm")'
        /\ At("launch") => At("launch")'
        /\ At("prune") => At("prune")'
        /\ At("prepare") => At("prepare")'
        /\ At("step") => At("step")'
        /\ At("cage") => At("cage")'
        /\ At("run") => At("run")'
        /\ At("test") => At("test")'
        /\ At("stat") => At("stat")'
        /\ At("remove") => At("remove")'
        /\ At("count") => At("count")'
        /\ At("sleep") => At("sleep")'
        /\ At("exit") => At("exit")'
        /\ At("pid") => At("pid")'
        /\ At("pending") => At("pending")'
        /\ At("resetWait") => At("resetWait")'
        /\ At("wait") => At("wait")'
        /\ At("check") => At("check")'
        /\ At("untrap") => At("untrap")'
        /\ ~Again => ~Again'
        /\ ~Long => ~Long'
  <2> SUFFICES ASSUME Step, ~SessionStep
               PROVE  UNCHANGED <<sesPc, scriptVars>> /\ (~long => ~long')
    BY DEF At
  <2>1. ~Intrudes
    BY DEF Intrudes, Signal, Login, Reboot
  <2>2. QED
    BY <2>1, ScriptStands DEF Shown
<1>3. Step /\ SessionStep =>
        /\ At("start") => At("clear")' \/ At("prune")'
        /\ At("clear") => At("arm")' \/ At("prune")'
        /\ At("arm") => At("launch")'
        /\ ~At("launch")
        /\ At("pid") => At("pending")'
        /\ At("pending") => At("resetWait")'
        /\ At("resetWait") => At("wait")' /\ ~Again'
        /\ At("wait") => At("check")' /\ (~Again => ~Again')
        /\ At("check") => At("resetWait")' \/ At("untrap")'
        /\ At("check") /\ ~Again => At("untrap")'
        /\ At("untrap") => At("exit")'
        /\ ~At("exit")
  <2> SUFFICES ASSUME Step, SessionStep
               PROVE  /\ sesPc = "start" => sesPc' \in {"clear", "prune"}
                      /\ sesPc = "clear" => sesPc' \in {"arm", "prune"}
                      /\ sesPc = "arm" => sesPc' = "launch"
                      /\ sesPc # "launch"
                      /\ sesPc = "pid" => sesPc' = "pending"
                      /\ sesPc = "pending" => sesPc' = "resetWait"
                      /\ sesPc = "resetWait" => sesPc' = "wait" /\ ~interrupted'
                      /\ sesPc = "wait" => sesPc' = "check" /\ (~interrupted => ~interrupted')
                      /\ sesPc = "check" => sesPc' = IF interrupted THEN "resetWait" ELSE "untrap"
                      /\ sesPc = "untrap" => sesPc' = "exit"
                      /\ sesPc # "exit"
    BY DEF At
  <2>1. QED
    BY ScriptGoes, BlockGoes DEF Armed, Shown
<1>4. Step /\ SessionStep =>
        /\ At("prune") => At("prepare")'
        /\ At("prepare") => At("step")' \/ At("exit")'
        /\ At("step") => At("cage")'
        /\ At("cage") => At("run")' /\ ~Long'
        /\ At("run") => At("test")'
        /\ At("test") => (Clear /\ At("count")') \/ At("stat")'
        /\ At("stat") => At("remove")'
        /\ At("remove") => At("count")' /\ Clear'
        /\ At("count") => At("sleep")' \/ At("exit")'
        /\ At("sleep") => At("prepare")'
        /\ ~Long => ~Long'
  <2> SUFFICES ASSUME Step, SessionStep
               PROVE  /\ sesPc = "prune" => sesPc' = "prepare"
                      /\ sesPc = "prepare" => sesPc' \in {"step", "exit"}
                      /\ sesPc = "step" => sesPc' = "cage"
                      /\ sesPc = "cage" => sesPc' = "run" /\ ~long'
                      /\ sesPc = "run" => sesPc' = "test"
                      /\ sesPc = "test" => (Clear /\ sesPc' = "count") \/ sesPc' = "stat"
                      /\ sesPc = "stat" => sesPc' = "remove"
                      /\ sesPc = "remove" => sesPc' = "count" /\ mark' = "none"
                      /\ sesPc = "count" => sesPc' \in {"sleep", "exit"}
                      /\ sesPc = "sleep" => sesPc' = "prepare"
                      /\ ~long => ~long'
    BY DEF At
  <2>1. sesPc # "exit"
    BY ScriptGoes DEF Shown
  <2>2. QED
    BY <2>1, LoopGoes, CounterKept
<1>5. Step => (Clear => Clear')
  BY MarkStands
<1>6. <<SessionStep>>_vars => SessionStep
  OBVIOUS
<1>7. KioskInv /\ WaitInv /\ [Next]_vars /\ ~<<Touched>>_vars /\ Dark /\ Dark' => Step
  <2> SUFFICES ASSUME KioskInv, NEW t \in Tools, ToolsTouch(t) PROVE toolPc' # toolPc
    BY DEF Touched, vars
  <2>1. toolPc \in [Tools -> {"none", "scrape", "touch", "kill", "withdraw"}]
    BY DEF KioskInv, TypeOK, ProcessTypeOK
  <2>2. QED
    BY <2>1 DEF ToolsTouch, ToolGoes
<1>8. Dark /\ ~Long /\ Clear /\ Bare => Unaided
  BY DEF Unaided
<1> HIDE DEF Step, Dark, Again, Long, Clear, Bare
<1>9. FairSpec /\ []GuardsSuffice /\ <>[]Dark /\ <>[][~<<Touched>>_vars]_vars => <>[]Unaided
  BY <1>1, <1>2, <1>3, <1>4, <1>5, <1>6, <1>7, <1>8, WaitInvariant, NobodyIsStuck, PTL
  DEF FairSpec, Spec, Fairness, NeverStuck
<1>10. QED
  BY <1>9 DEF Dark

\* What keeps the session, the display manager or the mark from coming to rest.
Stirred == Signal \/ SwitchRestart \/ Touched

\* How the display manager goes on when no stop is asked for and no reboot happens.
LEMMA DisplayRests ==
  ASSUME KioskInv, WaitInv, [Next]_vars, ~Signal, ~SwitchRestart, ~Reboot
  PROVE  /\ dm = "session" => dm' \in {"session", "greeter", "black"}
         /\ dm = "login" /\ DisplayManager => dm' = "session"
         /\ dm = "looping" => dm' = "looping"
<1>1. CASE SessionStep
  <2> USE DEF Goes, Passes, KioskInv, SessionInv, DisplayManager
  <2>1. CASE DesktopBlock
    BY <2>1
    DEF DesktopBlock, ReadMode, ClearMode, ClearRefused, ArmTrap, LaunchDesktop, RecordPid,
        ForwardPending, ResetWait, WaitReturns, CheckWait, Untrap, Login, Restarted
  <2>2. CASE FrontendLoop
    BY <2>2
    DEF FrontendLoop, Prune, Prepare, PreFrontendStep, LaunchFrontend, CageReturns, TestMark,
        StatMark, RemoveMark, Count, Sleep, Login, Restarted
  <2>3. CASE Exit
    BY <2>3 DEF Exit, Login, Restarted
  <2>4. QED
    BY <1>1, <2>1, <2>2, <2>3 DEF SessionStep
<1>2. CASE Login \/ Restarted
  BY <1>2 DEF Login, Restarted, DisplayManager
<1>3. CASE ~SessionStep /\ ~Login /\ ~Restarted
  <2>1. dm' = dm
    BY <1>3
    DEF Next, DisplayManager, RunLong, FrontendExits, LingeringEnds, DesktopExits, ToolsEntry,
        ToolsStart, ToolsFind, ToolsTouch, ToolsKill, ToolsKillFails, ToolsWithdraw, ToolsEnds,
        Lapse, SwitchWrite, SwitchRefused, vars
  <2>2. QED
    BY <1>3, <2>1 DEF DisplayManager
<1>4. QED
  BY <1>1, <1>2, <1>3

\* Once stops, signals and requests for a restart of the frontend have ceased, the TV comes back to
\* a frontend, a desktop or the greeter: a session cannot stay dark for ever, for its runs would
\* be short and unaided, and the third such run is the last.
LEMMA ScreenRests ==
  FairSpec /\ []GuardsSuffice /\ <>[][~<<Stirred>>_vars]_vars => ScreenComesBack
<1> DEFINE Stopping == dm = "stopping"
           Coming == dm = "login"
           Served == dm = "session"
           Lost == Looping
           Idle == ~Shown
           Up == fe = "running"
           Step == /\ KioskInv /\ WaitInv /\ [Next]_vars
                   /\ ~<<Stirred>>_vars /\ ~<<Reboot>>_vars
<1>1. KioskInv /\ WaitInv /\ Idle => Stopping \/ Coming \/ Served \/ Lost
  BY DEF KioskInv, TypeOK, DisplayTypeOK, WaitInv, Shown, Looping
<1>2. Step /\ Idle' => /\ Served => Served'
                       /\ Lost => Lost'
                       /\ Coming => Coming' \/ Served'
                       /\ Coming /\ <<DisplayManager>>_vars => Served'
  <2> SUFFICES ASSUME Step, Idle'
               PROVE  /\ Served => Served'
                      /\ Lost => Lost'
                      /\ Coming => Coming' \/ Served'
                      /\ Coming /\ <<DisplayManager>>_vars => Served'
    OBVIOUS
  <2>1. CASE vars' = vars
    BY <2>1 DEF vars, Looping
  <2>2. CASE vars' # vars
    <3>1. ~Signal /\ ~SwitchRestart /\ ~Reboot
      BY <2>2 DEF Stirred
    <3>2. dm' # "black" /\ dm' # "greeter"
      BY WaitNext DEF WaitInv, Shown
    <3>3. QED
      BY <3>1, <3>2, DisplayRests, DisplayGoes DEF Looping
  <2>3. QED
    BY <2>1, <2>2
<1>3. Coming => DisplayReady
  BY DEF DisplayReady
<1>4. KioskInv /\ WaitInv /\ [Next]_vars /\ ~<<Stirred>>_vars /\ ~<<Reboot>>_vars => Step
  OBVIOUS
<1>5. /\ ~<<Stirred>>_vars => ~<<Signal \/ SwitchRestart>>_vars
      /\ ~<<Stirred>>_vars => ~<<Touched>>_vars
  BY DEF Stirred
<1>6. FairSpec /\ []GuardsSuffice /\ <>[][~<<Signal \/ SwitchRestart>>_vars]_vars =>
        (Stopping ~> Served \/ Lost)
  BY StopsEnd DEF SwitchCompletes
<1>7. FairSpec /\ []GuardsSuffice /\ <>[](Served /\ Idle) /\ <>[][~<<Touched>>_vars]_vars =>
        <>[]Unaided
  BY DarkIsUnaided
<1>8. FairSpec /\ []GuardsSuffice => (<>[]Unaided => <>[]Up)
  BY CrashLoopsEnd DEF CrashLoopEnds
<1>9. Up => ~Idle
  BY DEF Shown
<1> HIDE DEF Stopping, Coming, Served, Lost, Idle, Up, Step
<1>10. FairSpec /\ []GuardsSuffice /\ <>[][~<<Stirred>>_vars]_vars /\ <>[][~<<Reboot>>_vars]_vars =>
         ~<>[]Idle \/ <>[]Lost
  BY <1>1, <1>2, <1>3, <1>4, <1>5, <1>6, <1>7, <1>8, <1>9, WaitInvariant, NobodyIsStuck, PTL
  DEF FairSpec, Spec, Fairness, NeverStuck
<1>11. FairSpec /\ []GuardsSuffice /\ <>[][~<<Stirred>>_vars]_vars /\ <>[][~<<Reboot>>_vars]_vars =>
         []<>Shown \/ <>[]Looping
  BY <1>10, PTL DEF Idle, Lost
<1>12. QED
  BY <1>11, PTL DEF ScreenComesBack

\* Entries that have yet to touch the mark become fewer for ever.
Coming   == {t \in Tools : toolPc[t] \in {"scrape", "touch"}}
AsksLess == Coming' \subseteq Coming
Asks     == Coming' # Coming
AskForEver == <>[][AsksLess]_vars /\ []<><<Asks>>_vars

\* Without a frontend no entry begins, and each touches the mark once.
LEMMA EntriesCease ==
  ASSUME KioskInv, [Next]_vars, fe # "running"
  PROVE  AsksLess /\ (Touched => Asks)
<1>1. toolPc \in [Tools -> {"none", "scrape", "touch", "kill", "withdraw"}]
  BY DEF KioskInv, TypeOK, ProcessTypeOK
<1> USE <1>1 DEF AsksLess, Asks, Coming, Touched
<1>2. ASSUME NEW t \in Tools, ToolsEntry(t)
      PROVE  AsksLess
  BY <1>2
  DEF ToolsEntry, ToolsStart, ToolsFind, ToolsTouch, ToolsKill, ToolsKillFails, ToolsWithdraw,
      ToolsEnds, ToolGoes, ToolExits
<1>3. ASSUME NEW t \in Tools, ToolsTouch(t)
      PROVE  t \in Coming /\ t \notin Coming'
  BY <1>3 DEF ToolsTouch, ToolGoes
<1>4. CASE UNCHANGED toolPc
  <2>1. AsksLess
    BY <1>4
  <2>2. ~Touched
    BY <1>4, <1>3
  <2>3. QED
    BY <2>1, <2>2
<1>5. CASE Reboot
  <2>1. Coming' = {}
    BY <1>5 DEF Reboot
  <2>2. QED
    BY <1>3, <2>1
<1>6. (\E t \in Tools : ToolsEntry(t)) \/ UNCHANGED toolPc \/ Reboot
  <2> USE DEF Goes, Passes
  <2>1. CASE DesktopBlock
    BY <2>1
    DEF DesktopBlock, ReadMode, ClearMode, ClearRefused, ArmTrap, LaunchDesktop, RecordPid,
        ForwardPending, ResetWait, WaitReturns, CheckWait, Untrap
  <2>2. CASE FrontendLoop
    BY <2>2
    DEF FrontendLoop, Prune, Prepare, PreFrontendStep, LaunchFrontend, CageReturns, TestMark,
        StatMark, RemoveMark, Count, Sleep
  <2>3. CASE Exit \/ DisplayManager
    BY <2>3 DEF Exit, DisplayManager, Signal, Login, Restarted, Over
  <2>4. CASE ~SessionStep /\ ~DisplayManager
    BY <2>4
    DEF Next, RunLong, FrontendExits, LingeringEnds, DesktopExits, Lapse, SwitchWrite,
        SwitchRestart, SwitchRefused, vars
  <2>5. QED
    BY <2>1, <2>2, <2>3, <2>4 DEF SessionStep
<1>7. QED
  <2>1. CASE \E t \in Tools : ToolsEntry(t)
    BY <2>1, <1>2, <1>3
  <2>2. QED
    BY <2>1, <1>4, <1>5, <1>6

\* The TV comes back to a frontend, a desktop or the greeter.  What stands against it, besides a
\* reboot again and again and a display manager that a switch during a login left looping, is a
\* display manager restarted for ever, one stop that signals for ever, or entries that touch the mark for ever while no frontend runs to begin another.
THEOREM ScreenReturns ==
  FairSpec /\ []GuardsSuffice =>
    ScreenComesBack \/ []<><<SwitchRestart>>_vars \/ SignalsForEver \/ AskForEver
<1> DEFINE Idle == ~Shown
<1>1. KioskInv /\ [Next]_vars /\ Idle => AsksLess /\ (<<Touched>>_vars => <<Asks>>_vars)
  BY EntriesCease DEF Shown
<1>2. <<Stirred>>_vars => <<Touched>>_vars \/ <<Signal \/ SwitchRestart>>_vars
  BY DEF Stirred
<1>3. FairSpec /\ []GuardsSuffice /\ <>[][~<<Stirred>>_vars]_vars =>
        []<>Shown \/ []<><<Reboot>>_vars \/ <>[]Looping
  BY ScreenRests DEF ScreenComesBack
<1>4. Idle <=> ~Shown
  OBVIOUS
<1> HIDE DEF Idle
<1>5. QED
  BY <1>1, <1>2, <1>3, <1>4, SignalsCease, KioskInvariant, PTL
  DEF FairSpec, Spec, AskForEver, ScreenComesBack
=============================================================================
