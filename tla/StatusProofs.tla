---------------------------- MODULE StatusProofs ----------------------------
(* Theorems about the status command and its reports, for any folders,     *)
(* devices, accepted modes and order of the reporters.                     *)
EXTENDS Status, TLAPS

USE DEF statusVars, otherVars, vars, libraryVars, workerVars, controllersVars, busVars, conVars

-----------------------------------------------------------------------------
(* The pipe.                                                               *)

\* A message sent is the last in the pipe and joins those already there.
LEMMA SentJoins ==
  ASSUME pipe \in Seq(Messages), NEW m \in Messages
  PROVE  /\ Append(pipe, m) \in Seq(Messages)
         /\ Len(Append(pipe, m)) = Len(pipe) + 1
         /\ Append(pipe, m)[Len(pipe) + 1] = m
         /\ \A i \in 1..Len(pipe) : Append(pipe, m)[i] = pipe[i]
         /\ Elements(Append(pipe, m)) = Elements(pipe) \cup {m}
<1>1. /\ Append(pipe, m) \in Seq(Messages)
      /\ Len(Append(pipe, m)) = Len(pipe) + 1
      /\ Append(pipe, m)[Len(pipe) + 1] = m
      /\ \A i \in 1..Len(pipe) : Append(pipe, m)[i] = pipe[i]
  OBVIOUS
<1>2. Elements(Append(pipe, m)) = Elements(pipe) \cup {m}
  <2>1. ASSUME NEW x \in Elements(Append(pipe, m)) PROVE x \in Elements(pipe) \cup {m}
    BY <1>1, <2>1 DEF Elements
  <2>2. ASSUME NEW x \in Elements(pipe) \cup {m} PROVE x \in Elements(Append(pipe, m))
    <3>1. CASE x = m
      BY <1>1, <3>1 DEF Elements
    <3>2. CASE x \in Elements(pipe)
      BY <1>1, <3>2 DEF Elements
    <3>3. QED
      BY <2>2, <3>1, <3>2
  <2>3. QED
    BY <2>1, <2>2
<1>3. QED
  BY <1>1, <1>2

\* What a read takes out of the pipe and what it leaves are what was in it, in its order.
LEMMA ReadTakes ==
  ASSUME pipe \in Seq(Messages), NEW n \in 1..Len(pipe)
  PROVE  /\ SubSeq(pipe, n + 1, Len(pipe)) \in Seq(Messages)
         /\ Len(SubSeq(pipe, n + 1, Len(pipe))) = Len(pipe) - n
         /\ \A i \in 1..(Len(pipe) - n) : SubSeq(pipe, n + 1, Len(pipe))[i] = pipe[n + i]
         /\ {pipe[i] : i \in 1..n} \cup Elements(SubSeq(pipe, n + 1, Len(pipe))) = Elements(pipe)
<1> DEFINE rest == SubSeq(pipe, n + 1, Len(pipe))
<1>1. /\ rest \in Seq(Messages)
      /\ Len(rest) = Len(pipe) - n
      /\ \A i \in 1..(Len(pipe) - n) : rest[i] = pipe[n + i]
  OBVIOUS
<1> HIDE DEF rest
<1>2. ASSUME NEW x \in Elements(rest) PROVE x \in Elements(pipe)
  <2>1. PICK i \in 1..Len(rest) : x = rest[i]
    BY <1>2 DEF Elements
  <2>2. n + i \in 1..Len(pipe) /\ x = pipe[n + i]
    BY <1>1, <2>1
  <2>3. QED
    BY <2>2 DEF Elements
<1>3. ASSUME NEW x \in Elements(pipe) PROVE x \in {pipe[i] : i \in 1..n} \cup Elements(rest)
  <2>1. PICK i \in 1..Len(pipe) : x = pipe[i]
    BY <1>3 DEF Elements
  <2>2. CASE i > n
    <3>1. i - n \in 1..Len(rest) /\ rest[i - n] = pipe[i]
      BY <1>1, <2>1, <2>2
    <3>2. QED
      BY <2>1, <3>1 DEF Elements
  <2>3. CASE i <= n
    BY <2>1, <2>3
  <2>4. QED
    BY <2>1, <2>2, <2>3
<1>4. {pipe[i] : i \in 1..n} \subseteq Elements(pipe)
  BY DEF Elements
<1>5. {pipe[i] : i \in 1..n} \cup Elements(rest) = Elements(pipe)
  BY <1>2, <1>3, <1>4
<1>6. QED
  BY <1>1, <1>5 DEF rest

-----------------------------------------------------------------------------
(* The library's report.                                                   *)

\* A message of the worker's keeps what the report maintains if it is sent in the scan's order.
LEMMA SendKeeps ==
  ASSUME LibraryTypeOK, OrderInv, CodeInv, FreshInv,
         NEW m \in Messages, NEW from \in {"record", "pending", "folders", "count"},
         NEW to \in {"pending", "folders", "count", "end"},
         Sends(m, from, to), found' \subseteq Folder, uncounted' \subseteq found', clock' = clock,
         to # "end" => SentBefore(to) \subseteq SentBefore(from) \cup {m},
         m = "done" => to = "end" /\ uncounted' = {} /\ from = "count"
  PROVE  LibraryTypeOK' /\ OrderInv' /\ CodeInv' /\ FreshInv'
<1>1. /\ worker = "running" /\ reporter = "reading" /\ scan = from /\ scan' = to
      /\ pipe' = Append(pipe, m) /\ UNCHANGED <<worker, reporter, got, libCode>>
  BY DEF Sends
<1>2. /\ pipe' \in Seq(Messages) /\ Len(pipe') = Len(pipe) + 1 /\ pipe'[Len(pipe) + 1] = m
      /\ \A i \in 1..Len(pipe) : pipe'[i] = pipe[i]
      /\ Elements(pipe') = Elements(pipe) \cup {m}
  BY <1>1, SentJoins DEF LibraryTypeOK
<1>3. Sent' = Sent \cup {m}
  BY <1>1, <1>2 DEF Sent
<1>4. "done" \notin Sent /\ SentBefore(from) \subseteq Sent
  BY <1>1 DEF OrderInv
<1>5. LibraryTypeOK'
  BY <1>1, <1>2 DEF LibraryTypeOK
<1>6. CodeInv' /\ FreshInv'
  BY <1>1 DEF CodeInv, FreshInv, OrderInv
<1>7. OrderInv'
  <2>1. worker' # "none" /\ libCode' = "none"
    BY <1>1 DEF OrderInv
  <2>2. scan' # "end" => SentBefore(scan') \subseteq Sent'
    BY <1>1, <1>3, <1>4
  <2>3. "done" \in Sent' => /\ scan' = "end" /\ uncounted' = {}
                            /\ SentBefore("end") \subseteq Sent'
    BY <1>1, <1>3, <1>4 DEF SentBefore
  <2>4. \A i \in 1..Len(pipe') : pipe'[i] = "done" => i = Len(pipe')
    <3>1. Len(pipe) \in Nat
      BY DEF LibraryTypeOK
    <3>2. \A i \in 1..Len(pipe) : pipe'[i] # "done"
      BY <1>2, <1>4 DEF Sent, Elements
    <3>3. QED
      BY <1>2, <3>1, <3>2
  <2>5. "done" \in got' => pipe' = <<>>
    BY <1>1, <1>4 DEF Sent
  <2>6. QED
    BY <2>1, <2>2, <2>3, <2>4, <2>5 DEF OrderInv
<1>8. QED
  BY <1>5, <1>6, <1>7

\* Every step of the worker keeps what the report maintains.
LEMMA WorkerKeeps ==
  ASSUME LibraryTypeOK, OrderInv, CodeInv, FreshInv, Worker, clock' = clock
  PROVE  LibraryTypeOK' /\ OrderInv' /\ CodeInv' /\ FreshInv'
<1> USE DEF Messages, Words
<1>0. found \subseteq Folder /\ uncounted \subseteq found
  BY DEF LibraryTypeOK
<1>1. CASE ScanRecord
  BY <1>0, <1>1, SendKeeps DEF ScanRecord, SentBefore
<1>2. CASE ScanPending
  BY <1>0, <1>2, SendKeeps DEF ScanPending, SentBefore
<1>3. CASE ScanFolders
  <2>1. found' \subseteq Folder /\ uncounted' \subseteq found'
    BY <1>3 DEF ScanFolders
  <2>2. QED
    BY <1>3, <2>1, SendKeeps DEF ScanFolders, SentBefore
<1>4. ASSUME NEW f \in Folder, ScanCount(f)
      PROVE  LibraryTypeOK' /\ OrderInv' /\ CodeInv' /\ FreshInv'
  <2>1. f \in Messages /\ f # "done"
    BY FolderAssumption
  <2>2. found' \subseteq Folder /\ uncounted' \subseteq found' /\ Sends(f, "count", "count")
    BY <1>0, <1>4 DEF ScanCount
  <2>3. QED
    BY <2>1, <2>2, SendKeeps
<1>5. CASE ScanDone
  BY <1>0, <1>5, SendKeeps DEF ScanDone
<1>6. CASE ScanError
  <2>1. PICK at \in {"record", "folders", "count"} : Sends("error", at, "end")
    BY <1>6 DEF ScanError
  <2>2. UNCHANGED <<found, uncounted>>
    BY <1>6 DEF ScanError
  <2>3. QED
    BY <1>0, <2>1, <2>2, SendKeeps
<1>7. CASE WorkerGone \/ WorkerWedges \/ WorkerFreed
  <2>1. /\ UNCHANGED <<scan, found, uncounted, pipe, reporter, got, libCode, clock>>
        /\ worker \in {"running", "wedged", "doomed"}
        /\ worker' \in {"running", "wedged", "gone"}
        /\ worker = "doomed" => worker' = "gone"
    BY <1>7 DEF WorkerGone, WorkerWedges, WorkerFreed
  <2>2. Sent' = Sent
    BY <2>1 DEF Sent, Elements
  <2>3. QED
    BY <2>1, <2>2 DEF LibraryTypeOK, OrderInv, CodeInv, FreshInv
<1>8. QED
  BY <1>1, <1>2, <1>3, <1>4, <1>5, <1>6, <1>7 DEF Worker

\* Every step of the report keeps what it maintains.
LEMMA ReportKeeps ==
  ASSUME LibraryTypeOK, OrderInv, CodeInv, FreshInv, clock' = clock,
         ReportReads \/ ReportEnds \/ ReportKilled
  PROVE  LibraryTypeOK' /\ OrderInv' /\ CodeInv' /\ FreshInv'
<1>1. CASE ReportReads
  <2>1. PICK n \in 1..Len(pipe) : /\ got' = got \cup {pipe[i] : i \in 1..n}
                                  /\ pipe' = SubSeq(pipe, n + 1, Len(pipe))
    BY <1>1 DEF ReportReads
  <2>2. /\ pipe' \in Seq(Messages) /\ Len(pipe') = Len(pipe) - n
        /\ \A i \in 1..(Len(pipe) - n) : pipe'[i] = pipe[n + i]
        /\ {pipe[i] : i \in 1..n} \cup Elements(pipe') = Elements(pipe)
    BY <2>1, ReadTakes DEF LibraryTypeOK
  <2>3. Sent' = Sent
    BY <2>1, <2>2 DEF Sent
  <2>4. reporter = "reading" /\ UNCHANGED <<workerVars, reporter, libCode, clock>>
    BY <1>1 DEF ReportReads
  <2>5. Len(pipe) \in Nat
    BY DEF LibraryTypeOK
  <2>6. LibraryTypeOK'
    <3>1. {pipe[i] : i \in 1..n} \subseteq Messages
      BY <2>5 DEF LibraryTypeOK
    <3>2. QED
      BY <2>1, <2>2, <2>4, <3>1 DEF LibraryTypeOK
  <2>7. CodeInv' /\ FreshInv'
    BY <2>4 DEF CodeInv, FreshInv, OrderInv
  <2>8. \A i \in 1..Len(pipe') : pipe'[i] = "done" => i = Len(pipe')
    <3>1. SUFFICES ASSUME NEW i \in 1..Len(pipe'), pipe'[i] = "done" PROVE i = Len(pipe')
      OBVIOUS
    <3>2. n + i \in 1..Len(pipe) /\ pipe[n + i] = "done"
      BY <2>2, <2>5, <3>1
    <3>3. n + i = Len(pipe)
      BY <2>4, <3>2 DEF OrderInv
    <3>4. QED
      BY <2>1, <2>2, <2>5, <3>1, <3>3
  <2>9. "done" \in got' => pipe' = <<>>
    <3>1. CASE "done" \in got
      BY <2>1, <2>4, <3>1 DEF OrderInv
    <3>2. CASE "done" \in {pipe[i] : i \in 1..n}
      <4>1. PICK i \in 1..n : pipe[i] = "done"
        BY <3>2
      <4>2. i = Len(pipe)
        BY <2>4, <2>5, <4>1 DEF OrderInv
      <4>3. Len(pipe') = 0
        BY <2>2, <2>5, <4>1, <4>2
      <4>4. QED
        BY <2>2, <4>3
    <3>3. QED
      BY <2>1, <3>1, <3>2
  <2>10. OrderInv'
    BY <2>3, <2>4, <2>8, <2>9 DEF OrderInv
  <2>11. QED
    BY <2>6, <2>7, <2>10
<1>2. CASE ReportEnds
  <2>1. /\ reporter = "reading" /\ reporter' = "exited" /\ pipe' = <<>>
        /\ libCode' = IF Counted THEN "0" ELSE "1"
        /\ worker' \in {"doomed", "gone"}
        /\ UNCHANGED <<scan, found, uncounted, got, clock>>
    BY <1>2 DEF ReportEnds
  <2>2. LibraryTypeOK'
    BY <2>1 DEF LibraryTypeOK
  <2>3. OrderInv' /\ FreshInv'
    BY <2>1 DEF OrderInv, FreshInv
  <2>4. CodeInv'
    <3>1. ASSUME Counted PROVE /\ scan = "end" /\ uncounted = {}
                               /\ {"record", "pending", "folders"} \cup found \subseteq got
      <4>1. "done" \in got /\ pipe = <<>>
        BY <2>1, <3>1 DEF Counted, OrderInv
      <4>2. Sent = got
        BY <4>1 DEF Sent, Elements
      <4>3. scan = "end" /\ uncounted = {} /\ {"record", "pending", "folders"} \subseteq got
        BY <2>1, <4>1, <4>2 DEF OrderInv, SentBefore
      <4>4. QED
        BY <3>1, <4>3 DEF Counted
    <3>2. QED
      BY <2>1, <3>1 DEF CodeInv
  <2>5. QED
    BY <2>2, <2>3, <2>4
<1>3. CASE ReportKilled
  BY <1>3 DEF ReportKilled, LibraryTypeOK, OrderInv, CodeInv, FreshInv
<1>4. QED
  BY <1>1, <1>2, <1>3

\* What the report maintains holds after every step of the status command and its reporters.
LEMMA LibraryKeeps ==
  ASSUME LibraryTypeOK, OrderInv, CodeInv, FreshInv, LimitInv, [Next]_vars
  PROVE  LibraryTypeOK' /\ OrderInv' /\ CodeInv' /\ FreshInv'
<1>1. CASE LibraryStep
  BY <1>1, WorkerKeeps, ReportKeeps DEF LibraryStep
<1>2. CASE Start /\ StartLibrary
  <2>1. reporter = "none" /\ clock' = "early"
    BY <1>2 DEF Start, StartLibrary, LimitInv
  <2>2. worker = "none" /\ pipe = <<>> /\ got = {} /\ libCode = "none"
    BY <2>1 DEF FreshInv, CodeInv
  <2>3. CASE ReportStarts
    <3>1. Sent' = {}
      BY <2>2, <2>3 DEF ReportStarts, Sent, Elements
    <3>2. QED
      BY <2>1, <2>2, <2>3, <3>1
      DEF ReportStarts, LibraryTypeOK, OrderInv, CodeInv, FreshInv, SentBefore
  <2>4. CASE ReportCannotStart
    BY <2>1, <2>2, <2>4 DEF ReportCannotStart, LibraryTypeOK, OrderInv, CodeInv, FreshInv
  <2>5. QED
    BY <1>2, <2>3, <2>4 DEF StartLibrary
<1>3. CASE UNCHANGED libraryVars /\ clock' \in {"early", "late", "over"}
  <2>1. Sent' = Sent
    BY <1>3 DEF Sent, Elements
  <2>2. QED
    BY <1>3, <2>1 DEF LibraryTypeOK, OrderInv, CodeInv, FreshInv
<1>4. QED
  BY <1>1, <1>2, <1>3
  DEF Next, Aggregator, ListUnreadable, ListRead, CannotRun, Start, StartControllers, StartOther,
      Collect, Cut, Reap, Finish, Tick, ControllersStep, OtherExits, OtherWedges, OtherFreed,
      LibraryTypeOK

-----------------------------------------------------------------------------
(* The controllers' report.                                                *)

\* Every step of the controllers' report, its start and its being killed, keeps its variables in range.
LEMMA ControllersTyping ==
  ASSUME ControllersTypeOK, ExaminedInv, [Next]_vars
  PROVE  ControllersTypeOK'
<1> USE MaxPlugsAssumption DEF ControllersTypeOK, Looking
<1>1. ASSUME NEW e \in Event, Plug(e) PROVE ControllersTypeOK'
  <2>1. PICK d \in Device \cup {Unplugged} : bus' = [bus EXCEPT ![e] = d]
    BY <1>1 DEF Plug
  <2>2. plugs < MaxPlugs /\ plugs' = plugs + 1 /\ steady' = steady \ {e} /\ UNCHANGED conVars
    BY <1>1 DEF Plug
  <2>3. QED
    BY <2>1, <2>2
<1>2. CASE ReadDatabase
  BY <1>2 DEF ReadDatabase, Joysticks
<1>3. ASSUME NEW e \in Event, ReadVendor(e) PROVE ControllersTypeOK'
  <2>1. CASE bus[e] = Unplugged
    BY <1>3, <2>1 DEF ReadVendor
  <2>2. CASE bus[e] # Unplugged
    <3>1. PICK d \in Device : d = bus[e]
      BY <2>2
    <3>2. bus[e].vendor \in Vendors
      BY <3>1 DEF Vendors
    <3>3. QED
      BY <1>3, <2>2, <3>2 DEF ReadVendor
  <2>3. QED
    BY <2>1, <2>2
<1>4. CASE ReadProduct
  BY <1>4 DEF ReadProduct
<1>5. ASSUME NEW code \in {"0", "1", "3", "killed"}, ControllersEnd(code) PROVE ControllersTypeOK'
  <2>1. bus' \in [Event -> Device \cup {Unplugged}]
    BY <1>5 DEF ControllersEnd, Empty
  <2>2. vendor' \in Vendors
    BY <1>5 DEF ControllersEnd, Vendors
  <2>3. /\ plugs' = 0 /\ conPc' = "exited" /\ conCode' = code /\ steady' = Event
        /\ nodes' = {} /\ node' = "none"
    BY <1>5 DEF ControllersEnd
  <2>4. warned' \in BOOLEAN
    BY <1>5, Zenon DEF ControllersEnd
  <2>5. QED
    BY <1>5, <2>1, <2>2, <2>3, <2>4
<1>6. CASE Start /\ StartControllers
  BY <1>6 DEF StartControllers, ControllersStart
<1>7. CASE UNCHANGED controllersVars
  BY <1>7
<1>8. CASE ControllersStep
  BY <1>1, <1>2, <1>3, <1>4, <1>5, <1>8
  DEF ControllersStep, Controllers, ControllersExit, ControllersFail
<1>9. CASE Cut
  BY <1>5, <1>7, <1>9 DEF Cut
<1>10. QED
  BY <1>6, <1>7, <1>8, <1>9
  DEF Next, Aggregator, ListUnreadable, ListRead, CannotRun, Start, StartLibrary, StartOther,
      Collect, Reap, Finish, Tick, LibraryStep, OtherExits, OtherWedges, OtherFreed

\* Every step keeps a joystick that stays connected accounted for.
LEMMA Examined ==
  ASSUME ControllersTypeOK, ExaminedInv, [Next]_vars
  PROVE  ExaminedInv'
<1> USE DEF ControllersTypeOK, Looking
<1>1. ASSUME NEW e \in Event, Plug(e) PROVE ExaminedInv'
  <2>1. PICK d \in Device \cup {Unplugged} : bus' = [bus EXCEPT ![e] = d]
    BY <1>1 DEF Plug
  <2>2. \A x \in steady' : x \in steady /\ bus'[x] = bus[x]
    BY <1>1, <2>1 DEF Plug
  <2>3. UNCHANGED conVars
    BY <1>1 DEF Plug
  <2>4. QED
    BY <2>2, <2>3 DEF ExaminedInv, Judged
<1>2. CASE ReadDatabase
  BY <1>2 DEF ReadDatabase, Joysticks, ExaminedInv
<1>3. ASSUME NEW e \in Event, ReadVendor(e) PROVE ExaminedInv'
  <2>1. conPc = "vendor" /\ nodes' = nodes \ {e} /\ UNCHANGED <<busVars, warned, conCode>>
    BY <1>3 DEF ReadVendor
  <2>2. CASE bus[e] = Unplugged
    <3>1. bus[e].pad = FALSE
      BY <2>2 DEF Unplugged
    <3>2. UNCHANGED <<conPc, node, vendor>>
      BY <1>3, <2>2 DEF ReadVendor
    <3>3. QED
      BY <2>1, <3>1, <3>2 DEF ExaminedInv, Judged
  <2>3. CASE bus[e] # Unplugged
    <3>1. conPc' = "product" /\ node' = e /\ vendor' = bus[e].vendor
      BY <1>3, <2>3 DEF ReadVendor
    <3>2. QED
      BY <2>1, <3>1 DEF ExaminedInv, Judged
  <2>4. QED
    BY <2>2, <2>3
<1>4. CASE ReadProduct
  <2>1. conPc = "product" /\ conPc' = "vendor" /\ UNCHANGED <<busVars, nodes, node, vendor, conCode>>
    BY <1>4 DEF ReadProduct
  <2>2. warned => warned'
    BY <1>4 DEF ReadProduct
  <2>3. ASSUME NEW e \in steady, bus[e].pad, node = e, vendor = bus[e].vendor PROVE Judged(e)'
    <3>1. bus[e] # Unplugged
      BY <2>3 DEF Unplugged
    <3>2. CASE [vendor |-> bus[e].vendor, product |-> bus[e].product] \in Accepted
      BY <2>1, <3>2 DEF Judged
    <3>3. CASE [vendor |-> bus[e].vendor, product |-> bus[e].product] \notin Accepted
      <4>1. warned'
        BY <1>4, <2>3, <3>1, <3>3 DEF ReadProduct
      <4>2. QED
        BY <4>1 DEF Judged
    <3>4. QED
      BY <3>2, <3>3
  <2>4. ASSUME NEW e \in steady, Judged(e) PROVE Judged(e)'
    BY <2>1, <2>2, <2>4 DEF Judged
  <2>5. \A e \in steady : bus[e].pad => e \in nodes \/ Judged(e)'
    BY <2>1, <2>3, <2>4 DEF ExaminedInv
  <2>6. QED
    BY <2>1, <2>5 DEF ExaminedInv
<1>5. ASSUME NEW code, ControllersEnd(code) PROVE ExaminedInv'
  BY <1>5 DEF ControllersEnd, ExaminedInv
<1>6. CASE Start /\ StartControllers
  BY <1>6 DEF StartControllers, ControllersStart, ExaminedInv
<1>7. CASE UNCHANGED controllersVars
  BY <1>7 DEF ExaminedInv, Judged
<1>8. CASE ControllersStep
  BY <1>1, <1>2, <1>3, <1>4, <1>5, <1>8
  DEF ControllersStep, Controllers, ControllersExit, ControllersFail
<1>9. CASE Cut
  BY <1>5, <1>7, <1>9 DEF Cut
<1>10. QED
  BY <1>6, <1>7, <1>8, <1>9
  DEF Next, Aggregator, ListUnreadable, ListRead, CannotRun, Start, StartLibrary, StartOther,
      Collect, Reap, Finish, Tick, LibraryStep, OtherExits, OtherWedges, OtherFreed

-----------------------------------------------------------------------------
(* The command.                                                            *)

\* What printing a section does to the command's own state.
LEMMA Printing ==
  ASSUME CommandTypeOK, TurnInv, WorstInv, NEW state \in Sections, current \in Reporters,
         Prints(state)
  PROVE  /\ section' \in [Reporters -> Sections \cup {"none"}] /\ worst' \in Sections
         /\ current' \in Reporters \cup {"none"} /\ agPc' = "run"
         /\ section'[current] = state
         /\ \A r \in Reporters : r # current => section'[r] = section[r]
         /\ current' # "none" => section'[current'] = "none" /\ current' # current
         /\ current' = "none" => \A r \in Reporters : section'[r] # "none"
         /\ TurnInv' /\ WorstInv'
<1> USE DEF CommandTypeOK
<1>1. /\ section' = [section EXCEPT ![current] = state] /\ worst' = Worse(state) /\ agPc' = "run"
      /\ current' \in IF Remaining = {} THEN {"none"} ELSE FirstOf(Remaining)
  BY DEF Prints
<1>2. worst' \in Sections /\ worst' \in {state, worst}
  BY <1>1 DEF Worse
<1>3. /\ section'[current] = state /\ \A r \in Reporters : r # current => section'[r] = section[r]
      /\ section' \in [Reporters -> Sections \cup {"none"}]
  BY <1>1
<1>4. /\ current' \in Reporters \cup {"none"}
      /\ current' # "none" => section'[current'] = "none" /\ current' # current
  <2>1. "none" \notin Reporters
    BY DEF Reporters
  <2>2. QED
    BY <1>1, <1>3, <2>1 DEF Remaining, FirstOf
<1>5. current' = "none" => \A r \in Reporters : section'[r] # "none"
  <2>1. SUFFICES ASSUME current' = "none" PROVE \A r \in Reporters : section'[r] # "none"
    OBVIOUS
  <2>2. Remaining = {}
    BY <1>1, <2>1 DEF Remaining, FirstOf, Reporters
  <2>3. QED
    BY <1>3, <2>2 DEF Remaining, Sections
<1>6. TurnInv'
  BY <1>1, <1>4, <1>5 DEF TurnInv
<1>7. WorstInv'
  <2>1. ExitOf(state) <= ExitOf(worst') /\ ExitOf(worst) <= ExitOf(worst')
    <3>1. CASE ExitOf(state) > ExitOf(worst)
      BY <1>1, <3>1 DEF Worse, ExitOf
    <3>2. CASE ~(ExitOf(state) > ExitOf(worst))
      <4>1. worst' = worst
        BY <1>1, <3>2 DEF Worse
      <4>2. QED
        BY <3>2, <4>1 DEF ExitOf
    <3>3. QED
      BY <3>1, <3>2
  <2>2. ASSUME NEW r \in Reporters, section'[r] # "none" PROVE ExitOf(section'[r]) <= ExitOf(worst')
    <3>1. CASE r = current
      BY <1>3, <2>1, <3>1
    <3>2. CASE r # current
      <4>1. section'[r] = section[r] /\ ExitOf(section[r]) <= ExitOf(worst)
        BY <1>3, <2>2, <3>2 DEF WorstInv
      <4>2. ExitOf(section[r]) \in Nat /\ ExitOf(worst) \in Nat /\ ExitOf(worst') \in Nat
        BY DEF ExitOf
      <4>3. QED
        BY <2>1, <4>1, <4>2
    <3>3. QED
      BY <3>1, <3>2
  <2>3. ASSUME worst' # "ok" PROVE \E r \in Reporters : section'[r] = worst'
    <3>1. CASE worst' = state
      BY <1>3, <3>1
    <3>2. CASE worst' = worst
      <4>1. PICK r \in Reporters : section[r] = worst
        BY <2>3, <3>2 DEF WorstInv
      <4>2. r # current
        <5>1. section[current] = "none"
          BY DEF TurnInv, Reporters
        <5>2. QED
          BY <4>1, <5>1 DEF Sections
      <4>3. QED
        BY <1>3, <3>2, <4>1, <4>2
    <3>3. QED
      BY <1>2, <3>1, <3>2
  <2>4. QED
    BY <2>2, <2>3 DEF WorstInv
<1>8. QED
  BY <1>1, <1>2, <1>3, <1>4, <1>5, <1>6, <1>7

\* Every step of the command, and of its reporters, keeps the command's variables in range, the
\* turns in order and the worst state that of a section.
LEMMA CommandKeeps ==
  ASSUME CommandTypeOK, TurnInv, WorstInv, [Next]_vars
  PROVE  CommandTypeOK' /\ TurnInv' /\ WorstInv'
<1>0. "none" \notin Reporters /\ "none" \notin Sections
  BY DEF Reporters, Sections
<1>1. CASE ListUnreadable
  BY <1>1 DEF ListUnreadable, CommandTypeOK, TurnInv, WorstInv, ExitOf
<1>2. CASE ListRead
  <2>1. current' \in Reporters /\ agPc = "start" /\ agPc' = "run"
    BY <1>2 DEF ListRead, FirstOf
  <2>2. UNCHANGED <<section, worst, exit, otherVars>>
    BY <1>2 DEF ListRead
  <2>3. QED
    BY <1>0, <2>1, <2>2 DEF CommandTypeOK, TurnInv, WorstInv
<1>3. ASSUME NEW state \in Sections, current \in Reporters, Prints(state),
             UNCHANGED <<exit, otherVars>>
      PROVE  CommandTypeOK' /\ TurnInv' /\ WorstInv'
  <2>1. /\ section' \in [Reporters -> Sections \cup {"none"}] /\ worst' \in Sections
        /\ current' \in Reporters \cup {"none"} /\ agPc' = "run" /\ TurnInv' /\ WorstInv'
    BY <1>3, Printing
  <2>2. QED
    BY <1>3, <2>1 DEF CommandTypeOK
<1>4. CASE CannotRun
  BY <1>3, <1>4 DEF CannotRun, Sections
<1>5. CASE Start
  <2>1. UNCHANGED <<current, section, worst, exit, otherCode>> /\ agPc = "run" /\ agPc' = "wait"
    BY <1>5 DEF Start, StartControllers, StartLibrary, StartOther
  <2>2. current \in Reporters /\ other' \in {"running", other}
    BY <1>5 DEF Start, StartControllers, StartLibrary, StartOther, Reporters
  <2>3. QED
    BY <1>0, <2>1, <2>2 DEF CommandTypeOK, TurnInv, WorstInv
<1>6. CASE Collect
  <2>1. StateOf(Code(current)) \in Sections
    BY DEF StateOf, Sections
  <2>2. current \in Reporters
    BY <1>6 DEF Collect, TurnInv
  <2>3. QED
    BY <1>3, <1>6, <2>1, <2>2 DEF Collect
<1>7. CASE Cut
  <2>1. /\ UNCHANGED <<current, section, worst, exit>> /\ agPc = "wait" /\ agPc' = "reap"
        /\ other' \in {other, "exited", "doomed"} /\ otherCode' \in {otherCode, "killed"}
    BY <1>7 DEF Cut
  <2>2. QED
    BY <2>1 DEF CommandTypeOK, TurnInv, WorstInv
<1>8. CASE Reap
  BY <1>3, <1>8 DEF Reap, Sections, TurnInv
<1>9. CASE Finish
  BY <1>9 DEF Finish, CommandTypeOK, TurnInv, WorstInv, ExitOf
<1>10. CASE UNCHANGED statusVars
  <2>1. other' \in {other, "exited", "wedged", "running"}
        /\ otherCode' \in {otherCode, "0", "1", "2", "3", "killed"}
    BY <1>0, <1>10
    DEF Next, Aggregator, ListUnreadable, ListRead, CannotRun, Start, Collect, Cut, Reap, Finish,
        Prints, Tick, LibraryStep, ControllersStep, OtherExits, OtherWedges, OtherFreed
  <2>2. QED
    BY <1>10, <2>1 DEF CommandTypeOK, TurnInv, WorstInv
<1>11. QED
  BY <1>1, <1>2, <1>4, <1>5, <1>6, <1>7, <1>8, <1>9, <1>10
  DEF Next, Aggregator, Tick, LibraryStep, ControllersStep, OtherExits, OtherWedges, OtherFreed

\* Every step keeps the exit statuses behind the healthy sections.
LEMMA OkKept ==
  ASSUME CommandTypeOK, TurnInv, WorstInv, OkInv, [Next]_vars
  PROVE  OkInv'
<1>0. "none" \notin Reporters /\ \A r \in Reporters : r \in {"controllers", "library", "backups"}
  BY DEF Reporters
<1>1. SUFFICES ASSUME NEW r \in Reporters, section'[r] = "ok" PROVE Exited(r)' /\ Code(r)' = "0"
  BY DEF OkInv
<1>2. CASE section[r] = "ok"
  <2>1. Exited(r) /\ Code(r) = "0"
    BY <1>2 DEF OkInv
  <2>2. current # r
    BY <1>0, <1>1, <1>2 DEF TurnInv
  <2>3. r = "controllers" => UNCHANGED <<conPc, conCode>>
    BY <2>1, <2>2
    DEF Exited, Next, Aggregator, ListUnreadable, ListRead, CannotRun, Start, StartControllers,
        StartLibrary, StartOther, Collect, Cut, Reap, Finish, Tick, LibraryStep, ControllersStep,
        Controllers, Plug, ReadDatabase, ReadVendor, ReadProduct, ControllersExit, ControllersFail,
        Looking, OtherExits, OtherWedges, OtherFreed
  <2>4. r = "library" => UNCHANGED <<reporter, libCode>>
    BY <2>1, <2>2
    DEF Exited, Next, Aggregator, ListUnreadable, ListRead, CannotRun, Start, StartControllers,
        StartLibrary, StartOther, Collect, Cut, Reap, Finish, Tick, LibraryStep, ControllersStep,
        Worker, ScanRecord, ScanPending, ScanFolders, ScanCount, ScanDone, ScanError, Sends,
        WorkerGone, WorkerWedges, WorkerFreed, ReportReads, ReportEnds, ReportKilled,
        OtherExits, OtherWedges, OtherFreed
  <2>5. r = "backups" => UNCHANGED <<other, otherCode>>
    BY <2>1, <2>2
    DEF Exited, Next, Aggregator, ListUnreadable, ListRead, CannotRun, Start, StartControllers,
        StartLibrary, StartOther, Collect, Cut, Reap, Finish, Tick, LibraryStep, ControllersStep,
        OtherExits, OtherWedges, OtherFreed
  <2>6. QED
    BY <1>0, <2>1, <2>3, <2>4, <2>5 DEF Exited, Code
<1>3. CASE section[r] # "ok"
  <2>1. ASSUME NEW state \in Sections, current \in Reporters, Prints(state)
        PROVE  r = current /\ state = "ok"
    BY <1>1, <1>3, <2>1, Printing
  <2>2. Collect /\ r = current /\ StateOf(Code(current)) = "ok"
    <3>1. section' # section
      BY <1>1, <1>3
    <3>2. CannotRun \/ Collect \/ Reap
      BY <3>1
      DEF Next, Aggregator, ListUnreadable, ListRead, Start, Cut, Finish, Tick, LibraryStep,
          ControllersStep, OtherExits, OtherWedges, OtherFreed
    <3>3. ~CannotRun /\ ~Reap
      BY <2>1 DEF CannotRun, Reap, Sections, TurnInv
    <3>4. StateOf(Code(current)) \in Sections
      BY DEF StateOf, Sections
    <3>5. QED
      BY <2>1, <3>2, <3>3, <3>4 DEF Collect, TurnInv
  <2>3. Exited(r) /\ Code(r) = "0"
    BY <2>2 DEF Collect, Closed, StateOf
  <2>4. UNCHANGED <<conPc, conCode, reporter, libCode, other, otherCode>>
    BY <2>2 DEF Collect
  <2>5. QED
    BY <2>3, <2>4 DEF Exited, Code
<1>4. QED
  BY <1>2, <1>3

\* Every step keeps the library's report within the command's wait for it and within its limit.
LEMMA LimitKept ==
  ASSUME CommandTypeOK, TurnInv, WorstInv, LimitInv, [Next]_vars
  PROVE  LimitInv'
<1>0. "library" \in Reporters /\ "none" \notin Reporters /\ "none" \notin Sections
  BY DEF Reporters, Sections
<1>1. CASE ListUnreadable
  BY <1>1 DEF ListUnreadable, LimitInv, TurnInv
<1>2. CASE ListRead
  BY <1>0, <1>2 DEF ListRead, LimitInv, TurnInv
<1>3. ASSUME NEW state \in Sections, current \in Reporters, Prints(state), UNCHANGED reporter,
             current = "library" => reporter # "reading"
      PROVE  LimitInv'
  <2>1. /\ agPc' = "run" /\ section'[current] = state /\ agPc \in {"run", "wait", "reap"}
        /\ \A r \in Reporters : r # current => section'[r] = section[r]
        /\ current' # "none" => section'[current'] = "none" /\ current' # current
    BY <1>0, <1>3, Printing DEF TurnInv
  <2>2. reporter # "reading"
    BY <1>3 DEF LimitInv
  <2>3. CASE current = "library"
    BY <1>0, <1>3, <2>1, <2>2, <2>3 DEF LimitInv
  <2>4. CASE current # "library"
    BY <1>0, <1>3, <2>1, <2>2, <2>4 DEF LimitInv
  <2>5. QED
    BY <2>3, <2>4
<1>4. CASE CannotRun
  BY <1>3, <1>4 DEF CannotRun, Sections, LimitInv
<1>5. CASE Start
  <2>1. UNCHANGED <<current, section>> /\ agPc = "run" /\ agPc' = "wait" /\ clock' = "early"
    BY <1>5 DEF Start
  <2>2. CASE current = "library"
    <3>1. reporter' \in {"reading", "exited"}
      BY <1>5, <2>2 DEF Start, StartControllers, StartLibrary, StartOther, ReportStarts,
                        ReportCannotStart
    <3>2. QED
      BY <2>1, <2>2, <3>1 DEF LimitInv
  <2>3. CASE current # "library"
    <3>1. reporter' = reporter
      BY <1>5, <2>3 DEF Start, StartControllers, StartLibrary, StartOther
    <3>2. QED
      BY <2>1, <2>3, <3>1 DEF LimitInv
  <2>4. QED
    BY <2>2, <2>3
<1>6. CASE Collect
  <2>1. StateOf(Code(current)) \in Sections
    BY DEF StateOf, Sections
  <2>2. current = "library" => reporter # "reading"
    BY <1>6 DEF Collect, Closed, Exited
  <2>3. QED
    BY <1>3, <1>6, <2>1, <2>2 DEF Collect, TurnInv
<1>7. CASE Cut
  BY <1>7 DEF Cut, LimitInv
<1>8. CASE Reap
  BY <1>3, <1>8 DEF Reap, Sections, TurnInv, LimitInv
<1>9. CASE Finish
  BY <1>9 DEF Finish, LimitInv, TurnInv
<1>10. CASE Tick
  BY <1>10 DEF Tick, LimitInv
<1>11. CASE LibraryStep
  <2>1. UNCHANGED <<agPc, current, section, clock>>
    BY <1>11 DEF LibraryStep
  <2>2. reporter' = reporter \/ (reporter = "reading" /\ reporter' = "exited")
    BY <1>11
    DEF LibraryStep, Worker, ScanRecord, ScanPending, ScanFolders, ScanCount, ScanDone, ScanError,
        Sends, WorkerGone, WorkerWedges, WorkerFreed, ReportReads, ReportEnds, ReportKilled
  <2>3. QED
    BY <2>1, <2>2 DEF LimitInv
<1>12. CASE UNCHANGED <<agPc, current, section, clock, reporter>>
  BY <1>12 DEF LimitInv
<1>13. QED
  BY <1>1, <1>2, <1>4, <1>5, <1>6, <1>7, <1>8, <1>9, <1>10, <1>11, <1>12
  DEF Next, Aggregator, ControllersStep, OtherExits, OtherWedges, OtherFreed

-----------------------------------------------------------------------------
(* The theorems.                                                           *)

\* The inductive invariant holds at the start.
LEMMA InvInit == Init => TypeOK /\ StatusInv
<1> SUFFICES ASSUME Init PROVE TypeOK /\ StatusInv
  OBVIOUS
<1> USE DEF Init
<1>0. \A r \in Reporters : section[r] = "none"
  OBVIOUS
<1>1. CommandTypeOK
  BY <1>0 DEF CommandTypeOK, Sections
<1>2. LibraryTypeOK
  BY DEF LibraryTypeOK
<1>3. ControllersTypeOK
  <2>1. warned \in BOOLEAN
    BY Zenon
  <2>2. bus \in [Event -> Device \cup {Unplugged}]
    BY DEF Empty
  <2>3. QED
    BY <2>1, <2>2, MaxPlugsAssumption DEF ControllersTypeOK, Vendors
<1>4. TurnInv /\ WorstInv /\ OkInv /\ LimitInv
  BY <1>0 DEF TurnInv, WorstInv, OkInv, LimitInv
<1>5. OrderInv /\ CodeInv /\ FreshInv /\ ExaminedInv
  BY DEF OrderInv, CodeInv, FreshInv, ExaminedInv
<1>6. QED
  BY <1>1, <1>2, <1>3, <1>4, <1>5 DEF TypeOK, StatusInv

\* The inductive invariant is kept by every step.
LEMMA InvNext == TypeOK /\ StatusInv /\ [Next]_vars => TypeOK' /\ StatusInv'
  BY LibraryKeeps, ControllersTyping, Examined, CommandKeeps, OkKept, LimitKept
  DEF TypeOK, StatusInv

\* Every variable stays within its range, and the invariant behind the theorems below holds, for
\* the command of emubox_status.py with its three reporters.
THEOREM StatusInvariant == Spec => [](TypeOK /\ StatusInv)
  BY InvInit, InvNext, PTL DEF Spec

\* The library's section is healthy only if its scan was complete (library.py:1037).
THEOREM HealthyMeansComplete == Spec => []HealthyIsComplete
<1>1. TypeOK /\ StatusInv => HealthyIsComplete
  <2>1. "library" \in Reporters
    BY DEF Reporters
  <2>2. QED
    BY <2>1 DEF StatusInv, OkInv, Code, CodeInv, HealthyIsComplete
<1>2. QED
  BY <1>1, StatusInvariant, PTL

\* The exit status of emubox-status is the worst of the sections', and each reporter has its own
\* (emubox_status.py:173).
THEOREM WorstStatusIsTold == Spec => []WorstIsTold
<1>1. TypeOK /\ StatusInv => WorstIsTold
  <2>1. SUFFICES ASSUME TypeOK, StatusInv, agPc = "done", section["library"] # "none"
                 PROVE  /\ \A r \in Reporters : section[r] \in Sections /\ ExitOf(section[r]) <= exit
                        /\ \E r \in Reporters : ExitOf(section[r]) = exit
                        /\ \A r \in Reporters : section[r] = "ok" => Code(r) = "0"
    BY DEF WorstIsTold
  <2>2. "library" \in Reporters
    BY DEF Reporters
  <2>3. (\A r \in Reporters : section[r] # "none") /\ exit = ExitOf(worst)
    BY <2>1, <2>2 DEF StatusInv, TurnInv
  <2>4. \A r \in Reporters : section[r] \in Sections /\ ExitOf(section[r]) <= exit
    BY <2>1, <2>3 DEF TypeOK, CommandTypeOK, StatusInv, WorstInv
  <2>5. \E r \in Reporters : ExitOf(section[r]) = exit
    <3>1. CASE worst = "ok"
      <4>1. ExitOf(section["library"]) <= 0 /\ exit = 0
        BY <2>2, <2>3, <2>4, <3>1 DEF ExitOf
      <4>2. ExitOf(section["library"]) = 0
        BY <4>1 DEF ExitOf
      <4>3. QED
        BY <2>2, <4>1, <4>2
    <3>2. CASE worst # "ok"
      BY <2>1, <2>3, <3>2 DEF StatusInv, WorstInv
    <3>3. QED
      BY <3>1, <3>2
  <2>6. QED
    BY <2>1, <2>4, <2>5 DEF StatusInv, OkInv
<1>2. QED
  BY <1>1, StatusInvariant, PTL

\* A library report that nobody killed is cut off only for a worker stuck in the kernel
\* (library.py:989, emubox_status.py:138).
THEOREM OnlyStuckIsCutOff == Spec => CutOffOnlyStuck
<1>1. TypeOK /\ StatusInv /\ [Next]_vars =>
        [agPc = "wait" /\ agPc' = "reap" /\ current = "library" /\ libCode # "killed" =>
           worker = "doomed"]_vars
  <2>1. SUFFICES ASSUME TypeOK, StatusInv, [Next]_vars, agPc = "wait", agPc' = "reap",
                        current = "library", libCode # "killed"
                 PROVE  worker = "doomed"
    OBVIOUS
  <2>2. Cut
    BY <2>1
    DEF Next, Aggregator, ListUnreadable, ListRead, CannotRun, Start, Collect, Reap, Finish, Prints,
        Tick, LibraryStep, ControllersStep, OtherExits, OtherWedges, OtherFreed
  <2>3. clock = "over" /\ ~Closed("library")
    BY <2>1, <2>2 DEF Cut
  <2>4. reporter = "exited"
    BY <2>1, <2>3 DEF TypeOK, LibraryTypeOK, StatusInv, LimitInv
  <2>5. worker \in {"none", "doomed", "gone"}
    BY <2>1, <2>4 DEF TypeOK, LibraryTypeOK, StatusInv, CodeInv
  <2>6. QED
    BY <2>3, <2>4, <2>5 DEF Closed, Exited
<1>2. QED
  BY <1>1, StatusInvariant, PTL DEF Spec, CutOffOnlyStuck

\* A joystick in an unaccepted mode that stays connected is warned of, whatever else comes and
\* goes (emubox_controllers_status.py:169).
THEOREM PadIsWarnedOf == Spec => PadWarned
<1> DEFINE Told == \A e \in Joysticks \cap steady :
                     conCode # "0" /\ conCode' = "0" =>
                       [vendor |-> bus[e].vendor, product |-> bus[e].product] \in Accepted
<1>1. TypeOK /\ StatusInv /\ [Next]_vars => [Told]_vars
  <2>1. SUFFICES ASSUME TypeOK, StatusInv, [Next]_vars, NEW e \in Joysticks \cap steady,
                        conCode # "0", conCode' = "0"
                 PROVE  [vendor |-> bus[e].vendor, product |-> bus[e].product] \in Accepted
    OBVIOUS
  <2>2. ControllersExit
    BY <2>1
    DEF Next, Aggregator, ListUnreadable, ListRead, CannotRun, Start, StartControllers,
        StartLibrary, StartOther, ControllersStart, Collect, Cut, Reap, Finish, Tick, LibraryStep,
        ControllersStep, Controllers, Plug, ReadDatabase, ReadVendor, ReadProduct, ControllersFail,
        ControllersEnd, OtherExits, OtherWedges, OtherFreed
  <2>3. conPc = "vendor" /\ nodes = {} /\ ~warned
    BY <2>1, <2>2 DEF ControllersExit, ControllersEnd
  <2>4. bus[e].pad
    BY <2>1 DEF Joysticks
  <2>5. Judged(e)
    BY <2>1, <2>3, <2>4 DEF StatusInv, ExaminedInv
  <2>6. QED
    BY <2>3, <2>5 DEF Judged
<1>2. QED
  BY <1>1, StatusInvariant, PTL DEF Spec, PadWarned

-----------------------------------------------------------------------------
(* The parts of a reporter's turn.                                         *)

\* The invariant that the steps towards an answer rest on.
AnswerInv == TypeOK /\ StatusInv /\ ReapInv

\* A killed reporter stays one until it is waited for.
LEMMA ReapKept == AnswerInv /\ [Next]_vars => ReapInv'
<1> SUFFICES ASSUME AnswerInv, [Next]_vars PROVE ReapInv'
  OBVIOUS
<1> USE DEF AnswerInv, TypeOK, CommandTypeOK, LibraryTypeOK, ControllersTypeOK, StatusInv
<1>1. CASE Cut
  BY <1>1 DEF Cut, ControllersEnd, Closed, Exited, LimitInv, ReapInv
<1>2. CASE Start
  BY <1>2 DEF Start, StartControllers, StartLibrary, StartOther, ReapInv
<1>3. CASE ListUnreadable \/ ListRead \/ CannotRun \/ Collect \/ Reap \/ Finish
  BY <1>3 DEF ListUnreadable, ListRead, CannotRun, Collect, Reap, Finish, Prints, ReapInv
<1>4. CASE LibraryStep
  BY <1>4
  DEF LibraryStep, Worker, Sends, ScanRecord, ScanPending, ScanFolders, ScanCount,
      ScanDone, ScanError, WorkerGone, WorkerWedges, WorkerFreed, ReportReads, ReportEnds,
      ReportKilled, LimitInv, ReapInv
<1>5. CASE ControllersStep
  BY <1>5
  DEF ControllersStep, Controllers, Plug, ReadDatabase, ReadVendor, ReadProduct, ControllersExit,
      ControllersFail, ControllersEnd, Looking, ReapInv
<1>6. CASE Tick \/ OtherExits \/ OtherWedges \/ OtherFreed
  BY <1>6 DEF Tick, OtherExits, OtherWedges, OtherFreed, ReapInv
<1>7. CASE UNCHANGED vars
  BY <1>7 DEF ReapInv
<1>8. QED
  BY <1>1, <1>2, <1>3, <1>4, <1>5, <1>6, <1>7 DEF Next, Aggregator

\* The invariant of the turns holds.
LEMMA AnswerInvariant == Spec => []AnswerInv
<1>1. Init => ReapInv
  BY DEF Init, ReapInv
<1>2. QED
  BY <1>1, StatusInvariant, ReapKept, PTL DEF Spec, AnswerInv

-----------------------------------------------------------------------------
(* Nobody is stuck.  This theorem and those of liveness take               *)
(* []GuardsSuffice as their hypothesis: that an action whose guard holds   *)
(* is enabled, the one fact about ENABLED they need.                       *)

\* The list has a first reporter among those whose turn is still to come.
NextKnown == Remaining # {} => FirstOf(Remaining) # {}

\* What the command's steps ask for.
CommandGuard ==
  \/ agPc = "start"                                          \* ListUnreadable
  \/ agPc = "run" /\ current \in Reporters /\ NextKnown       \* CannotRun
  \/ agPc = "run" /\ current = "none"                        \* Finish
  \/ agPc = "wait" /\ Closed(current) /\ NextKnown           \* Collect
  \/ agPc = "wait" /\ clock = "over" /\ ~Closed(current)     \* Cut
  \/ agPc = "reap" /\ Exited(current) /\ NextKnown           \* Reap

\* A guard that holds enables its action: the primed conjuncts only assign.
GuardsSuffice ==
  /\ CommandGuard => ENABLED <<Aggregator>>_vars
  /\ ClockReady => ENABLED <<Tick>>_vars
  /\ DeadlineReady => ENABLED <<LibraryEnds>>_vars
  /\ KernelReady => ENABLED <<OtherFreed>>_vars

\* Until the command is done, somebody who bounds its wait has a step to take.
SomebodyActs ==
  agPc # "done" =>
    \/ ENABLED <<Aggregator>>_vars
    \/ ENABLED <<Tick>>_vars
    \/ ENABLED <<LibraryEnds>>_vars
    \/ ENABLED <<OtherFreed>>_vars

\* Any reporters have a first one in the list.
LEMMA FirstExists ==
  ASSUME NEW S \in SUBSET Reporters, S # {}
  PROVE  FirstOf(S) # {}
<1>1. \A r \in Reporters : Place[r] \in Nat
  BY PlaceAssumption
<1>2. \E r \in S : \A q \in S : Place[r] <= Place[q]
  <2>1. PICK r \in S : TRUE
    OBVIOUS
  <2>2. CASE \A q \in S : Place[r] <= Place[q]
    BY <2>2
  <2>3. CASE \E q \in S : Place[q] < Place[r]
    <3>1. PICK q \in S : Place[q] < Place[r]
      BY <2>3
    <3>2. CASE \A t \in S : Place[q] <= Place[t]
      BY <3>2
    <3>3. CASE \E t \in S : Place[t] < Place[q]
      <4>1. PICK t \in S : Place[t] < Place[q]
        BY <3>3
      <4>2. r \in Reporters /\ q \in Reporters /\ t \in Reporters
        OBVIOUS
      <4>3. Place[t] < Place[r] /\ r # q /\ q # t /\ r # t
        BY <1>1, <3>1, <4>1, <4>2
      <4>4. Reporters = {r, q, t}
        BY <4>2, <4>3 DEF Reporters
      <4>5. \A u \in S : u = r \/ u = q \/ u = t
        BY <4>4
      <4>6. \A u \in S : Place[t] <= Place[u]
        BY <1>1, <3>1, <4>1, <4>2, <4>3, <4>5
      <4>7. QED
        BY <4>6
    <3>4. QED
      BY <1>1, <3>2, <3>3
  <2>4. QED
    BY <1>1, <2>2, <2>3
<1>3. QED
  BY <1>2 DEF FirstOf

\* Wherever the command, its clock, the library report's deadline or the kernel is due, it can
\* go on; and until the command is done one of them is (emubox_status.py:105, library.py:1043).
THEOREM NobodyIsStuck == Spec /\ []GuardsSuffice => []NeverStuck /\ []SomebodyActs
<1>1. AnswerInv /\ GuardsSuffice => NeverStuck /\ SomebodyActs
  <2> SUFFICES ASSUME AnswerInv, GuardsSuffice
               PROVE  NeverStuck /\ SomebodyActs
    OBVIOUS
  <2> USE DEF AnswerInv, TypeOK, CommandTypeOK
  <2>1. NextKnown
    <3>1. Remaining \in SUBSET Reporters
      BY DEF Remaining
    <3>2. QED
      BY <3>1, FirstExists DEF NextKnown
  <2>2. CommandReady => CommandGuard
    BY <2>1 DEF CommandReady, CommandGuard
  <2>3. NeverStuck
    BY <2>2 DEF GuardsSuffice, NeverStuck
  <2>4. CASE agPc \in {"start", "run"}
    BY <2>3, <2>4 DEF NeverStuck, CommandReady, SomebodyActs
  <2>5. CASE agPc = "wait"
    <3>1. clock \in {"early", "late", "over"}
      BY DEF LibraryTypeOK
    <3>2. clock = "over" => CommandReady
      BY <2>5 DEF CommandReady
    <3>3. clock = "late" /\ reporter = "reading" => DeadlineReady
      BY DEF DeadlineReady, LoopOver
    <3>4. clock = "early" \/ (clock = "late" /\ reporter # "reading") => ClockReady
      BY <2>5 DEF ClockReady
    <3>5. QED
      BY <2>3, <3>1, <3>2, <3>3, <3>4 DEF NeverStuck, SomebodyActs
  <2>6. CASE agPc = "reap"
    <3>1. current \in Reporters
      BY <2>6 DEF StatusInv, TurnInv
    <3>2. Exited(current) \/ other = "doomed"
      BY <2>6, <3>1 DEF Reporters, ReapInv, Exited
    <3>3. CommandReady \/ KernelReady
      BY <2>6, <3>2 DEF CommandReady, KernelReady
    <3>4. QED
      BY <2>3, <3>3 DEF NeverStuck, SomebodyActs
  <2>7. CASE agPc = "done"
    BY <2>3, <2>7 DEF SomebodyActs
  <2>8. QED
    BY <2>4, <2>5, <2>6, <2>7
<1>2. QED
  BY <1>1, AnswerInvariant, PTL

-----------------------------------------------------------------------------
(* A reporter's turn.                                                      *)

Turn(pc) == agPc = pc /\ current \in Reporters

\* The step prints a section.
Tells == section' # section

\* Printing a section is a change, to the section of the turn alone.
LEMMA PrintTells ==
  ASSUME AnswerInv, current \in Reporters, NEW state \in Sections, Prints(state)
  PROVE  Tells /\ section[current] = "none" /\ section'[current] # "none"
<1>1. section' = [section EXCEPT ![current] = state] /\ section \in [Reporters -> Sections \cup {"none"}]
  BY DEF Prints, AnswerInv, TypeOK, CommandTypeOK
<1>2. section'[current] = state /\ state # "none"
  BY <1>1 DEF Sections
<1>3. section[current] = "none"
  BY DEF AnswerInv, StatusInv, TurnInv, Reporters
<1>4. QED
  BY <1>2, <1>3 DEF Tells

\* Every exit status names a state.
LEMMA StateOfReports == \A code : StateOf(code) \in Sections
  BY DEF StateOf, Sections

\* What the command's own step makes of each part of a turn.
LEMMA TurnRuns ==
  ASSUME AnswerInv, Turn("run"), Aggregator
  PROVE  (Turn("wait") /\ clock = "early")' \/ Tells
<1>1. CASE CannotRun
  BY <1>1, PrintTells DEF CannotRun, Turn, Sections
<1>2. CASE Start
  BY <1>2 DEF Start, Turn
<1>3. QED
  BY <1>1, <1>2
  DEF Turn, Reporters, Aggregator, ListUnreadable, ListRead, Collect, Cut, Reap, Finish

\* And of a wait.
LEMMA TurnWaits ==
  ASSUME AnswerInv, Turn("wait"), Aggregator
  PROVE  Turn("reap")' \/ Tells
<1>1. CASE Collect
  BY <1>1, PrintTells, StateOfReports DEF Collect, Turn
<1>2. CASE Cut
  BY <1>2 DEF Cut, Turn
<1>3. QED
  BY <1>1, <1>2 DEF Turn, Aggregator, ListUnreadable, ListRead, CannotRun, Start, Reap, Finish

\* And of the wait for a killed reporter.
LEMMA TurnReaps ==
  ASSUME AnswerInv, Turn("reap"), Aggregator
  PROVE  Tells
<1>1. Reap
  BY DEF Turn, Aggregator, ListUnreadable, ListRead, CannotRun, Start, Collect, Cut, Finish
<1>2. QED
  BY <1>1, PrintTells DEF Reap, Turn, Sections

\* No other step is a turn's.
LEMMA OthersLeaveTurn ==
  ASSUME [Next]_vars, ~Aggregator
  PROVE  UNCHANGED statusVars
BY DEF Next, Tick, LibraryStep, ControllersStep, OtherExits, OtherWedges, OtherFreed

\* A section is printed once.
LEMMA TellsOnce ==
  ASSUME AnswerInv, [Next]_vars
  PROVE  /\ \A r \in Reporters : section[r] # "none" => section'[r] = section[r]
         /\ Tells => \E r \in Reporters : section[r] = "none" /\ section'[r] # "none"
<1> USE DEF AnswerInv, TypeOK, CommandTypeOK
<1>1. ASSUME NEW state \in Sections, Prints(state), current \in Reporters
      PROVE  /\ \A r \in Reporters : section[r] # "none" => section'[r] = section[r]
             /\ \E r \in Reporters : section[r] = "none" /\ section'[r] # "none"
  <2>1. section[current] = "none" /\ section'[current] # "none"
    BY <1>1, PrintTells
  <2>2. \A r \in Reporters \ {current} : section'[r] = section[r]
    BY <1>1 DEF Prints
  <2>3. QED
    BY <1>1, <2>1, <2>2
<1>2. CASE CannotRun \/ Collect \/ Reap
  <2>1. current \in Reporters
    BY <1>2 DEF CannotRun, Collect, Reap, StatusInv, TurnInv
  <2>2. \E state \in Sections : Prints(state)
    BY <1>2, StateOfReports DEF CannotRun, Collect, Reap, Sections
  <2>3. QED
    BY <1>1, <2>1, <2>2
<1>3. CASE section' = section
  BY <1>3 DEF Tells
<1>4. CASE ListUnreadable \/ ListRead \/ Start \/ Cut \/ Finish
  BY <1>3, <1>4 DEF ListUnreadable, ListRead, Start, Cut, Finish
<1>5. CASE ~Aggregator
  BY <1>3, <1>5, OthersLeaveTurn
<1>6. QED
  BY <1>2, <1>4, <1>5 DEF Aggregator

-----------------------------------------------------------------------------
(* The command always ends.                                                *)

\* The stages of a wait: the clock is early, or late with the library's report still reading, or
\* late, or over; and those after it: the kernel holds the killed reporter, or has let it go.
Early == Turn("wait") /\ clock = "early"
Held  == Turn("wait") /\ clock = "late" /\ reporter = "reading"
Late  == Turn("wait") /\ clock = "late" /\ reporter # "reading"
Timed == Turn("wait") /\ clock = "over"
Bound == Turn("reap") /\ ~Exited(current)
Freed == Turn("reap") /\ Exited(current)

\* Any step of a wait ends it, lets the clock go on, or leaves it at its stage.
LEMMA WaitGoesOn ==
  ASSUME AnswerInv, Turn("wait"), [Next]_vars
  PROVE  \/ Turn("reap")' \/ Tells
         \/ Turn("wait")' /\ Tick
         \/ /\ Turn("wait")'
            /\ clock' = clock
            /\ reporter' = reporter \/ (reporter = "reading" /\ reporter' = "exited")
<1>1. CASE Aggregator
  BY <1>1, TurnWaits
<1>2. CASE Tick
  BY <1>2 DEF Tick, Turn
<1>3. CASE LibraryStep
  BY <1>3
  DEF LibraryStep, Worker, Sends, ScanRecord, ScanPending, ScanFolders, ScanCount,
      ScanDone, ScanError, WorkerGone, WorkerWedges, WorkerFreed, ReportReads, ReportEnds,
      ReportKilled, Turn
<1>4. CASE ControllersStep \/ OtherExits \/ OtherWedges \/ OtherFreed \/ UNCHANGED vars
  BY <1>4 DEF ControllersStep, OtherExits, OtherWedges, OtherFreed, Turn
<1>5. QED
  BY <1>1, <1>2, <1>3, <1>4 DEF Next

\* Any step after the limit prints the section, or leaves the reporter killed.
LEMMA ReapGoesOn ==
  ASSUME AnswerInv, Turn("reap"), [Next]_vars
  PROVE  Tells \/ (Turn("reap")' /\ (Exited(current) => Exited(current)'))
<1> USE DEF AnswerInv, ReapInv
<1>1. CASE Aggregator
  BY <1>1, TurnReaps
<1>2. CASE LibraryStep
  BY <1>2
  DEF LibraryStep, Worker, Sends, ScanRecord, ScanPending, ScanFolders, ScanCount,
      ScanDone, ScanError, WorkerGone, WorkerWedges, WorkerFreed, ReportReads, ReportEnds,
      ReportKilled, Turn, Exited
<1>3. CASE ControllersStep
  BY <1>3
  DEF ControllersStep, Controllers, Plug, ReadDatabase, ReadVendor, ReadProduct, ControllersExit,
      ControllersFail, ControllersEnd, Looking, Turn, Exited
<1>4. CASE Tick \/ OtherExits \/ OtherWedges \/ OtherFreed \/ UNCHANGED vars
  BY <1>4 DEF Tick, OtherExits, OtherWedges, OtherFreed, Turn, Exited
<1>5. QED
  BY <1>1, <1>2, <1>3, <1>4 DEF Next

\* Every turn ends in a section: each stage gives way to a later one, under the fairness of the
\* step that ends it.
LEMMA TurnEnds ==
  FairSpec /\ []GuardsSuffice => [](current \in Reporters => <><<Tells>>_vars)
<1>1. AnswerInv /\ Turn("run") /\ [Next]_vars => Turn("run")' \/ Early' \/ Tells
  <2>1. CASE Aggregator
    BY <2>1, TurnRuns DEF Early
  <2>2. CASE ~Aggregator
    BY <2>2, OthersLeaveTurn DEF Turn
  <2>3. QED
    BY <2>1, <2>2
<1>2. AnswerInv /\ Turn("run") /\ <<Aggregator>>_vars => Early' \/ Tells
  BY TurnRuns DEF Early
<1>3. Turn("run") => CommandReady
  BY DEF Turn, CommandReady
<1>4. AnswerInv /\ Early /\ [Next]_vars => (Early \/ Held \/ Late \/ Turn("reap"))' \/ Tells
  BY WaitGoesOn DEF Early, Held, Late, Tick, Turn
<1>5. AnswerInv /\ Early /\ <<Tick>>_vars => (Held \/ Late)'
  BY DEF Early, Held, Late, Tick, Turn
<1>6. Early => ClockReady
  BY DEF Early, Turn, ClockReady
<1>7. AnswerInv /\ Held /\ [Next]_vars => (Held \/ Late \/ Turn("reap"))' \/ Tells
  BY WaitGoesOn DEF Held, Late, Tick, Turn
<1>8. AnswerInv /\ Held /\ <<LibraryEnds>>_vars => Late'
  BY DEF Held, Late, LibraryEnds, ReportEnds, Turn
<1>9. Held => DeadlineReady
  BY DEF Held, Turn, DeadlineReady, LoopOver
<1>10. AnswerInv /\ Late /\ [Next]_vars => (Late \/ Timed \/ Turn("reap"))' \/ Tells
  BY WaitGoesOn DEF Late, Timed, Tick, Turn
<1>11. AnswerInv /\ Late /\ <<Tick>>_vars => Timed'
  BY DEF Late, Timed, Tick, Turn
<1>12. Late => ClockReady
  BY DEF Late, Turn, ClockReady
<1>13. AnswerInv /\ Timed /\ [Next]_vars => (Timed \/ Turn("reap"))' \/ Tells
  BY WaitGoesOn DEF Timed, Tick, Turn
<1>14. AnswerInv /\ Timed /\ <<Aggregator>>_vars => Turn("reap")' \/ Tells
  BY TurnWaits DEF Timed
<1>15. Timed => CommandReady
  BY DEF Timed, Turn, CommandReady
<1>16. AnswerInv /\ Bound /\ [Next]_vars => (Bound \/ Freed)' \/ Tells
  BY ReapGoesOn DEF Bound, Freed
<1>17. AnswerInv /\ Bound /\ <<OtherFreed>>_vars => Freed'
  BY DEF AnswerInv, ReapInv, Reporters, Turn, Exited, OtherFreed, Bound, Freed
<1>18. AnswerInv /\ Bound => KernelReady
  BY DEF AnswerInv, ReapInv, Reporters, Turn, Exited, KernelReady, Bound
<1>19. AnswerInv /\ Freed /\ [Next]_vars => Freed' \/ Tells
  BY ReapGoesOn DEF Bound, Freed, Turn
<1>20. AnswerInv /\ Freed /\ <<Aggregator>>_vars => Tells
  BY TurnReaps DEF Freed
<1>21. Freed => CommandReady
  BY DEF Turn, CommandReady, Freed
<1>22. Turn("reap") => Bound \/ Freed
  BY DEF Bound, Freed
<1>23. AnswerInv /\ current \in Reporters =>
         Turn("run") \/ Early \/ Held \/ Late \/ Timed \/ Turn("reap")
  BY DEF AnswerInv, StatusInv, TurnInv, TypeOK, LibraryTypeOK, Reporters, Turn, Early, Held, Late, Timed
<1>24. Tells => <<Tells>>_vars
  BY DEF Tells
<1>25. QED
  BY <1>1, <1>2, <1>3, <1>4, <1>5, <1>6, <1>7, <1>8, <1>9, <1>10, <1>11, <1>12, <1>13, <1>14,
     <1>15, <1>16, <1>17, <1>18, <1>19, <1>20, <1>21, <1>22, <1>23, <1>24, AnswerInvariant,
     NobodyIsStuck, PTL
  DEF FairSpec, Spec, Fairness, NeverStuck

\* The command always ends, however long a report, a worker or a read takes (emubox_status.py:105,
\* library.py:1043): three turns, each of which ends, and then the exit.
THEOREM CommandAnswers == FairSpec /\ []GuardsSuffice => Answers
<1> DEFINE Idle    == agPc = "run" /\ current = "none"
           Started == agPc # "start"
           Over    == agPc = "done"
           C == section["controllers"] # "none"
           L == section["library"] # "none"
           B == section["backups"] # "none"
<1>1. Init => ~Started
  BY DEF Init
<1>2. [Next]_vars /\ Started => Started'
  <2>1. CASE Aggregator
    BY <2>1 DEF Aggregator, ListUnreadable, ListRead, CannotRun, Start, Collect, Cut, Reap,
                Finish, Prints
  <2>2. CASE ~Aggregator
    BY <2>2, OthersLeaveTurn
  <2>3. QED
    BY <2>1, <2>2
<1>3. <<Aggregator>>_vars => Started'
  BY DEF Aggregator, ListUnreadable, ListRead, CannotRun, Start, Collect, Cut, Reap, Finish, Prints
<1>4. ~Started => CommandReady
  BY DEF CommandReady
<1>5. AnswerInv /\ Started => Over \/ current \in Reporters \/ Idle
  BY DEF AnswerInv, TypeOK, CommandTypeOK, StatusInv, TurnInv, Reporters
<1>6. AnswerInv /\ [Next]_vars => (C => C') /\ (L => L') /\ (B => B')
  BY TellsOnce DEF Reporters
<1>7. AnswerInv /\ [Next]_vars /\ Tells => (~C /\ C') \/ (~L /\ L') \/ (~B /\ B')
  BY TellsOnce DEF Reporters
<1>8. AnswerInv /\ Idle /\ [Next]_vars => Idle' \/ Over'
  <2>1. CASE Aggregator
    BY <2>1 DEF Aggregator, ListUnreadable, ListRead, CannotRun, Start, StartControllers,
                StartLibrary, StartOther, Collect, Cut, Reap, Finish, Reporters
  <2>2. CASE ~Aggregator
    BY <2>2, OthersLeaveTurn
  <2>3. QED
    BY <2>1, <2>2
<1>9. AnswerInv /\ Idle /\ <<Aggregator>>_vars => Over'
  BY DEF Aggregator, ListUnreadable, ListRead, CannotRun, Start, StartControllers,
         StartLibrary, StartOther, Collect, Cut, Reap, Finish, Reporters
<1>10. Idle => CommandReady
  BY DEF CommandReady
<1>11. <<Tells>>_vars => Tells
  OBVIOUS
<1> HIDE DEF Idle, Started, Over, C, L, B
<1>12. FairSpec /\ []GuardsSuffice => <>Over
  BY <1>1, <1>2, <1>3, <1>4, <1>5, <1>6, <1>7, <1>8, <1>9, <1>10, <1>11, TurnEnds,
     AnswerInvariant,
     NobodyIsStuck, PTL
  DEF FairSpec, Spec, Fairness, NeverStuck
<1>13. QED
  BY <1>12 DEF Over, Answers
=============================================================================
