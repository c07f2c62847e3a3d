---------------------------- MODULE PrepareProofs ----------------------------
(* Proofs about Prepare, for any files, tables, targets and accounts.      *)
EXTENDS Prepare, OwnedFileProofs

USE DEF disk, world, own, hand, counts

-----------------------------------------------------------------------------
(* Typing.                                                                 *)

Phase   == {"idle", "login", "work", "staged", "done"}
Answer  == {None, "off", "unread", "success", "rejected", "unreachable"}
Working == {"work", "staged", "done"}

DiskOK ==
  /\ files \in [File -> Content] /\ secrets \in [Secret -> Token \cup {None}]
  /\ revenant \in [Secret -> Token \cup {None}]
  /\ systems \in {"absent", "wanted"} /\ litter \in BOOLEAN
WorldOK == enabled \in BOOLEAN /\ account \in Name /\ serial \in 0 .. MaxChanges
RunsOK ==
  /\ pc \in [Runner -> Phase] /\ outcome \in [Runner -> Answer]
  /\ login \in [Runner -> Login \cup {None}] /\ tables \in [Runner -> [File -> Table]]
  /\ todo \in [Runner -> SUBSET Item] /\ cur \in [Runner -> Hand]
  /\ next \in [Runner -> Content \cup {None}] /\ failed \in [Runner -> SUBSET Item]
FlagsOK == doc \in [Runner -> BOOLEAN] /\ alone \in [Runner -> BOOLEAN]
BoundsOK ==
  /\ runs \in 0 .. MaxRuns /\ saves \in 0 .. MaxSaves /\ faults \in 0 .. MaxFaults
  /\ rebuilds \in 0 .. MaxRebuilds

\* The parts of the type invariant.
LEMMA TypeParts == TypeOK <=> DiskOK /\ WorldOK /\ RunsOK /\ FlagsOK /\ BoundsOK
BY DEF TypeOK, DiskOK, WorldOK, RunsOK, FlagsOK, BoundsOK, Phase, Answer

\* What a run may have in hand, and what it has not finished.
InHand(p) ==
  /\ pc[p] = "idle" => ~alone[p]
  /\ pc[p] \in {"idle", "login"} => login[p] = None
  /\ pc[p] = "done" => todo[p] = {}
  /\ pc[p] = "staged" =>
       /\ cur[p] \in todo[p] /\ cur[p] \in Secret \cup File
       /\ cur[p] \in File => next[p] \in Content
       /\ cur[p] \in Secret => login[p] # None

\* A run's tables declare a key in one tier, and the login keys as it resolved them.
Declaring(p) ==
  /\ \A f \in File : OneTier(tables[p][f], Seed[f])
  /\ pc[p] \in Working /\ login[p] = None =>
       \A at \in LoginAt : tables[p][at[1]][at[2]][at[3]] = Remove

\* The cache is in hand only of a run that was answered.
Answered(p) ==
  pc[p] \in Working =>
    /\ Cache \in todo[p] => outcome[p] \in {"off", "success", "rejected"}
    /\ login[p] # None => outcome[p] \in {"success", "unreachable"}
    /\ outcome[p] = "success" => login[p] # None

Behind(p, i) == i \notin todo[p] \cup failed[p]

\* What a run that is alone has behind it is as it declares it.
Settles(p) ==
  alone[p] /\ pc[p] \in Working =>
    /\ \A f \in File : Behind(p, f) => Asserted(p, f) = files[f]
    /\ \A c \in SecretTarget : Behind(p, c) => secrets[c] = Wanted(p)
    /\ Behind(p, Cache) /\ outcome[p] # "unread" => secrets[Cache] = Wanted(p)
    /\ Behind(p, Systems) => systems = (IF SystemsDeclared THEN "wanted" ELSE "absent")
    /\ pc[p] = "staged" /\ cur[p] \in File => next[p] = Asserted(p, cur[p])

RunInv(p) == InHand(p) /\ Declaring(p) /\ Answered(p) /\ Settles(p)
PrepareInv == TypeOK /\ \A p \in Runner : RunInv(p)

-----------------------------------------------------------------------------
(* What a run declares.                                                    *)

\* What is seeded in a file is a table of seeds.
LEMMA SeedTyped ==
  ASSUME NEW f \in File
  PROVE  Seed[f] \in SeedTable /\ Seed[f] \in Table
BY PrepareAssumption, SeedsAreTables DEF SeedTable

\* With the login keys merged in, the tables are tables.
LEMMA MergedTyped ==
  ASSUME NEW on \in BOOLEAN, NEW as \in Login \cup {None}, NEW noId
  PROVE  Merged(on, as, noId) \in [File -> Table]
<1> DEFINE m == Merged(on, as, noId)
<1>1. ASSUME NEW f \in File, NEW s \in Section, NEW k \in Key
      PROVE  m[f][s][k] \in Value \cup {Remove, Nothing}
  <2>1. Enforce[on][f][s][k] \in Value \cup {Remove, Nothing}
    BY PrepareAssumption DEF Table
  <2>2. as # None => as[1] \in Value /\ as[2] \in Value
    BY PrepareAssumption DEF Login
  <2> DEFINE names  == {t \in Target : NameAt[t] = <<f, s, k>>}
             tokens == {t \in KeyTarget : TokenAt[t] = <<f, s, k>>}
             named  == \E t \in names : as # None /\ t \notin noId
             keyed  == \E t \in tokens : as # None /\ t \notin noId
  <2>3. m[f][s][k] = IF named THEN as[1] ELSE IF keyed THEN as[2]
                     ELSE IF names \cup tokens # {} THEN Remove ELSE Enforce[on][f][s][k]
    BY DEF Merged
  <2>4. named \/ keyed => as # None
    OBVIOUS
  <2> HIDE DEF names, tokens, named, keyed, m
  <2> QED
    BY <2>1, <2>2, <2>3, <2>4
<1>2. ASSUME NEW f \in File PROVE m[f] \in Table
  <2>1. m[f] = [s \in Section |-> m[f][s]]
    BY DEF Merged
  <2>2. ASSUME NEW s \in Section PROVE m[f][s] \in [Key -> Value \cup {Remove, Nothing}]
    <3>1. m[f][s] = [k \in Key |-> m[f][s][k]]
      BY DEF Merged
    <3> HIDE DEF m
    <3> QED
      BY <3>1, <1>1
  <2> HIDE DEF m
  <2> QED
    BY <2>1, <2>2 DEF Table
<1>3. m = [f \in File |-> m[f]]
  BY DEF Merged
<1> HIDE DEF m
<1>4. m \in [File -> Table]
  BY <1>2, <1>3
<1> QED
  BY <1>4 DEF m

\* What is seeded is neither enforced, nor a login key.
LEMMA SeededOnly ==
  ASSUME NEW f \in File, NEW s \in Section, NEW k \in Key, Owned(Seed[f], s, k)
  PROVE  /\ \A on \in BOOLEAN : Enforce[on][f][s][k] = Nothing
         /\ \A t \in Target : NameAt[t] # <<f, s, k>>
         /\ \A t \in KeyTarget : TokenAt[t] # <<f, s, k>>
<1>1. Seed[f][s][k] # Nothing
  BY DEF Owned
<1> QED
  BY <1>1, PrepareAssumption, Zenon

\* With the login keys merged in, the tiers are still apart.
LEMMA MergedTiers ==
  ASSUME NEW on \in BOOLEAN, NEW as, NEW noId, NEW f \in File
  PROVE  OneTier(Merged(on, as, noId)[f], Seed[f])
<1> SUFFICES ASSUME NEW s \in Section, NEW k \in Key, Owned(Seed[f], s, k)
             PROVE  ~Owned(Merged(on, as, noId)[f], s, k)
  BY DEF OneTier
<1>1. Enforce[on][f][s][k] = Nothing
  BY SeededOnly
<1>2. {t \in Target : NameAt[t] = <<f, s, k>>} = {} /\ {t \in KeyTarget : TokenAt[t] = <<f, s, k>>} = {}
  BY SeededOnly
<1> QED
  BY <1>1, <1>2 DEF Merged, Owned

\* So they are in the module's own tables.
LEMMA EnforceTiers ==
  ASSUME NEW f \in File
  PROVE  Enforce[TRUE] \in [File -> Table] /\ OneTier(Enforce[TRUE][f], Seed[f])
<1>1. Enforce[TRUE] \in [File -> Table]
  BY PrepareAssumption
<1>2. ASSUME NEW s \in Section, NEW k \in Key, Owned(Seed[f], s, k)
      PROVE  Enforce[TRUE][f][s][k] = Nothing
  BY <1>2, SeededOnly
<1> QED
  BY <1>1, <1>2 DEF OneTier, Owned

\* Where nothing was resolved, every login key is removed.
LEMMA MergedRemoves ==
  ASSUME NEW on \in BOOLEAN, NEW noId, NEW at \in LoginAt
  PROVE  Merged(on, None, noId)[at[1]][at[2]][at[3]] = Remove
<1>1. at \in File \X Section \X Key
  BY PrepareAssumption DEF LoginAt, KeyTarget
<1>2. at = <<at[1], at[2], at[3]>> /\ at[1] \in File /\ at[2] \in Section /\ at[3] \in Key
  BY <1>1
<1>3. (\E t \in Target : NameAt[t] = at) \/ (\E t \in KeyTarget : TokenAt[t] = at)
  BY DEF LoginAt
<1> QED
  BY <1>2, <1>3 DEF Merged

-----------------------------------------------------------------------------
(* Type correctness.                                                       *)

\* The first state has its types.
LEMMA InitTyped == Init => TypeOK
<1> SUFFICES ASSUME Init PROVE TypeOK
  OBVIOUS
<1>1. WorldOK /\ BoundsOK
  BY PrepareAssumption DEF Init, WorldOK, BoundsOK
<1>2. FlagsOK
  BY DEF Init, FlagsOK
<1>3. \A f \in File : Blank(FormatOf[f], "absent") \in Content
  <2> SUFFICES ASSUME NEW fmt PROVE Blank(fmt, "absent") \in Content
    OBVIOUS
  <2>1. NoKeys \in Place /\ <<>> \in Seq(Place) /\ <<NoKeys>> \in Seq(Place)
    BY EmptyPlace, EmptySeq, SingletonSeq
  <2>2. Blank(fmt, "absent") \in Shape
    BY <2>1 DEF Blank, Shape
  <2>3. \A s \in Section, k \in Key : ~Present(Blank(fmt, "absent"), s, k)
    <3> SUFFICES ASSUME NEW s \in Section, NEW k \in Key
                 PROVE  ~Present(Blank(fmt, "absent"), s, k)
      OBVIOUS
    <3>1. Blank(fmt, "absent").pre[k] = <<>>
      BY DEF Blank, NoKeys
    <3>2. CASE fmt = "ini"
      <4>1. Blank(fmt, "absent").sec[s] = <<>>
        BY <3>2 DEF Blank
      <4> QED
        BY <3>1, <4>1 DEF Present
    <3>3. CASE fmt # "ini"
      <4>1. Blank(fmt, "absent").sec[s] = <<NoKeys>>
        BY <3>3 DEF Blank
      <4>2. DOMAIN <<NoKeys>> = {1} /\ <<NoKeys>>[1] = NoKeys /\ NoKeys[k] = <<>>
        BY DEF NoKeys
      <4> QED
        BY <3>1, <4>1, <4>2 DEF Present
    <3> QED
      BY <3>2, <3>3
  <2> QED
    BY <2>2, <2>3 DEF Content
<1>4. DiskOK
  BY <1>3 DEF Init, DiskOK
<1>5. RunsOK
  BY EnforceTiers, PrepareAssumption DEF Init, RunsOK, Phase, Answer, Hand
<1> QED
  BY <1>1, <1>2, <1>4, <1>5, TypeParts

\* What a run would make of a settings file is a settings file.
LEMMA AssertedTyped ==
  ASSUME DiskOK, RunsOK, NEW p \in Runner, NEW f \in File
  PROVE  Asserted(p, f) \in Content
BY EditTyped, SeedTyped DEF Asserted, DiskOK, RunsOK

\* What a run resolves has its types.
LEMMA ResolvesTyped ==
  ASSUME RunsOK, FlagsOK, NEW p \in Runner, NEW what \in Answer, NEW as \in Login \cup {None},
         Resolves(p, what, as)
  PROVE  RunsOK'
<1>1. PICK noId : tables' = [tables EXCEPT ![p] = Merged(doc[p], as, noId)]
  BY DEF Resolves
<1>2. Merged(doc[p], as, noId) \in [File -> Table]
  BY MergedTyped DEF FlagsOK
<1>3. tables' \in [Runner -> [File -> Table]]
  BY <1>1, <1>2 DEF RunsOK
<1> QED
  BY <1>3 DEF Resolves, Goes, RunsOK, Phase

\* Every step keeps the types.
LEMMA StepTyped == TypeOK /\ (\A p \in Runner : InHand(p)) /\ [Next]_vars => TypeOK'
<1> SUFFICES ASSUME DiskOK, WorldOK, RunsOK, FlagsOK, BoundsOK, \A p \in Runner : InHand(p), [Next]_vars
             PROVE  DiskOK' /\ WorldOK' /\ RunsOK' /\ FlagsOK' /\ BoundsOK'
  BY DEF TypeOK, DiskOK, WorldOK, RunsOK, FlagsOK, BoundsOK, Phase, Answer
<1> DEFINE Typed == DiskOK /\ WorldOK /\ RunsOK /\ FlagsOK /\ BoundsOK
<1>1. ASSUME NEW p \in Runner, Start(p) PROVE Typed'
  <2>1. DiskOK' /\ WorldOK'
    BY <1>1 DEF Start, DiskOK, WorldOK
  <2>2. RunsOK'
    <3>1. Merged(FALSE, None, {}) \in [File -> Table]
      BY MergedTyped
    <3>2. CASE enabled /\ Goes(p, "login") /\ UNCHANGED <<outcome, tables, todo>>
      BY <1>1, <3>2 DEF Start, Goes, RunsOK, Phase
    <3>3. CASE ~enabled /\ Goes(p, "work") /\ outcome' = [outcome EXCEPT ![p] = "off"]
               /\ tables' = [tables EXCEPT ![p] = Merged(FALSE, None, {})]
               /\ todo' = [todo EXCEPT ![p] = Item]
      BY <1>1, <3>1, <3>3 DEF Start, Goes, RunsOK, Phase, Answer
    <3> QED
      BY <1>1, <3>2, <3>3 DEF Start
  <2>3. FlagsOK'
    <3>1. enabled \in BOOLEAN /\ doc' = [doc EXCEPT ![p] = enabled]
          /\ alone' = [alone EXCEPT ![p] = TRUE]
      BY <1>1 DEF Start, WorldOK
    <3> QED
      BY <3>1 DEF FlagsOK
  <2>4. BoundsOK'
    BY <1>1, PrepareAssumption DEF Start, BoundsOK
  <2> QED
    BY <2>1, <2>2, <2>3, <2>4
<1>2. ASSUME NEW p \in Runner, CredentialsUnreadable(p) PROVE Typed'
  <2>1. DiskOK' /\ WorldOK' /\ FlagsOK' /\ BoundsOK'
    BY <1>2 DEF CredentialsUnreadable, Resolves, DiskOK, WorldOK, FlagsOK, BoundsOK
  <2>2. RunsOK'
    BY <1>2, ResolvesTyped DEF CredentialsUnreadable, Answer
  <2> QED
    BY <2>1, <2>2
<1>3. ASSUME NEW p \in Runner, Accepted(p) PROVE Typed'
  <2>1. DiskOK' /\ WorldOK' /\ FlagsOK' /\ BoundsOK'
    BY <1>3 DEF Accepted, Resolves, DiskOK, WorldOK, FlagsOK, BoundsOK
  <2>2. RunsOK'
    <3>1. <<account, <<account, serial>>>> \in Login
      BY DEF WorldOK, Login, Token
    <3> QED
      BY <1>3, <3>1, ResolvesTyped DEF Accepted, Answer
  <2> QED
    BY <2>1, <2>2
<1>4. ASSUME NEW p \in Runner, Rejected(p) PROVE Typed'
  <2>1. DiskOK' /\ WorldOK' /\ FlagsOK' /\ BoundsOK'
    BY <1>4 DEF Rejected, Resolves, DiskOK, WorldOK, FlagsOK, BoundsOK
  <2>2. RunsOK'
    BY <1>4, ResolvesTyped DEF Rejected, Answer
  <2> QED
    BY <2>1, <2>2
<1>5. ASSUME NEW p \in Runner, Unreachable(p) PROVE Typed'
  <2>1. DiskOK' /\ WorldOK' /\ FlagsOK' /\ BoundsOK'
    BY <1>5 DEF Unreachable, Resolves, DiskOK, WorldOK, FlagsOK, BoundsOK
  <2>2. RunsOK'
    <3>1. secrets[Cache] # None => <<account, secrets[Cache]>> \in Login
      BY DEF WorldOK, DiskOK, Login, Secret
    <3> QED
      BY <1>5, <3>1, ResolvesTyped DEF Unreachable, Answer
  <2> QED
    BY <2>1, <2>2
<1>6. ASSUME NEW p \in Runner, Passes(p) PROVE Typed'
  <2>1. DiskOK' /\ WorldOK' /\ FlagsOK' /\ BoundsOK'
    BY <1>6 DEF Passes, DiskOK, WorldOK, FlagsOK, BoundsOK
  <2>2. RunsOK'
    BY <1>6, PrepareAssumption DEF Passes, Passed, Goes, RunsOK, Phase, Answer, Hand
  <2> QED
    BY <2>1, <2>2
<1>7. ASSUME NEW p \in Runner, Unlink(p) PROVE Typed'
  <2>1. WorldOK' /\ BoundsOK'
    BY <1>7 DEF Unlink, WorldOK, BoundsOK
  <2>2. DiskOK'
    BY <1>7, PrepareAssumption DEF Unlink, Passed, Goes, Interferes, DiskOK
  <2>3. RunsOK'
    BY <1>7, PrepareAssumption DEF Unlink, Passed, Goes, Interferes, RunsOK, Phase, Answer, Hand
  <2>4. FlagsOK'
    BY <1>7, PrepareAssumption DEF Unlink, Passed, Goes, Interferes, FlagsOK
  <2> QED
    BY <2>1, <2>2, <2>3, <2>4
<1>8. ASSUME NEW p \in Runner, InstallSystems(p) PROVE Typed'
  <2>1. WorldOK' /\ BoundsOK'
    BY <1>8 DEF InstallSystems, WorldOK, BoundsOK
  <2>2. DiskOK'
    BY <1>8, PrepareAssumption DEF InstallSystems, Passed, Goes, Interferes, DiskOK
  <2>3. RunsOK'
    BY <1>8, PrepareAssumption DEF InstallSystems, Passed, Goes, Interferes, RunsOK, Phase, Answer, Hand
  <2>4. FlagsOK'
    BY <1>8, PrepareAssumption DEF InstallSystems, Passed, Goes, Interferes, FlagsOK
  <2> QED
    BY <2>1, <2>2, <2>3, <2>4
<1>9. ASSUME NEW p \in Runner, Stage(p) PROVE Typed'
  <2>1. DiskOK' /\ WorldOK' /\ FlagsOK' /\ BoundsOK'
    BY <1>9 DEF Stage, DiskOK, WorldOK, FlagsOK, BoundsOK
  <2>2. RunsOK'
    <3>1. PICK i \in Secret \cup File :
               /\ cur' = [cur EXCEPT ![p] = i]
               /\ next' = [next EXCEPT ![p] = IF i \in File THEN Asserted(p, i) ELSE None]
      BY <1>9 DEF Stage
    <3>2. i \in File => Asserted(p, i) \in Content
      BY AssertedTyped
    <3>3. /\ pc' = [pc EXCEPT ![p] = "staged"]
          /\ UNCHANGED <<outcome, login, tables, todo, failed>>
      BY <1>9 DEF Stage, Goes
    <3>4. cur' \in [Runner -> Hand] /\ next' \in [Runner -> Content \cup {None}]
      BY <3>1, <3>2 DEF RunsOK, Hand, Item
    <3> QED
      BY <3>3, <3>4 DEF RunsOK, Phase
  <2> QED
    BY <2>1, <2>2
<1>10. ASSUME NEW p \in Runner, Replace(p) PROVE Typed'
  <2>1. WorldOK' /\ BoundsOK'
    BY <1>10 DEF Replace, WorldOK, BoundsOK
  <2>2. DiskOK'
    <3>1. At(p, "staged") /\ cur[p] \in Secret \cup File
          /\ (cur[p] \in File => next[p] \in Content) /\ (cur[p] \in Secret => login[p] \in Login)
      BY <1>10 DEF Replace, At, InHand, RunsOK
    <3>2. cur[p] \in Secret => Wanted(p) \in Token
      <4>1. cur[p] \in Secret => login[p] # None /\ login[p][2] \in Token
        BY <3>1, PrepareAssumption DEF Login
      <4> QED
        BY <4>1 DEF Wanted
    <3>3. UNCHANGED <<systems, litter>>
      BY <1>10 DEF Replace
    <3>4. CASE cur[p] \in File /\ files' = [files EXCEPT ![cur[p]] = next[p]]
               /\ UNCHANGED <<secrets, revenant>>
      BY <3>1, <3>3, <3>4 DEF DiskOK
    <3>5. CASE cur[p] \in Secret /\ secrets' = [secrets EXCEPT ![cur[p]] = Wanted(p)]
               /\ revenant' = [revenant EXCEPT ![cur[p]] = None] /\ UNCHANGED files
      BY <3>1, <3>2, <3>3, <3>5 DEF DiskOK
    <3> QED
      BY <1>10, <3>4, <3>5 DEF Replace
  <2>3. RunsOK'
    BY <1>10, PrepareAssumption DEF Replace, Passed, Goes, Interferes, RunsOK, Phase, Answer, Hand
  <2>4. FlagsOK'
    BY <1>10, PrepareAssumption DEF Replace, Passed, Goes, Interferes, FlagsOK
  <2> QED
    BY <2>1, <2>2, <2>3, <2>4
<1>11. ASSUME NEW p \in Runner, CannotWrite(p) PROVE Typed'
  <2>1. DiskOK' /\ WorldOK' /\ FlagsOK'
    BY <1>11 DEF CannotWrite, Fails, DiskOK, WorldOK, FlagsOK
  <2>2. RunsOK'
    <3>1. PICK i \in Item : Fails(p, i)
      BY <1>11 DEF CannotWrite, At, InHand, Item
    <3> QED
      BY <1>11, <3>1 DEF CannotWrite, Fails, Passed, Goes, RunsOK, Phase, Hand
  <2>3. BoundsOK'
    BY <1>11, PrepareAssumption DEF CannotWrite, Fails, Passed, Goes, BoundsOK
  <2> QED
    BY <2>1, <2>2, <2>3
<1>12. ASSUME NEW p \in Runner, Ends(p) PROVE Typed'
  <2>1. DiskOK' /\ WorldOK' /\ BoundsOK'
    BY <1>12 DEF Ends, DiskOK, WorldOK, BoundsOK
  <2>2. RunsOK'
    BY <1>12, PrepareAssumption DEF Ends, Goes, Forgets, RunsOK, Phase, Answer, Hand
  <2>3. FlagsOK'
    BY <1>12, PrepareAssumption DEF Ends, Goes, Forgets, FlagsOK
  <2> QED
    BY <2>1, <2>2, <2>3
<1>13. ASSUME NEW p \in Runner, Dies(p) PROVE Typed'
  <2>1. WorldOK'
    BY <1>13 DEF Dies, Gone, WorldOK
  <2>2. DiskOK'
    BY <1>13, PrepareAssumption DEF Dies, Gone, Forgets, DiskOK
  <2>3. RunsOK'
    BY <1>13, PrepareAssumption DEF Dies, Gone, Forgets, RunsOK, Phase, Answer, Hand
  <2>4. FlagsOK'
    BY <1>13, PrepareAssumption DEF Dies, Gone, Forgets, FlagsOK
  <2>5. BoundsOK'
    BY <1>13, PrepareAssumption DEF Dies, Gone, Forgets, BoundsOK
  <2> QED
    BY <2>1, <2>2, <2>3, <2>4, <2>5
<1>14. ASSUME PowerLoss PROVE Typed'
  <2>1. WorldOK'
    BY <1>14 DEF PowerLoss, Gone, WorldOK
  <2>2. DiskOK'
    BY <1>14, PrepareAssumption DEF PowerLoss, Gone, Forgets, DiskOK
  <2>3. RunsOK'
    BY <1>14, PrepareAssumption DEF PowerLoss, Gone, Forgets, RunsOK, Phase, Answer, Hand
  <2>4. FlagsOK'
    BY <1>14, PrepareAssumption DEF PowerLoss, Gone, Forgets, FlagsOK
  <2>5. BoundsOK'
    BY <1>14, PrepareAssumption DEF PowerLoss, Gone, Forgets, BoundsOK
  <2> QED
    BY <2>1, <2>2, <2>3, <2>4, <2>5
<1>15. ASSUME EmulatorSaves PROVE Typed'
  <2>1. WorldOK' /\ RunsOK'
    BY <1>15 DEF EmulatorSaves, WorldOK, RunsOK
  <2>2. DiskOK'
    <3>1. PICK f \in File : \E g \in Draft[f] : files' = [files EXCEPT ![f] = g]
      BY <1>15 DEF EmulatorSaves
    <3>2. Draft[f] \subseteq Content
      BY PrepareAssumption
    <3>3. UNCHANGED <<secrets, revenant, systems, litter>>
      BY <1>15 DEF EmulatorSaves
    <3> QED
      BY <3>1, <3>2, <3>3 DEF DiskOK
  <2>3. FlagsOK'
    BY <1>15, PrepareAssumption DEF EmulatorSaves, FlagsOK
  <2>4. BoundsOK'
    BY <1>15, PrepareAssumption DEF EmulatorSaves, BoundsOK
  <2> QED
    BY <2>1, <2>2, <2>3, <2>4
<1>16. ASSUME Rebuild PROVE Typed'
  <2>1. DiskOK' /\ RunsOK' /\ FlagsOK'
    BY <1>16 DEF Rebuild, DiskOK, RunsOK, FlagsOK
  <2>2. WorldOK'
    BY <1>16, PrepareAssumption DEF Rebuild, WorldOK
  <2>3. BoundsOK'
    BY <1>16, PrepareAssumption DEF Rebuild, BoundsOK
  <2> QED
    BY <2>1, <2>2, <2>3
<1>17. ASSUME AccountChanges PROVE Typed'
  <2>1. DiskOK' /\ RunsOK' /\ FlagsOK' /\ BoundsOK'
    BY <1>17 DEF AccountChanges, DiskOK, RunsOK, FlagsOK, BoundsOK
  <2>2. WorldOK'
    BY <1>17, PrepareAssumption DEF AccountChanges, WorldOK
  <2> QED
    BY <2>1, <2>2
<1>18. CASE UNCHANGED vars
  BY <1>18 DEF vars, DiskOK, WorldOK, RunsOK, FlagsOK, BoundsOK
<1> QED
  BY <1>1, <1>2, <1>3, <1>4, <1>5, <1>6, <1>7, <1>8, <1>9, <1>10, <1>11, <1>12, <1>13, <1>14, <1>15, <1>16, <1>17, <1>18 DEF Next, Work

-----------------------------------------------------------------------------
(* The invariant: who is not taking the step.                              *)

\* A run that the step leaves as it was, and that is no longer alone if the disk is not.
Untouched(q) ==
  /\ pc'[q] = pc[q] /\ outcome'[q] = outcome[q] /\ login'[q] = login[q] /\ tables'[q] = tables[q]
  /\ todo'[q] = todo[q] /\ cur'[q] = cur[q] /\ next'[q] = next[q] /\ failed'[q] = failed[q]
  /\ alone'[q] => alone[q] /\ UNCHANGED <<files, secrets, systems>>

\* Such a run keeps its invariant.
LEMMA UntouchedKeeps ==
  ASSUME NEW q \in Runner, RunInv(q), Untouched(q)
  PROVE  RunInv(q)'
<1>1. InHand(q)'
  BY DEF RunInv, InHand, Untouched
<1>2. Declaring(q)'
  BY DEF RunInv, Declaring, Untouched
<1>3. Answered(q)'
  BY DEF RunInv, Answered, Untouched
<1>4. Settles(q)'
  BY DEF RunInv, Settles, Untouched, Behind, Asserted, Wanted
<1> QED
  BY <1>1, <1>2, <1>3, <1>4 DEF RunInv

\* A run that is over, or was cut short, has nothing in hand.
LEMMA GoneKeeps ==
  ASSUME NEW q \in Runner, pc'[q] = "idle", ~alone'[q], login'[q] = None,
         tables'[q] = Enforce[TRUE]
  PROVE  RunInv(q)'
<1>1. InHand(q)' /\ Answered(q)' /\ Settles(q)'
  BY DEF InHand, Answered, Settles, Working
<1>2. Declaring(q)'
  BY EnforceTiers DEF Declaring, Working
<1> QED
  BY <1>1, <1>2 DEF RunInv

\* A run that interferes leaves no other one alone.
LEMMA InterferesMarks ==
  ASSUME RunsOK, FlagsOK, NEW p \in Runner, Interferes(p), NEW q \in Runner \ {p}, RunInv(q)
  PROVE  ~alone'[q]
BY DEF Interferes, Busy, RunInv, InHand

-----------------------------------------------------------------------------
(* The invariant: who is.                                                  *)

\* A run starts with nothing behind it.
LEMMA StartKeeps ==
  ASSUME TypeOK, NEW p \in Runner, RunInv(p), Start(p)
  PROVE  RunInv(p)' /\ \A q \in Runner \ {p} : Untouched(q)
<1> USE TypeParts
<1>1. ASSUME NEW q \in Runner \ {p} PROVE Untouched(q)
  BY DEF Start, Goes, Untouched, RunsOK, FlagsOK
<1>2. login'[p] = None
  BY DEF Start, At, RunInv, InHand
<1>3. CASE pc' = [pc EXCEPT ![p] = "login"] /\ UNCHANGED tables
  <2>1. pc'[p] = "login" /\ tables'[p] = tables[p]
    BY <1>3 DEF RunsOK
  <2> QED
    BY <1>1, <1>2, <2>1 DEF RunInv, InHand, Declaring, Answered, Settles, Working
<1>4. CASE /\ pc' = [pc EXCEPT ![p] = "work"] /\ outcome' = [outcome EXCEPT ![p] = "off"]
           /\ tables' = [tables EXCEPT ![p] = Merged(FALSE, None, {})]
           /\ todo' = [todo EXCEPT ![p] = Item]
  <2>1. /\ pc'[p] = "work" /\ outcome'[p] = "off" /\ tables'[p] = Merged(FALSE, None, {})
        /\ todo'[p] = Item
    BY <1>4 DEF RunsOK
  <2>2. InHand(p)' /\ Answered(p)'
    BY <1>2, <2>1 DEF InHand, Answered
  <2>3. Declaring(p)'
    BY <2>1, MergedTiers, MergedRemoves DEF Declaring
  <2>4. Settles(p)'
    BY <2>1 DEF Settles, Behind, Item, Secret
  <2> QED
    BY <1>1, <2>2, <2>3, <2>4 DEF RunInv
<1> QED
  BY <1>1, <1>3, <1>4 DEF Start, Goes

\* What a login comes to: an item that the run will not touch is the cache, and then it is as it
\* was read.
LEMMA ResolvesKeeps ==
  ASSUME TypeOK, NEW p \in Runner, RunInv(p), NEW what, NEW as \in Login \cup {None},
         Resolves(p, what, as),
         as # None => what \in {"success", "unreachable"},
         what = "success" => as # None,
         what \in {"unread", "success", "rejected", "unreachable"},
         what = "unreachable" => secrets[Cache] = IF as = None THEN None ELSE as[2]
  PROVE  RunInv(p)' /\ \A q \in Runner \ {p} : Untouched(q)
<1> USE TypeParts
<1>1. ASSUME NEW q \in Runner \ {p} PROVE Untouched(q)
  BY DEF Resolves, Goes, Untouched, RunsOK, FlagsOK
<1>2. PICK noId : tables' = [tables EXCEPT ![p] = Merged(doc[p], as, noId)]
  BY DEF Resolves
<1>3. /\ pc'[p] = "work" /\ outcome'[p] = what /\ tables'[p] = Merged(doc[p], as, noId)
      /\ login'[p] = as /\ UNCHANGED secrets
      /\ todo'[p] = IF what \in {"success", "rejected"} THEN Item ELSE Item \ {Cache}
  BY <1>2 DEF Resolves, Goes, RunsOK
<1>4. InHand(p)' /\ Answered(p)'
  BY <1>3 DEF InHand, Answered
<1>5. Declaring(p)'
  <2>1. doc[p] \in BOOLEAN
    BY DEF FlagsOK
  <2>2. \A f \in File : OneTier(tables'[p][f], Seed[f])
    BY <1>3, <2>1, MergedTiers
  <2>3. as = None => \A at \in LoginAt : tables'[p][at[1]][at[2]][at[3]] = Remove
    BY <1>3, <2>1, MergedRemoves
  <2> QED
    BY <1>3, <2>2, <2>3 DEF Declaring
<1>6. Settles(p)'
  <2>1. Item \ {Cache} \subseteq todo'[p] /\ (todo'[p] = Item \/ what \in {"unread", "unreachable"})
    BY <1>3
  <2>2. File \cup SecretTarget \cup {Systems} \subseteq Item \ {Cache} /\ Cache \in Item
    BY PrepareAssumption DEF Item, Secret
  <2> QED
    BY <1>3, <2>1, <2>2 DEF Settles, Behind, Wanted
<1> QED
  BY <1>1, <1>4, <1>5, <1>6 DEF RunInv

\* The kinds of items are apart.
LEMMA ItemsApart ==
  /\ Secret \cap File = {} /\ Systems \notin Secret \cup File /\ Cache \in Secret
  /\ Cache \notin SecretTarget /\ SecretTarget \subseteq Secret /\ None \notin Login
BY PrepareAssumption DEF Secret

\* Once an item has had its turn, it is as the run declares it, or could not be written.
LEMMA PassedKeeps ==
  ASSUME TypeOK, NEW p \in Runner, RunInv(p), pc[p] \in {"work", "staged"},
         NEW i \in todo[p], Passed(p, i),
         UNCHANGED <<outcome, login, tables>>, alone'[p] => alone[p],
         failed'[p] \in {failed[p], failed[p] \cup {i}},
         \A f \in File : f # i => files'[f] = files[f],
         \A c \in Secret : c # i => secrets'[c] = secrets[c],
         i # Systems => systems' = systems,
         i \in failed'[p] \/ (alone'[p] => Holds(p, i)')
  PROVE  RunInv(p)'
<1> USE TypeParts
<1>1. /\ todo'[p] = todo[p] \ {i} /\ pc'[p] \in {"work", "done"}
      /\ pc'[p] = "done" => todo'[p] = {}
  BY DEF Passed, Goes, RunsOK
<1>2. InHand(p)' /\ Declaring(p)' /\ Answered(p)'
  BY <1>1 DEF RunInv, InHand, Declaring, Answered, Working
<1>3. Settles(p)'
  <2>1. SUFFICES ASSUME alone'[p]
                 PROVE  /\ \A f \in File : Behind(p, f)' => Asserted(p, f)' = files'[f]
                        /\ \A c \in SecretTarget : Behind(p, c)' => secrets'[c] = Wanted(p)'
                        /\ (Behind(p, Cache)' /\ outcome'[p] # "unread") =>
                             secrets'[Cache] = Wanted(p)'
                        /\ Behind(p, Systems)' =>
                             systems' = (IF SystemsDeclared THEN "wanted" ELSE "absent")
    BY <1>1 DEF Settles
  <2>2. /\ \A f \in File : Behind(p, f) => Asserted(p, f) = files[f]
        /\ \A c \in SecretTarget : Behind(p, c) => secrets[c] = Wanted(p)
        /\ Behind(p, Cache) /\ outcome[p] # "unread" => secrets[Cache] = Wanted(p)
        /\ Behind(p, Systems) => systems = (IF SystemsDeclared THEN "wanted" ELSE "absent")
    BY <2>1 DEF RunInv, Settles, Working
  <2>3. \A x \in Item : Behind(p, x)' => \/ x = i /\ Holds(p, i)'
                                         \/ x # i /\ Behind(p, x)
    BY <1>1, <2>1 DEF Behind
  <2>4. Wanted(p)' = Wanted(p)
    BY DEF Wanted
  <2>5. \A f \in File : Behind(p, f)' => Asserted(p, f)' = files'[f]
    <3> SUFFICES ASSUME NEW f \in File, Behind(p, f)' PROVE Asserted(p, f)' = files'[f]
      OBVIOUS
    <3>1. CASE f = i
      BY <3>1, <2>3, ItemsApart DEF Holds, Item
    <3>2. CASE f # i
      <4>1. Asserted(p, f)' = Asserted(p, f) /\ files'[f] = files[f]
        BY <3>2 DEF Asserted
      <4> QED
        BY <4>1, <3>2, <2>2, <2>3 DEF Item
    <3> QED
      BY <3>1, <3>2
  <2>6. \A c \in Secret : Behind(p, c)' =>
          secrets'[c] = Wanted(p)' \/ (c # i /\ Behind(p, c) /\ secrets'[c] = secrets[c])
    BY <2>3, ItemsApart DEF Holds, Item
  <2>7. Behind(p, Systems)' => systems' = (IF SystemsDeclared THEN "wanted" ELSE "absent")
    BY <2>2, <2>3, ItemsApart DEF Holds, Item
  <2> QED
    BY <2>2, <2>4, <2>5, <2>6, <2>7, ItemsApart
<1> QED
  BY <1>2, <1>3 DEF RunInv

\* What is there already needs no write.
LEMMA PassesKeeps ==
  ASSUME TypeOK, NEW p \in Runner, RunInv(p), Passes(p)
  PROVE  RunInv(p)' /\ \A q \in Runner \ {p} : Untouched(q)
<1> USE TypeParts
<1>1. PICK i \in todo[p] : Holds(p, i) /\ Passed(p, i)
  BY DEF Passes
<1>2. Holds(p, i)'
  BY <1>1 DEF Passes, Holds, Asserted, Wanted
<1>3. RunInv(p)'
  BY <1>1, <1>2, PassedKeeps DEF Passes, At
<1> QED
  BY <1>1, <1>3 DEF Passes, Passed, Goes, Untouched, RunsOK

\* A credential file is taken away only where nothing was resolved.
LEMMA UnlinkKeeps ==
  ASSUME TypeOK, NEW p \in Runner, \A q \in Runner : RunInv(q), Unlink(p)
  PROVE  RunInv(p)' /\ \A q \in Runner \ {p} : Untouched(q)
<1> USE TypeParts
<1>1. PICK i \in Secret : /\ i \in todo[p] /\ Wanted(p) = None /\ Passed(p, i)
                          /\ secrets' = [secrets EXCEPT ![i] = None]
  BY DEF Unlink, Turn
<1>2. Holds(p, i)'
  BY <1>1 DEF Unlink, Holds, Wanted, DiskOK
<1>3. /\ pc[p] = "work" /\ UNCHANGED <<files, systems, outcome, login, tables, failed, cur, next>>
      /\ \A c \in Secret : c # i => secrets'[c] = secrets[c]
      /\ i # Systems /\ i \notin File
  BY <1>1, ItemsApart DEF Unlink, At, DiskOK
<1>4. alone'[p] => alone[p]
  BY DEF Unlink, Interferes
<1>5. RunInv(p)'
  BY <1>1, <1>2, <1>3, <1>4, PassedKeeps
<1>6. \A q \in Runner \ {p} : ~alone'[q]
  BY InterferesMarks DEF Unlink
<1> QED
  BY <1>1, <1>3, <1>5, <1>6 DEF Passed, Goes, Untouched, RunsOK

\* The custom systems come last.
LEMMA InstallKeeps ==
  ASSUME TypeOK, NEW p \in Runner, \A q \in Runner : RunInv(q), InstallSystems(p)
  PROVE  RunInv(p)' /\ \A q \in Runner \ {p} : Untouched(q)
<1> USE TypeParts
<1>1. Systems \in todo[p] /\ Passed(p, Systems)
  BY DEF InstallSystems, Turn
<1>2. Holds(p, Systems)'
  BY DEF InstallSystems, Holds
<1>3. pc[p] = "work" /\ UNCHANGED <<files, secrets, outcome, login, tables, failed, cur, next>>
  BY DEF InstallSystems, At
<1>4. alone'[p] => alone[p]
  BY DEF InstallSystems, Interferes
<1>5. RunInv(p)'
  BY <1>1, <1>2, <1>3, <1>4, PassedKeeps
<1>6. \A q \in Runner \ {p} : ~alone'[q]
  BY InterferesMarks DEF InstallSystems
<1> QED
  BY <1>1, <1>3, <1>5, <1>6 DEF Passed, Goes, Untouched, RunsOK

\* What is staged is what the run would make of the file.
LEMMA StageKeeps ==
  ASSUME TypeOK, NEW p \in Runner, RunInv(p), Stage(p)
  PROVE  RunInv(p)' /\ \A q \in Runner \ {p} : Untouched(q)
<1> USE TypeParts
<1>1. PICK i \in Secret \cup File :
           /\ i \in todo[p] /\ (i \in Secret => Wanted(p) # None)
           /\ cur' = [cur EXCEPT ![p] = i]
           /\ next' = [next EXCEPT ![p] = IF i \in File THEN Asserted(p, i) ELSE None]
  BY DEF Stage, Turn
<1>2. /\ cur'[p] = i /\ next'[p] = (IF i \in File THEN Asserted(p, i) ELSE None)
      /\ pc[p] = "work" /\ pc'[p] = "staged"
      /\ UNCHANGED <<files, secrets, systems, outcome, login, tables, todo, failed, alone>>
  BY <1>1 DEF Stage, Goes, At, RunsOK
<1>3. i \in File => Asserted(p, i) \in Content
  BY AssertedTyped
<1>4. InHand(p)'
  BY <1>1, <1>2, <1>3 DEF InHand, Wanted
<1>5. Declaring(p)' /\ Answered(p)'
  BY <1>2 DEF RunInv, Declaring, Answered, Working
<1>6. Settles(p)'
  BY <1>2 DEF RunInv, Settles, Working, Behind, Asserted, Wanted
<1>7. \A q \in Runner \ {p} : Untouched(q)
  BY <1>1 DEF Stage, Goes, Untouched, RunsOK
<1> QED
  BY <1>4, <1>5, <1>6, <1>7 DEF RunInv

\* What takes a settings file's place is what the run would make of it, and stays that: an editor
\* finds nothing to do in its own work.
LEMMA ReplaceKeeps ==
  ASSUME TypeOK, NEW p \in Runner, \A q \in Runner : RunInv(q), Replace(p)
  PROVE  RunInv(p)' /\ \A q \in Runner \ {p} : Untouched(q)
<1> USE TypeParts
<1>1. PICK i \in todo[p] :
           /\ i = cur[p] /\ pc[p] = "staged" /\ i \in Secret \cup File /\ Passed(p, i)
           /\ UNCHANGED <<systems, outcome, login, tables, failed>>
           /\ i \in Secret => login[p] # None
  BY DEF Replace, At, RunInv, InHand
<1>2. alone'[p] => alone[p]
  BY DEF Replace, Interferes
<1>3. ASSUME i \in File, files' = [files EXCEPT ![i] = next[p]], UNCHANGED secrets
      PROVE  RunInv(p)'
  <2>1. files'[i] = next[p] /\ \A f \in File : f # i => files'[f] = files[f]
    BY <1>3 DEF DiskOK
  <2>2. ASSUME alone'[p] PROVE Holds(p, i)'
    <3>1. next[p] = Asserted(p, i)
      BY <1>1, <1>2, <1>3, <2>2 DEF RunInv, Settles, Working
    <3>2. files[i] \in Content /\ tables[p][i] \in Table /\ OneTier(tables[p][i], Seed[i])
      BY <1>3 DEF DiskOK, RunsOK, RunInv, Declaring
    <3>3. Edit(FormatOf[i], files'[i], tables[p][i], Seed[i]) = files'[i]
      BY <2>1, <3>1, <3>2, <1>3, SeedTyped, EditIsIdempotent DEF Asserted
    <3> QED
      BY <3>3, <1>1, <1>3 DEF Holds, Asserted
  <2>3. /\ RunInv(p) /\ pc[p] \in {"work", "staged"} /\ UNCHANGED <<outcome, login, tables>>
        /\ failed'[p] = failed[p] /\ systems' = systems
        /\ \A c \in Secret : secrets'[c] = secrets[c]
    BY <1>1, <1>3
  <2> QED
    BY <1>1, <1>2, <2>1, <2>2, <2>3, PassedKeeps
<1>4. ASSUME i \in Secret, secrets' = [secrets EXCEPT ![i] = Wanted(p)], UNCHANGED files
      PROVE  RunInv(p)'
  <2>1. secrets'[i] = Wanted(p) /\ \A c \in Secret : c # i => secrets'[c] = secrets[c]
    BY <1>4 DEF DiskOK
  <2>2. Holds(p, i)'
    BY <1>1, <1>4, <2>1 DEF Holds, Wanted
  <2>3. /\ RunInv(p) /\ pc[p] \in {"work", "staged"} /\ UNCHANGED <<outcome, login, tables>>
        /\ failed'[p] = failed[p] /\ systems' = systems
        /\ \A f \in File : files'[f] = files[f]
    BY <1>1, <1>4
  <2> QED
    BY <1>1, <1>2, <2>1, <2>2, <2>3, PassedKeeps
<1>5. \A q \in Runner \ {p} : ~alone'[q]
  BY InterferesMarks DEF Replace
<1>6. \A q \in Runner \ {p} : Untouched(q)
  BY <1>5 DEF Replace, Passed, Goes, Untouched, RunsOK
<1> QED
  BY <1>1, <1>3, <1>4, <1>6 DEF Replace

\* What could not be written leaves the disk as it was.
LEMMA CannotWriteKeeps ==
  ASSUME TypeOK, NEW p \in Runner, RunInv(p), CannotWrite(p)
  PROVE  RunInv(p)' /\ \A q \in Runner \ {p} : Untouched(q)
<1> USE TypeParts
<1>1. PICK i \in todo[p] : pc[p] \in {"work", "staged"} /\ Fails(p, i)
  BY DEF CannotWrite, At, Turn, RunInv, InHand
<1>2. Passed(p, i) /\ failed'[p] = failed[p] \cup {i}
      /\ \A q \in Runner \ {p} : failed'[q] = failed[q]
  BY <1>1 DEF Fails, RunsOK
<1>3. UNCHANGED <<files, secrets, systems, outcome, login, tables, alone>>
  BY DEF CannotWrite
<1>4. RunInv(p)'
  BY <1>1, <1>2, <1>3, PassedKeeps
<1>5. \A q \in Runner \ {p} : cur'[q] = cur[q] /\ next'[q] = next[q]
  BY DEF CannotWrite, RunsOK
<1> QED
  BY <1>2, <1>3, <1>4, <1>5 DEF Passed, Goes, Untouched, RunsOK

-----------------------------------------------------------------------------
(* The invariant.                                                          *)

\* At first, no run is under way.
LEMMA InitRuns == Init => \A p \in Runner : RunInv(p)
<1> SUFFICES ASSUME Init, NEW p \in Runner PROVE RunInv(p)
  OBVIOUS
<1>1. /\ pc[p] = "idle" /\ ~alone[p] /\ login[p] = None /\ tables[p] = Enforce[TRUE]
  BY DEF Init
<1>2. InHand(p) /\ Answered(p) /\ Settles(p)
  BY <1>1 DEF InHand, Answered, Settles, Working
<1>3. Declaring(p)
  BY <1>1, EnforceTiers DEF Declaring, Working
<1> QED
  BY <1>2, <1>3 DEF RunInv

\* Every step keeps the invariant of every run: one step of the proof for each action.
LEMMA StepKeeps == PrepareInv /\ [Next]_vars => (\A p \in Runner : RunInv(p))'
<1> SUFFICES ASSUME TypeOK, \A p \in Runner : RunInv(p), [Next]_vars,
                    NEW q \in Runner
             PROVE  RunInv(q)'
  BY DEF PrepareInv
<1> USE TypeParts
<1>1. ASSUME NEW p \in Runner, Start(p) PROVE RunInv(q)'
  BY <1>1, StartKeeps, UntouchedKeeps
<1>2. ASSUME NEW p \in Runner, CredentialsUnreadable(p) PROVE RunInv(q)'
  <2>1. RunInv(p)' /\ \A x \in Runner \ {p} : Untouched(x)
    BY <1>2, ResolvesKeeps DEF CredentialsUnreadable
  <2> QED
    BY <2>1, UntouchedKeeps
<1>3. ASSUME NEW p \in Runner, Accepted(p) PROVE RunInv(q)'
  <2>1. <<account, <<account, serial>>>> \in Login
    BY DEF WorldOK, Login, Token
  <2>2. RunInv(p)' /\ \A x \in Runner \ {p} : Untouched(x)
    BY <1>3, <2>1, ItemsApart, ResolvesKeeps DEF Accepted
  <2> QED
    BY <2>2, UntouchedKeeps
<1>4. ASSUME NEW p \in Runner, Rejected(p) PROVE RunInv(q)'
  <2>1. RunInv(p)' /\ \A x \in Runner \ {p} : Untouched(x)
    BY <1>4, ResolvesKeeps DEF Rejected
  <2> QED
    BY <2>1, UntouchedKeeps
<1>5. ASSUME NEW p \in Runner, Unreachable(p) PROVE RunInv(q)'
  <2> DEFINE as == IF secrets[Cache] = None THEN None ELSE <<account, secrets[Cache]>>
  <2>1. as \in Login \cup {None} /\ (secrets[Cache] # None => as \in Login)
    BY DEF WorldOK, DiskOK, Login, Secret
  <2>2. secrets[Cache] = IF as = None THEN None ELSE as[2]
    BY <2>1, ItemsApart
  <2>3. Resolves(p, "unreachable", as)
    BY <1>5 DEF Unreachable
  <2> HIDE DEF as
  <2>4. RunInv(p)' /\ \A x \in Runner \ {p} : Untouched(x)
    BY <2>1, <2>2, <2>3, ResolvesKeeps
  <2> QED
    BY <2>4, UntouchedKeeps
<1>6. ASSUME NEW p \in Runner, Passes(p) PROVE RunInv(q)'
  BY <1>6, PassesKeeps, UntouchedKeeps
<1>7. ASSUME NEW p \in Runner, Unlink(p) PROVE RunInv(q)'
  BY <1>7, UnlinkKeeps, UntouchedKeeps
<1>8. ASSUME NEW p \in Runner, InstallSystems(p) PROVE RunInv(q)'
  BY <1>8, InstallKeeps, UntouchedKeeps
<1>9. ASSUME NEW p \in Runner, Stage(p) PROVE RunInv(q)'
  BY <1>9, StageKeeps, UntouchedKeeps
<1>10. ASSUME NEW p \in Runner, Replace(p) PROVE RunInv(q)'
  BY <1>10, ReplaceKeeps, UntouchedKeeps
<1>11. ASSUME NEW p \in Runner, CannotWrite(p) PROVE RunInv(q)'
  BY <1>11, CannotWriteKeeps, UntouchedKeeps
<1>12. ASSUME NEW ps \in SUBSET Runner, Forgets(ps), NEW r \in ps, pc'[r] = "idle"
       PROVE  RunInv(r)'
  <2>1. /\ alone'[r] = (r \notin ps /\ alone[r]) /\ login'[r] = None
        /\ tables'[r] = Enforce[TRUE]
    BY <1>12 DEF Forgets
  <2> QED
    BY <1>12, <2>1, GoneKeeps
<1>13. ASSUME NEW p \in Runner, Ends(p) PROVE RunInv(q)'
  <2>1. CASE q = p
    <3>1. Forgets({p}) /\ pc'[p] = "idle"
      BY <1>13 DEF Ends, Goes, RunsOK
    <3> QED
      BY <2>1, <3>1, <1>12
  <2>2. CASE q # p
    <3>1. Untouched(q)
      BY <1>13, <2>2 DEF Ends, Goes, Forgets, Untouched, RunsOK
    <3> QED
      BY <3>1, UntouchedKeeps
  <2> QED
    BY <2>1, <2>2
<1>14. ASSUME NEW p \in Runner, Dies(p) PROVE RunInv(q)'
  <2>1. CASE q = p
    <3>1. Forgets({p}) /\ pc'[p] = "idle"
      BY <1>14 DEF Dies, Gone
    <3> QED
      BY <2>1, <3>1, <1>12
  <2>2. CASE q # p
    <3>1. Untouched(q)
      BY <1>14, <2>2 DEF Dies, Gone, Forgets, Untouched, RunsOK
    <3> QED
      BY <3>1, UntouchedKeeps
  <2> QED
    BY <2>1, <2>2
<1>15. CASE PowerLoss
  <2>1. Forgets(Runner) /\ pc'[q] = "idle"
    BY <1>15 DEF PowerLoss, Gone
  <2> QED
    BY <2>1, <1>12
<1>16. CASE EmulatorSaves
  <2>1. ~alone'[q]
    BY <1>16 DEF EmulatorSaves
  <2>2. Untouched(q)
    BY <1>16, <2>1 DEF EmulatorSaves, Untouched
  <2> QED
    BY <2>2, UntouchedKeeps
<1>17. CASE Rebuild \/ AccountChanges \/ UNCHANGED vars
  <2>1. Untouched(q)
    BY <1>17 DEF Rebuild, AccountChanges, vars, Untouched
  <2> QED
    BY <2>1, UntouchedKeeps
<1> QED
  BY <1>1, <1>2, <1>3, <1>4, <1>5, <1>6, <1>7, <1>8, <1>9, <1>10, <1>11, <1>13, <1>14, <1>15,
     <1>16, <1>17 DEF Next, Work

\* The invariant holds of every behaviour.
THEOREM InvariantHolds == Spec => []PrepareInv
<1>1. Init => PrepareInv
  BY InitTyped, InitRuns DEF PrepareInv
<1>2. PrepareInv /\ [Next]_vars => PrepareInv'
  BY StepTyped, StepKeeps DEF PrepareInv, RunInv
<1> QED
  BY <1>1, <1>2, PTL DEF Spec

-----------------------------------------------------------------------------
(* What a run promises.                                                    *)

\* Every variable keeps its type, whatever files, tables and targets are declared.
THEOREM TypeCorrect == Spec => []TypeOK
BY InvariantHolds, PTL DEF PrepareInv

\* A run that is over has everything behind it but what it could not write.
LEMMA OverSettles ==
  ASSUME PrepareInv, NEW p \in Runner, Over(p)
  PROVE  /\ \A f \in File \ failed[p] : Asserted(p, f) = files[f]
         /\ \A c \in SecretTarget \ failed[p] : secrets[c] = Wanted(p)
         /\ Cache \notin failed[p] /\ outcome[p] # "unread" => secrets[Cache] = Wanted(p)
         /\ Systems \notin failed[p] =>
              systems = (IF SystemsDeclared THEN "wanted" ELSE "absent")
<1>1. pc[p] = "done" /\ alone[p] /\ todo[p] = {} /\ Settles(p)
  BY DEF PrepareInv, RunInv, InHand, Over, At
<1> QED
  BY <1>1 DEF Settles, Behind, Working

\* A settings file that a run made has everything it declares.
LEMMA OverDeclares ==
  ASSUME PrepareInv, NEW p \in Runner, Over(p), NEW f \in File \ failed[p]
  PROVE  Declares(files[f], Applied(FormatOf[f], tables[p][f]), Applied(FormatOf[f], Seed[f]))
<1>1. /\ files[f] \in Content /\ tables[p][f] \in Table /\ OneTier(tables[p][f], Seed[f])
  BY TypeParts DEF PrepareInv, RunInv, Declaring, DiskOK, RunsOK
<1>2. Edit(FormatOf[f], files[f], tables[p][f], Seed[f]) = files[f]
  BY OverSettles DEF Asserted
<1> QED
  BY <1>1, <1>2, SeedTyped, EditDeclares

\* Each settings file of a run that met no interference is as the run declares it.
THEOREM DeliveredHolds == Spec => []Delivered
<1>1. PrepareInv => Delivered
  BY OverSettles, OverDeclares DEF Delivered
<1> QED
  BY <1>1, InvariantHolds, PTL

\* Such a run, run again, would write no settings file.
THEOREM QuietHolds == Spec => []Quiet
<1>1. PrepareInv => Quiet
  BY OverSettles DEF Quiet
<1> QED
  BY <1>1, InvariantHolds, PTL

\* A login that was resolved is in the credential files that could be written.
THEOREM LoginKeptHolds == Spec => []LoginKept
<1>1. ASSUME PrepareInv, NEW p \in Runner, Over(p), login[p] # None
      PROVE  \A c \in Secret \ failed[p] : secrets[c] = login[p][2]
  <2>1. outcome[p] \in {"success", "unreachable"}
    BY <1>1 DEF PrepareInv, RunInv, Answered, Over, At, Working
  <2> QED
    BY <1>1, <2>1, OverSettles DEF Wanted, Secret
<1>2. PrepareInv => LoginKept
  BY <1>1 DEF LoginKept
<1> QED
  BY <1>2, InvariantHolds, PTL

\* What an editor leaves of a file it owns a key of can be read, or is no file.
LEMMA EditIsNoJunk ==
  ASSUME NEW fmt, NEW f, NEW e, NEW d, NEW s \in Section, NEW k \in Key,
         Applied(fmt, e)[s][k] = Remove
  PROVE  Edit(fmt, f, e, d).kind # "junk"
<1> DEFINE x == Applied(fmt, e)
           y == Applied(fmt, d)
           h == Headers(fmt, e, d)
<1>1. ~OwnsNone(x)
  BY OwnedFileAssumption DEF OwnsNone, Owned
<1>2. Edit(fmt, f, e, d) = Assert(h, f, x, y)
  BY DEF Edit
<1>3. CASE Readable(f)
  <2>1. InPlace(f, x, y).kind = "text"
    BY <1>3 DEF InPlace, Seeded, Readable
  <2> QED
    BY <1>1, <1>2, <1>3, <2>1 DEF Assert
<1>4. CASE ~Readable(f)
  <2>1. CASE ValuesNone(x) /\ ValuesNone(y) /\ ~HoldsSomething(f)
    BY <1>1, <1>2, <1>4, <2>1 DEF Assert, HoldsSomething
  <2>2. CASE ~(ValuesNone(x) /\ ValuesNone(y) /\ ~HoldsSomething(f))
    <3>1. Edit(fmt, f, e, d) = Recreated(h, x, y)
      BY <1>1, <1>2, <1>4, <2>2 DEF Assert
    <3> QED
      BY <3>1 DEF Recreated
  <2> QED
    BY <2>1, <2>2
<1> QED
  BY <1>3, <1>4

\* A run that resolved no login leaves no credential in what it could write, and none in the cache
\* if the service rejected the login or the feature is off.
THEOREM NoLoginLeftHolds == Spec => []NoLoginLeft
<1>1. ASSUME PrepareInv, NEW p \in Runner, Over(p), login[p] = None, NEW f \in File \ failed[p]
      PROVE  ~Bears(f, files[f])
  <2> SUFFICES ASSUME NEW at \in LoginAt, at[1] = f
               PROVE  files[f].kind # "junk" /\ ~Present(files[f], at[2], at[3])
    BY DEF Bears
  <2>1. at[2] \in Section /\ at[3] \in Key
    BY PrepareAssumption DEF LoginAt, KeyTarget
  <2>2. tables[p][f][at[2]][at[3]] = Remove /\ tables[p][f] \in Table
    BY <1>1, TypeParts DEF PrepareInv, RunInv, Declaring, Over, At, Working, RunsOK
  <2>3. Applied(FormatOf[f], tables[p][f])[at[2]][at[3]] = Remove
    BY <2>1, <2>2, AppliedTyped
  <2>4. Edit(FormatOf[f], files[f], tables[p][f], Seed[f]) = files[f]
    BY <1>1, OverSettles DEF Asserted
  <2>5. files[f].kind # "junk"
    BY <2>1, <2>3, <2>4, EditIsNoJunk
  <2>6. ~Present(files[f], at[2], at[3])
    BY <1>1, <2>1, <2>3, OverDeclares DEF Declares
  <2> QED
    BY <2>5, <2>6
<1>2. ASSUME PrepareInv, NEW p \in Runner, Over(p), login[p] = None
      PROVE  /\ \A c \in SecretTarget \ failed[p] : secrets[c] = None
             /\ outcome[p] \in {"off", "rejected"} /\ Cache \notin failed[p] => secrets[Cache] = None
  BY <1>2, OverSettles DEF Wanted
<1>3. PrepareInv => NoLoginLeft
  BY <1>1, <1>2 DEF NoLoginLeft
<1> QED
  BY <1>3, InvariantHolds, PTL

\* Whatever several runs do at once, the cache changes by an answer of the service, or with the
\* feature off.
THEOREM CacheFollowsAnswersHolds == Spec => CacheFollowsAnswers
<1> DEFINE A == secrets'[Cache] # secrets[Cache] /\ ~PowerLoss =>
                  \E p \in Runner :
                    \/ outcome[p] = "success" /\ secrets'[Cache] = login[p][2]
                    \/ outcome[p] \in {"off", "rejected"} /\ secrets'[Cache] = None
<1>1. ASSUME PrepareInv, [Next]_vars, secrets'[Cache] # secrets[Cache], ~PowerLoss
      PROVE  A
  <2>1. \E p \in Runner : Unlink(p) \/ Replace(p)
    BY <1>1 DEF Next, Start, Work, CredentialsUnreadable, Accepted, Rejected, Unreachable, Resolves,
                Passes, InstallSystems, Stage, CannotWrite, Ends, Dies, EmulatorSaves, Rebuild,
                AccountChanges, vars
  <2>2. PICK p \in Runner : Unlink(p) \/ Replace(p)
    BY <2>1
  <2>3. DiskOK /\ RunInv(p)
    BY <1>1, TypeParts DEF PrepareInv
  <2>4. CASE Unlink(p)
    <3>1. PICK i \in Secret : /\ i \in todo[p] /\ Wanted(p) = None
                              /\ secrets' = [secrets EXCEPT ![i] = None]
      BY <2>4 DEF Unlink, Turn
    <3>2. i = Cache /\ secrets'[Cache] = None /\ pc[p] \in Working
      BY <1>1, <2>3, <2>4, <3>1, ItemsApart DEF DiskOK, Unlink, At, Working
    <3>3. login[p] = None
      <4>1. outcome[p] \in {"off", "success", "rejected"}
        BY <2>3, <3>1, <3>2 DEF RunInv, Answered
      <4>2. login[p] # None => outcome[p] = "success"
        BY <2>3, <3>2, <4>1 DEF RunInv, Answered
      <4>3. login[p] # None => login[p][2] # None
        BY <1>1, TypeParts, PrepareAssumption DEF PrepareInv, RunsOK, Login
      <4> QED
        BY <3>1, <4>3 DEF Wanted
    <3> QED
      BY <2>3, <3>1, <3>2, <3>3 DEF RunInv, Answered
  <2>5. CASE Replace(p)
    <3>1. /\ secrets' = [secrets EXCEPT ![cur[p]] = Wanted(p)] /\ pc[p] = "staged"
          /\ cur[p] \in Secret /\ cur[p] \in todo[p] /\ login[p] # None
      BY <1>1, <2>3, <2>5 DEF Replace, RunInv, InHand, At
    <3>2. cur[p] = Cache /\ secrets'[Cache] = login[p][2]
      BY <1>1, <2>3, <3>1, ItemsApart DEF DiskOK, Wanted
    <3> QED
      BY <2>3, <3>1, <3>2 DEF RunInv, Answered, Working
  <2> QED
    BY <2>2, <2>4, <2>5
<1>2. PrepareInv /\ [Next]_vars => [A]_vars
  BY <1>1
<1> QED
  BY <1>2, InvariantHolds, PTL DEF CacheFollowsAnswers, Spec

\* No run touches a setting that is not its own to make in a file that could be read.
THEOREM FamilyKeptHolds == Spec => FamilyKept
<1> DEFINE A == \A p \in Runner : Replace(p) /\ alone[p] =>
                  \A f \in File : Readable(files[f]) =>
                    Keeps(files[f], files'[f], Applied(FormatOf[f], tables[p][f]),
                          Applied(FormatOf[f], Seed[f]))
<1>1. ASSUME PrepareInv, NEW p \in Runner, Replace(p), alone[p], NEW f \in File, Readable(files[f])
      PROVE  Keeps(files[f], files'[f], Applied(FormatOf[f], tables[p][f]),
                   Applied(FormatOf[f], Seed[f]))
  <2>1. /\ files \in [File -> Content] /\ tables[p][f] \in Table /\ pc[p] = "staged"
        /\ Settles(p)
    BY <1>1, TypeParts DEF PrepareInv, RunInv, DiskOK, RunsOK, Replace, At
  <2>2. CASE files'[f] = files[f]
    BY <2>2 DEF Keeps
  <2>3. CASE files'[f] # files[f]
    <3>1. cur[p] = f /\ files'[f] = next[p]
      BY <1>1, <2>1, <2>3 DEF Replace
    <3>2. next[p] = Edit(FormatOf[f], files[f], tables[p][f], Seed[f])
      BY <1>1, <2>1, <3>1 DEF Settles, Asserted, Working
    <3> QED
      BY <1>1, <2>1, <3>1, <3>2, SeedTyped, EditKeeps
  <2> QED
    BY <2>2, <2>3
<1>2. PrepareInv => A
  BY <1>1
<1> QED
  BY <1>2, InvariantHolds, PTL DEF FamilyKept
=============================================================================
