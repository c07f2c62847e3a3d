-------------------------- MODULE SaveMigrateProofs --------------------------
(* Proofs about SaveMigrate, for any routes, trees and contents.           *)
EXTENDS SaveMigrate, FiniteSetTheorems, WellFoundedInduction, TLAPS

USE DEF trees, service, bounds

-----------------------------------------------------------------------------
(* Trees.                                                                  *)

\* Making an entry, with the directories it lies in, keeps a tree a tree.
LEMMA WithTree ==
  ASSUME NEW t \in Trees, NEW p \in Path, NEW e \in Entry,
         \A a \in Above[p] : t[a] \in {"none", "dir"},
         t[p] = "none" \/ t[p] = e
  PROVE  With(t, p, e) \in Trees
<1>1. Above \in [Path -> SUBSET Path]
  BY SaveAssumption
<1>2. With(t, p, e) \in [Path -> Entry]
  BY DEF With, Trees, Entry
<1>3. ASSUME NEW q \in Path, With(t, p, e)[q] # "none", NEW a \in Above[q]
      PROVE  With(t, p, e)[a] = "dir"
  <2>1. a \in Path
    BY <1>1, <1>3
  <2>2. CASE q = p
    <3>1. a # p /\ t[a] \in {"none", "dir"}
      BY <1>3, <2>2, SaveAssumption
    <3>2. QED
      BY <2>1, <2>2, <3>1, <1>3 DEF With
  <2>3. CASE q # p /\ q \in Above[p]
    <3>1. a \in Above[p] /\ a # p
      BY <1>3, <2>3, SaveAssumption
    <3>2. QED
      BY <2>1, <3>1 DEF With
  <2>4. CASE q # p /\ q \notin Above[p]
    <3>1. t[q] # "none"
      BY <1>3, <2>4 DEF With
    <3>2. t[a] = "dir"
      BY <1>3, <3>1 DEF Trees
    <3>3. QED
      BY <2>1, <3>2 DEF With
  <2>5. QED
    BY <2>2, <2>3, <2>4
<1>4. QED
  BY <1>2, <1>3 DEF Trees

\* Removing an entry that nothing lies in keeps a tree a tree.
LEMMA WithoutTree ==
  ASSUME NEW t \in Trees, NEW p \in Path, Empty(t, p)
  PROVE  Without(t, p) \in Trees
<1>1. Without(t, p) \in [Path -> Entry]
  BY DEF Without, Trees, Entry
<1>2. ASSUME NEW q \in Path, Without(t, p)[q] # "none", NEW a \in Above[q]
      PROVE  Without(t, p)[a] = "dir"
  <2>1. a \in Path /\ t[q] # "none"
    BY <1>2, SaveAssumption DEF Without, Trees
  <2>2. t[a] = "dir" /\ a # p
    BY <1>2, <2>1 DEF Trees, Empty
  <2>3. QED
    BY <2>1, <2>2 DEF Without, Trees
<1>3. QED
  BY <1>1, <1>2 DEF Trees

\* Nothing lies in an entry that is not a directory.
LEMMA LeafEmpty ==
  ASSUME NEW t \in Trees, NEW p \in Path, t[p] # "dir"
  PROVE  Empty(t, p)
BY DEF Trees, Empty

\* What the service comes to lies, at the destination, in nothing but directories.
LEMMA AboveSource ==
  ASSUME TypeOK, MoveInv, pc = "move", NEW p \in Path, Source(cur)[p] # "none"
  PROVE  \A a \in Above[p] : saves[cur][a] \in {"none", "dir"}
<1>1. legacy[cur] \in Trees /\ saves[cur] \in Trees /\ Above[p] \subseteq Path
  BY SaveAssumption DEF TypeOK
<1>2. \A a \in Above[p] : Source(cur)[a] = "dir"
  BY <1>1 DEF Source, Trees
<1>3. QED
  BY <1>1, <1>2 DEF MoveInv, InHand, Free, Source

-----------------------------------------------------------------------------
(* Typing.                                                                 *)

\* Every step of the service keeps both trees trees.
LEMMA MigrateTrees ==
  ASSUME SaveInv, Migrate
  PROVE  legacy' \in [Route -> Trees] /\ saves' \in [Route -> Trees]
<1> USE DEF SaveInv
<1>1. /\ legacy \in [Route -> Trees] /\ saves \in [Route -> Trees]
      /\ cur \in Route /\ legacy[cur] \in Trees /\ saves[cur] \in Trees
      /\ left \subseteq Path
  BY DEF TypeOK
<1>2. \A p \in Path : legacy[cur][p] \in Entry /\ saves[cur][p] \in Entry
  BY <1>1 DEF Trees
<1>3. "dir" \in Entry /\ "dir" \notin Content /\ "none" \notin Content
  BY SaveAssumption DEF Entry
<1>4. ASSUME NEW p \in Path, DropFile(p)
      PROVE  legacy' \in [Route -> Trees] /\ saves' \in [Route -> Trees]
  <2>1. CASE cur \in mounted
    <3>1. Without(saves[cur], p) \in Trees
      BY <1>1, <1>3, <1>4, <2>1, LeafEmpty, WithoutTree DEF DropFile, Source
    <3>2. QED
      BY <1>1, <1>4, <2>1, <3>1 DEF DropFile
  <2>2. CASE cur \notin mounted
    <3>1. Without(legacy[cur], p) \in Trees
      BY <1>1, <1>3, <1>4, <2>2, LeafEmpty, WithoutTree DEF DropFile, Source
    <3>2. QED
      BY <1>1, <1>4, <2>2, <3>1 DEF DropFile
  <2>3. QED
    BY <2>1, <2>2
<1>5. ASSUME NEW p \in Path, MoveFile(p)
      PROVE  legacy' \in [Route -> Trees] /\ saves' \in [Route -> Trees]
  <2>1. cur \notin mounted /\ legacy[cur][p] \in Content
    BY <1>3, <1>5 DEF MoveFile, Source
  <2>2. Without(legacy[cur], p) \in Trees
    BY <1>1, <1>3, <2>1, LeafEmpty, WithoutTree
  <2>3. With(saves[cur], p, legacy[cur][p]) \in Trees
    BY <1>1, <1>2, <1>3, <1>5, <2>1, AboveSource, WithTree DEF MoveFile, Turn, Source
  <2>4. QED
    BY <1>1, <1>5, <2>2, <2>3 DEF MoveFile
<1>6. ASSUME NEW p \in Path, MoveDir(p)
      PROVE  legacy' \in [Route -> Trees] /\ saves' \in [Route -> Trees]
  <2> DEFINE made == With(saves[cur], p, "dir")
  <2>1. pc = "move" /\ Source(cur)[p] # "none" /\ saves[cur][p] \in {"none", "dir"}
    BY <1>6 DEF MoveDir, Turn
  <2>2. made \in Trees
    BY <1>1, <1>3, <2>1, AboveSource, WithTree
  <2>3. CASE cur \in mounted
    <3>1. Source(cur)[p] = "dir" /\ Empty(Source(cur), p) => Without(made, p) \in Trees
      <4>1. SUFFICES ASSUME saves[cur][p] = "dir", Empty(saves[cur], p)
                     PROVE  Without(made, p) \in Trees
        BY <2>3 DEF Source
      <4>2. Empty(made, p)
        <5>1. \A q \in Path : p \in Above[q] => q # p /\ q \notin Above[p]
          BY SaveAssumption
        <5>2. QED
          BY <4>1, <5>1 DEF Empty, With
      <4>3. QED
        BY <2>2, <4>2, WithoutTree
    <3>2. QED
      BY <1>1, <1>6, <2>2, <2>3, <3>1 DEF MoveDir
  <2>4. CASE cur \notin mounted
    <3>1. Source(cur)[p] = "dir" /\ Empty(Source(cur), p) => Without(legacy[cur], p) \in Trees
      BY <1>1, <2>4, WithoutTree DEF Source
    <3>2. QED
      BY <1>1, <1>6, <2>2, <2>4, <3>1 DEF MoveDir
  <2>5. QED
    BY <2>3, <2>4
<1>7. ASSUME NEW p \in Path, MoveFails(p)
      PROVE  legacy' \in [Route -> Trees] /\ saves' \in [Route -> Trees]
  <2>1. Source(cur)[p] # "none" => With(saves[cur], p, saves[cur][p]) \in Trees
    BY <1>1, <1>2, <1>7, AboveSource, WithTree DEF MoveFails, Turn
  <2>2. QED
    BY <1>1, <1>7, <2>1 DEF MoveFails
<1>8. ASSUME NEW p \in Path, LinkFails(p)
      PROVE  legacy' \in [Route -> Trees] /\ saves' \in [Route -> Trees]
  <2>1. With(saves[cur], p, "dir") \in Trees
    BY <1>1, <1>3, <1>8, AboveSource, WithTree DEF LinkFails, Turn
  <2>2. QED
    BY <1>1, <1>8, <2>1 DEF LinkFails
<1>9. QED
  BY <1>1, <1>4, <1>5, <1>6, <1>7, <1>8 DEF Migrate, Begin, Refuse, EndTree, Done

\* Every step keeps both trees trees.
LEMMA TreesNext ==
  ASSUME SaveInv, [Next]_vars
  PROVE  legacy' \in [Route -> Trees] /\ saves' \in [Route -> Trees]
<1>1. legacy \in [Route -> Trees] /\ saves \in [Route -> Trees]
  BY DEF SaveInv, TypeOK
<1>2. ASSUME NEW r \in Route, NEW p \in Path, Play(r, p)
      PROVE  legacy' \in [Route -> Trees] /\ saves' \in [Route -> Trees]
  <2>1. PICK c \in Content \cup {"none"} :
          saves' = [saves EXCEPT ![r] = [saves[r] EXCEPT ![p] = c]]
    BY <1>2 DEF Play
  <2>2. saves[r] \in Trees /\ saves[r][p] # "dir" /\ c \in Entry
    BY <1>1, <1>2, SaveAssumption DEF Play, Entry
  <2>3. [saves[r] EXCEPT ![p] = c] \in Trees
    <3>1. \A q \in Path : p \in Above[q] => saves[r][q] = "none"
      BY <2>2 DEF Trees
    <3>2. \A a \in Above[p] : saves[r][a] = "dir" /\ a # p /\ a \in Path
      BY <1>2, SaveAssumption DEF Play
    <3>3. [saves[r] EXCEPT ![p] = c] \in [Path -> Entry]
      BY <2>2 DEF Trees
    <3>4. ASSUME NEW q \in Path, [saves[r] EXCEPT ![p] = c][q] # "none", NEW a \in Above[q]
          PROVE  [saves[r] EXCEPT ![p] = c][a] = "dir"
      <4>1. CASE q = p
        BY <2>2, <3>2, <3>4, <4>1 DEF Trees
      <4>2. CASE q # p
        <5>1. saves[r][q] # "none" /\ a # p /\ a \in Path
          BY <2>2, <3>1, <3>4, <4>2, SaveAssumption DEF Trees
        <5>2. QED
          BY <2>2, <3>4, <5>1 DEF Trees
      <4>3. QED
        BY <4>1, <4>2
    <3>5. QED
      BY <3>3, <3>4 DEF Trees
  <2>4. QED
    BY <1>1, <1>2, <2>1, <2>3 DEF Play
<1>3. CASE Migrate
  BY <1>3, MigrateTrees
<1>4. QED
  BY <1>1, <1>2, <1>3 DEF Next, vars, Mount, StartFrontend, Rerun, PowerLoss, Reboot, Boots

\* Every variable starts within its range, and stays there.
LEMMA TypingInit == Init => TypeOK
<1> HAVE Init
<1>1. /\ legacy \in [Route -> Trees] /\ saves \in [Route -> Trees]
      /\ mounted \subseteq Bound /\ pc = "route"
      /\ todo \subseteq Route /\ cur \in Route /\ left \subseteq Path
      /\ faults \in 0..MaxFaults /\ reruns \in 0..MaxReruns
  BY SaveAssumption DEF Init
<1>2. frontend \in BOOLEAN
  BY DEF Init
<1>3. QED
  BY <1>1, <1>2 DEF TypeOK

LEMMA TypingNext == SaveInv /\ [Next]_vars => TypeOK'
<1> SUFFICES ASSUME SaveInv, [Next]_vars
             PROVE  TypeOK'
  OBVIOUS
<1>1. legacy' \in [Route -> Trees] /\ saves' \in [Route -> Trees]
  BY TreesNext
<1>2. frontend' \in BOOLEAN
  BY DEF SaveInv, TypeOK, Next, vars, Migrate, Begin, Refuse, DropFile, MoveFile, MoveDir,
     MoveFails, LinkFails, EndTree, Done, Mount, StartFrontend, Play, Rerun, PowerLoss,
     Reboot, Boots
<1>3. /\ mounted' \subseteq Bound /\ pc' \in {"route", "move", "done", "failed"}
      /\ todo' \subseteq Route /\ cur' \in Route /\ left' \subseteq Path
      /\ faults' \in 0..MaxFaults /\ reruns' \in 0..MaxReruns
  <2> USE SaveAssumption DEF SaveInv, TypeOK
  <2>1. CASE Migrate
    BY <2>1 DEF Migrate, Begin, Refuse, DropFile, MoveFile, MoveDir, MoveFails, LinkFails,
       EndTree, Done
  <2>2. CASE UNCHANGED <<mounted, service, bounds>>
    BY <2>2
  <2>3. ASSUME NEW r \in Route, Mount(r)
        PROVE  mounted' \subseteq Bound /\ UNCHANGED <<service, bounds>>
    BY <2>3 DEF Mount
  <2>4. CASE Rerun
    BY <2>4 DEF Rerun
  <2>5. CASE Boots /\ faults' \in 0..MaxFaults
    BY <2>5 DEF Boots
  <2>6. CASE PowerLoss
    BY <2>5, <2>6 DEF PowerLoss
  <2>7. CASE Reboot
    BY <2>5, <2>7 DEF Reboot
  <2>8. QED
    BY <2>1, <2>2, <2>3, <2>4, <2>6, <2>7 DEF Next, vars, StartFrontend, Play
<1>4. QED
  BY <1>1, <1>2, <1>3 DEF TypeOK

-----------------------------------------------------------------------------
(* The moves.                                                              *)

\* A step of the service leaves the trees of the other routes alone.
LEMMA OthersKept ==
  ASSUME TypeOK, Migrate, NEW r \in Route, r # cur
  PROVE  legacy'[r] = legacy[r] /\ saves'[r] = saves[r]
BY DEF TypeOK, Migrate, Begin, Refuse, DropFile, MoveFile, MoveDir, MoveFails, LinkFails,
   EndTree, Done

\* A step in a tree that is not mounted takes entries off it one at a time, and makes at the
\* destination directories, where its own are, and the file it takes.
LEMMA MoveStep ==
  ASSUME SaveInv, Migrate, pc = "move", cur \notin mounted, NEW q \in Path
  PROVE  /\ legacy'[cur][q] \in {"none", legacy[cur][q]}
         /\ \/ saves'[cur][q] = saves[cur][q]
            \/ saves[cur][q] = "none" /\ saves'[cur][q] = "dir" /\ legacy[cur][q] \in {"dir", "link"}
            \/ saves[cur][q] = "none" /\ saves'[cur][q] = legacy[cur][q] /\ legacy[cur][q] \in Content
         /\ legacy'[cur][q] # legacy[cur][q] /\ legacy[cur][q] \in Content =>
              saves'[cur][q] = legacy[cur][q]
<1> USE DEF SaveInv, Source
<1>1. /\ legacy \in [Route -> Trees] /\ saves \in [Route -> Trees]
      /\ cur \in Route /\ legacy[cur] \in Trees /\ saves[cur] \in Trees
      /\ left \subseteq Path
  BY DEF TypeOK
<1>2. \A p \in Path : legacy[cur][p] # "none" => \A a \in Above[p] : legacy[cur][a] = "dir"
  BY <1>1 DEF Trees
<1>3. "dir" \notin Content /\ "none" \notin Content /\ "link" \notin Content
  BY SaveAssumption
<1>4. /\ legacy[cur] = [p \in Path |-> legacy[cur][p]]
      /\ saves[cur] = [p \in Path |-> saves[cur][p]]
  BY <1>1 DEF Trees
<1>5. legacy[cur][q] \in Content => saves[cur][q] \in {"none", legacy[cur][q]}
  BY DEF MoveInv, InHand, Free
<1>6. ASSUME NEW p \in Path, DropFile(p)
      PROVE  /\ saves' = saves
             /\ legacy'[cur][q] = IF q = p THEN "none" ELSE legacy[cur][q]
             /\ saves[cur][p] # "none"
  BY <1>1, <1>4, <1>6 DEF DropFile, Without
<1>7. ASSUME NEW p \in Path, MoveFile(p)
      PROVE  /\ legacy[cur][p] \in Content /\ saves[cur][p] = "none"
             /\ legacy'[cur][q] = IF q = p THEN "none" ELSE legacy[cur][q]
             /\ saves'[cur][q] = With(saves[cur], p, legacy[cur][p])[q]
  BY <1>1, <1>4, <1>7 DEF MoveFile, Without
<1>8. ASSUME NEW p \in Path, MoveDir(p)
      PROVE  /\ legacy[cur][p] \in {"dir", "link"} /\ saves[cur][p] \in {"none", "dir"}
             /\ legacy'[cur][q] = legacy[cur][q] \/ (q = p /\ legacy'[cur][q] = "none")
             /\ saves'[cur][q] = With(saves[cur], p, "dir")[q]
  BY <1>1, <1>4, <1>8 DEF MoveDir, Without
<1>9. ASSUME NEW p \in Path, MoveFails(p)
      PROVE  /\ legacy' = legacy
             /\ \/ saves' = saves
                \/ legacy[cur][p] # "none" /\ saves'[cur][q] = With(saves[cur], p, saves[cur][p])[q]
  BY <1>1, <1>4, <1>9 DEF MoveFails
<1>10. ASSUME NEW p \in Path, LinkFails(p)
       PROVE  /\ legacy' = legacy
              /\ legacy[cur][p] = "link" /\ saves[cur][p] = "none"
              /\ saves'[cur][q] = With(saves[cur], p, "dir")[q]
  BY <1>1, <1>4, <1>10 DEF LinkFails
<1>11. CASE \E p \in Path : DropFile(p)
  BY <1>3, <1>5, <1>6, <1>11
<1>12. CASE \E p \in Path : MoveFile(p)
  BY <1>2, <1>3, <1>7, <1>12 DEF With
<1>13. CASE \E p \in Path : MoveDir(p)
  BY <1>2, <1>3, <1>8, <1>13 DEF With
<1>14. CASE \E p \in Path : MoveFails(p)
  BY <1>2, <1>3, <1>9, <1>14 DEF With
<1>15. CASE \E p \in Path : LinkFails(p)
  BY <1>2, <1>3, <1>10, <1>15 DEF With
<1>16. QED
  BY <1>1, <1>11, <1>12, <1>13, <1>14, <1>15 DEF Migrate, Begin, Refuse, EndTree, Done

\* A step in a tree that is not mounted leaves nothing in its way.
LEMMA StaysFree ==
  ASSUME SaveInv, Migrate, pc = "move", cur \notin mounted
  PROVE  Free(cur)'
<1>1. Free(cur) /\ cur' = cur
  BY DEF SaveInv, MoveInv, InHand, Migrate, Begin, Refuse, DropFile, MoveFile, MoveDir, MoveFails,
     LinkFails, EndTree, Done
<1>2. ASSUME NEW q \in Path
      PROVE  /\ legacy'[cur][q] \in Content => saves'[cur][q] \in {"none", legacy'[cur][q]}
             /\ legacy'[cur][q] = "dir" => saves'[cur][q] \in {"none", "dir"}
  BY <1>1, MoveStep, SaveAssumption DEF Free
<1>3. QED
  BY <1>1, <1>2 DEF Free

\* A tree the preflight passes is free.
LEMMA PassedIsFree ==
  ASSUME NEW r \in Route, r \notin mounted, Conflicts(r) = {}
  PROVE  Free(r)
BY SaveAssumption DEF Conflicts, Source, Free

\* Clean trees stay clean: no step makes a file at the emulator's own path.
LEMMA StaysClean ==
  ASSUME SaveInv, [Next]_vars, NEW r \in Route, Clean(r)
  PROVE  Clean(r)'
<1>1. /\ legacy \in [Route -> Trees] /\ cur \in Route
      /\ legacy[r] \in [Path -> Entry] /\ legacy[cur] \in [Path -> Entry]
  BY DEF SaveInv, TypeOK, Trees
<1>2. ASSUME NEW p \in Path, DropFile(p) \/ MoveFile(p) \/ MoveDir(p)
      PROVE  legacy' = legacy \/ legacy' = [legacy EXCEPT ![cur] = Without(legacy[cur], p)]
  BY <1>1, <1>2 DEF DropFile, MoveFile, MoveDir
<1>3. \A p \in Path, q \in Path : Without(legacy[cur], p)[q] \in {"none", legacy[cur][q]}
  BY <1>1 DEF Without
<1>4. legacy' = legacy \/ \E p \in Path : legacy' = [legacy EXCEPT ![cur] = Without(legacy[cur], p)]
  BY <1>2 DEF Next, vars, Migrate, Begin, Refuse, MoveFails, LinkFails, EndTree, Done, Mount,
     StartFrontend, Play, Rerun, PowerLoss, Reboot, Boots
<1>5. \A q \in Path : legacy'[r][q] \in {"none", legacy[r][q]}
  BY <1>1, <1>3, <1>4
<1>6. QED
  BY <1>5, SaveAssumption DEF Clean

\* Directories at the destination stay while nothing is mounted over their route.
LEMMA StaysMade ==
  ASSUME SaveInv, [Next]_vars, NEW r \in Route \ mounted, Made(r)
  PROVE  Made(r)'
<1>1. CASE Migrate /\ r # cur
  BY <1>1, OthersKept DEF Made, SaveInv
<1>2. CASE Migrate /\ r = cur /\ pc = "move"
  BY <1>2, MoveStep DEF Made, Migrate, Begin, Refuse, DropFile, MoveFile, MoveDir, MoveFails,
     LinkFails, EndTree, Done
<1>3. CASE Migrate /\ pc # "move"
  BY <1>3 DEF Made, Migrate, Begin, Refuse, DropFile, MoveFile, MoveDir, MoveFails, LinkFails,
     EndTree, Done, Turn
<1>4. ASSUME NEW s \in Route, NEW p \in Path, Play(s, p)
      PROVE  Made(r)'
  <2>1. saves \in [Route -> Trees] /\ saves[s] \in [Path -> Entry] /\ saves[s][p] # "dir"
    BY <1>4, SaveAssumption DEF SaveInv, TypeOK, Trees, Play
  <2>2. QED
    BY <1>4, <2>1 DEF Play, Made
<1>5. CASE UNCHANGED trees
  BY <1>5 DEF Made
<1>6. QED
  BY <1>1, <1>2, <1>3, <1>4, <1>5
     DEF Next, vars, Mount, StartFrontend, Rerun, PowerLoss, Reboot, Boots

\* A step of the service keeps the tree in hand free and its entries accounted for.
LEMMA InHandNext ==
  ASSUME SaveInv, [Next]_vars
  PROVE  InHand'
<1> USE DEF SaveInv
<1>1. ASSUME NEW r \in Route, Begin(r)
      PROVE  InHand'
  <2>1. r \notin mounted => Free(r)'
    BY <1>1, PassedIsFree DEF Begin, Free
  <2>2. r \notin mounted => \A p \in Path : legacy[r][p] # "none" => p \in left'
    BY <1>1 DEF Begin, Source
  <2>3. QED
    BY <1>1, <2>1, <2>2, SaveAssumption DEF Begin, InHand
<1>2. ASSUME NEW p \in Path, DropFile(p) \/ MoveFile(p) \/ MoveDir(p)
      PROVE  InHand'
  <2> SUFFICES ASSUME cur \notin mounted
               PROVE  InHand'
    BY <1>2 DEF DropFile, MoveFile, MoveDir, InHand
  <2>1. /\ pc = "move" /\ cur' = cur /\ left' = left \ {p} /\ Migrate
    BY <1>2 DEF DropFile, MoveFile, MoveDir, Turn, Migrate
  <2>2. Free(cur)'
    BY <2>1, StaysFree
  <2>3. /\ legacy \in [Route -> Trees] /\ saves \in [Route -> Trees] /\ cur \in Route
        /\ legacy[cur] \in [Path -> Entry] /\ saves[cur] \in [Path -> Entry]
    BY DEF TypeOK, Trees
  <2>4. legacy'[cur][p] \notin Content
    BY <1>2, <2>3, SaveAssumption DEF DropFile, MoveFile, MoveDir, Source, Without
  <2>5. legacy'[cur][p] = "dir" => saves'[cur][p] = "dir"
    <3>1. DropFile(p) \/ MoveFile(p) => legacy'[cur][p] = "none"
      BY <2>3, SaveAssumption DEF DropFile, MoveFile, Source, Without
    <3>2. MoveDir(p) => saves'[cur][p] = "dir"
      BY <2>3 DEF MoveDir, With
    <3>3. QED
      BY <1>2, <3>1, <3>2
  <2>6. \A q \in Path : q # p /\ legacy'[cur][q] \in Content => q \in left'
    BY <2>1, MoveStep, SaveAssumption DEF MoveInv, InHand
  <2>7. \A q \in Path : q # p /\ legacy'[cur][q] = "dir" => q \in left' \/ saves'[cur][q] = "dir"
    BY <2>1, MoveStep DEF MoveInv, InHand
  <2>8. QED
    BY <2>1, <2>2, <2>4, <2>5, <2>6, <2>7 DEF InHand
<1>3. ASSUME pc' # "move"
      PROVE  InHand'
  BY <1>3 DEF InHand
<1>4. ASSUME NEW r \in Route, Mount(r)
      PROVE  InHand'
  BY <1>4 DEF Mount, InHand
<1>5. ASSUME NEW r \in Route, NEW p \in Path, Play(r, p)
      PROVE  InHand'
  <2> SUFFICES ASSUME pc = "move", cur \notin mounted
               PROVE  InHand'
    BY <1>5 DEF Play, InHand
  <2>1. Clean(cur)' /\ Made(cur)' /\ cur' = cur
    BY <1>5, StaysClean, StaysMade
       DEF Play, MoveInv, UnderFrontend, NothingHidden, Clean, TypeOK, Next
  <2>2. QED
    BY <2>1 DEF InHand, Free, Clean, Made
<1>6. CASE UNCHANGED <<trees, mounted, service>>
  BY <1>6 DEF MoveInv, InHand, Free
<1>7. QED
  BY <1>1, <1>2, <1>3, <1>4, <1>5, <1>6
     DEF Next, vars, Migrate, Refuse, MoveFails, LinkFails, EndTree, Done, StartFrontend,
         Rerun, PowerLoss, Reboot, Boots

\* What the service is done with stays dealt with.
LEMMA BehindNext ==
  ASSUME SaveInv, [Next]_vars
  PROVE  BehindIt'
<1> USE DEF SaveInv
<1>1. mounted \subseteq mounted' \/ Boots
  BY DEF Next, vars, Migrate, Begin, Refuse, DropFile, MoveFile, MoveDir, MoveFails, LinkFails,
     EndTree, Done, Mount, StartFrontend, Play, Rerun, PowerLoss, Reboot
<1>2. ASSUME NEW r \in Route, Clean(r), r \in mounted \/ Made(r), ~Boots
      PROVE  Clean(r)' /\ (r \in mounted' \/ Made(r)')
  BY <1>1, <1>2, StaysClean, StaysMade
<1>3. CASE EndTree
  <2>1. Clean(cur) /\ (cur \in mounted \/ Made(cur))
    BY <1>3 DEF EndTree, MoveInv, InHand, NothingHidden, Clean, Made, TypeOK
  <2>2. \A r \in Route \ todo : Clean(r) /\ (r \in mounted \/ Made(r))
    BY <1>3, <2>1 DEF EndTree, MoveInv, BehindIt
  <2>3. QED
    BY <1>3, <2>2 DEF EndTree, BehindIt, Clean, Made
<1>4. CASE (Boots \/ Rerun \/ pc' = "failed")
  BY <1>4 DEF Boots, Rerun, BehindIt
<1>5. CASE ~EndTree /\ ~(Boots \/ Rerun \/ pc' = "failed")
  <2>1. \A r \in Route \ todo' :
          pc' \in {"route", "done"} \/ (pc' = "move" /\ r # cur') =>
          r \in Route \ todo /\ (pc \in {"route", "done"} \/ (pc = "move" /\ r # cur))
    BY <1>5 DEF MoveInv, Next, vars, Migrate, Begin, Refuse, DropFile, MoveFile, MoveDir,
       MoveFails, LinkFails, Done, Mount, StartFrontend, Play, PowerLoss, Reboot, Turn
  <2>2. QED
    BY <1>2, <1>5, <2>1 DEF MoveInv, BehindIt
<1>6. QED
  BY <1>3, <1>4, <1>5

\* The display manager starts over trees that have been dealt with.
LEMMA FrontendNext ==
  ASSUME SaveInv, [Next]_vars
  PROVE  UnderFrontend'
<1>1. CASE frontend /\ mounted \subseteq mounted'
  BY <1>1, StaysMade DEF SaveInv, MoveInv, UnderFrontend
<1>2. CASE StartFrontend
  BY <1>2, StaysMade DEF StartFrontend, SaveInv, MoveInv, BehindIt, UnderFrontend
<1>3. CASE frontend' = FALSE
  BY <1>3 DEF UnderFrontend
<1>4. CASE UNCHANGED frontend /\ mounted \subseteq mounted'
  BY <1>1, <1>3, <1>4 DEF UnderFrontend
<1>5. CASE Rerun
  <2>1. frontend' = frontend \/ frontend' = FALSE
    BY <1>5 DEF Rerun
  <2>2. mounted \subseteq mounted'
    BY <1>5 DEF Rerun
  <2>3. QED
    BY <1>3, <1>4, <2>1, <2>2
<1>6. QED
  BY <1>2, <1>3, <1>4, <1>5
     DEF Next, vars, Migrate, Begin, Refuse, DropFile, MoveFile, MoveDir, MoveFails, LinkFails,
         EndTree, Done, Mount, Play, PowerLoss, Reboot, Boots

\* Every step keeps where the service is, and what is behind it.
LEMMA MoveNext ==
  ASSUME SaveInv, [Next]_vars
  PROVE  MoveInv'
<1>1. (pc = "move" => cur \notin todo)' /\ (pc = "done" => todo = {})'
  BY DEF SaveInv, MoveInv, Next, vars, Migrate, Begin, Refuse, DropFile, MoveFile, MoveDir,
     MoveFails, LinkFails, EndTree, Done, Mount, StartFrontend, Play, Rerun, PowerLoss,
     Reboot, Boots
<1>2. QED
  BY <1>1, InHandNext, BehindNext, FrontendNext DEF MoveInv

\* Every step keeps files from being hidden.
LEMMA HiddenNext ==
  ASSUME SaveInv, [Next]_vars
  PROVE  NothingHidden'
<1>1. NothingHidden <=> (mounted # {} \/ frontend => \A r \in Route : Clean(r))
  BY DEF NothingHidden, Clean
<1>2. NothingHidden' <=> (mounted' # {} \/ frontend' => \A r \in Route : Clean(r)')
  BY DEF NothingHidden, Clean
<1>3. CASE mounted # {} \/ frontend
  BY <1>1, <1>2, <1>3, StaysClean DEF SaveInv
<1>4. CASE pc = "done"
  BY <1>2, <1>4, StaysClean DEF SaveInv, MoveInv, BehindIt
<1>5. CASE mounted = {} /\ ~frontend /\ pc # "done"
  <2>1. mounted' = {}
    BY <1>5 DEF Next, vars, Migrate, Begin, Refuse, DropFile, MoveFile, MoveDir, MoveFails,
       LinkFails, EndTree, Done, Mount, StartFrontend, Play, Rerun, PowerLoss, Reboot, Boots
  <2>2. frontend' = frontend \/ frontend' = FALSE
    BY <1>5 DEF Next, vars, Migrate, Begin, Refuse, DropFile, MoveFile, MoveDir, MoveFails,
       LinkFails, EndTree, Done, Mount, StartFrontend, Play, Rerun, PowerLoss, Reboot, Boots
  <2>3. QED
    BY <1>2, <1>5, <2>1, <2>2
<1>6. QED
  BY <1>3, <1>4, <1>5

-----------------------------------------------------------------------------
(* The theorems.                                                           *)

\* The inductive invariant, types included.
THEOREM SaveInvariant == Spec => []SaveInv
<1>1. Init => SaveInv
  BY TypingInit DEF Init, SaveInv, MoveInv, InHand, BehindIt, UnderFrontend, NothingHidden
<1>2. SaveInv /\ [Next]_vars => SaveInv'
  BY TypingNext, MoveNext, HiddenNext DEF SaveInv
<1>3. QED
  BY <1>1, <1>2, PTL DEF Spec

\* Every variable keeps to its range, and trees remain trees.
THEOREM TypeCorrect == Spec => []TypeOK
<1>1. SaveInv => TypeOK
  BY DEF SaveInv
<1>2. QED
  BY <1>1, SaveInvariant, PTL

\* No mount covers a file and no frontend runs before every file is at its destination.
THEOREM NoFileHidden == Spec => []NothingHidden
<1>1. SaveInv => NothingHidden
  BY DEF SaveInv
<1>2. QED
  BY <1>1, SaveInvariant, PTL

\* For any trees, and whatever fails or is interrupted, the service costs no file of a route
\* that is not mounted.
THEOREM SavesKept == Spec => NoSaveLost
<1>1. SaveInv /\ [Next]_vars =>
        [Migrate => \A r \in Route \ mounted : Kept(r) \subseteq Kept(r)']_vars
  <2> SUFFICES ASSUME SaveInv, Migrate, NEW r \in Route \ mounted, NEW e \in Kept(r)
               PROVE  e \in Kept(r)'
    BY DEF vars
  <2>1. e \in Path \X Content /\ e[1] \in Path /\ e[2] \in Content
    BY DEF Kept
  <2>2. legacy[r][e[1]] = e[2] \/ saves[r][e[1]] = e[2]
    BY DEF Kept
  <2>3. legacy'[r][e[1]] = e[2] \/ saves'[r][e[1]] = e[2]
    <3>1. CASE r # cur
      BY <2>2, <3>1, OthersKept DEF SaveInv
    <3>2. CASE r = cur /\ pc = "move"
      BY <2>1, <2>2, <3>2, MoveStep, SaveAssumption
    <3>3. CASE pc # "move"
      BY <2>2, <3>3 DEF Migrate, Begin, Refuse, DropFile, MoveFile, MoveDir, MoveFails,
         LinkFails, EndTree, Done, Turn
    <3>4. QED
      BY <3>1, <3>2, <3>3
  <2>4. QED
    BY <2>1, <2>3 DEF Kept
<1>2. QED
  BY <1>1, SaveInvariant, PTL DEF Spec, NoSaveLost

\* An interrupted migration makes no conflict for the next attempt, links to directories apart.
THEOREM RetriesAreSafe == Spec => RetrySafe
<1>1. SaveInv /\ [Next]_vars =>
        [Migrate => \A r \in Route \ mounted : \A p \in Conflicts(r)' :
           p \in Conflicts(r) \/ legacy[r][p] = "link"]_vars
  <2> SUFFICES ASSUME SaveInv, Migrate, NEW r \in Route \ mounted, NEW p \in Conflicts(r)'
               PROVE  p \in Conflicts(r) \/ legacy[r][p] = "link"
    BY DEF vars
  <2>1. p \in Path /\ mounted' = mounted /\ legacy \in [Route -> Trees]
    BY DEF Conflicts, SaveInv, TypeOK, Migrate, Begin, Refuse, DropFile, MoveFile, MoveDir,
       MoveFails, LinkFails, EndTree, Done
  <2>2. CASE r # cur
    BY <2>1, <2>2, OthersKept DEF Conflicts, Source, SaveInv
  <2>3. CASE r = cur /\ pc = "move"
    <3>1. legacy[cur][p] \in Entry
      BY <2>1, <2>3 DEF Trees
    <3>2. Free(cur)' /\ cur' = cur /\ legacy'[cur][p] \in {"none", legacy[cur][p]}
      BY <2>1, <2>3, StaysFree, MoveStep DEF Migrate, Begin, Refuse, DropFile, MoveFile,
         MoveDir, MoveFails, LinkFails, EndTree, Done
    <3>3. legacy'[cur][p] # "none" /\ legacy'[cur][p] # "dir" /\ legacy'[cur][p] \notin Content
      BY <2>1, <2>3, <3>2 DEF Conflicts, Source, Free
    <3>4. QED
      BY <2>3, <3>1, <3>2, <3>3 DEF Entry
  <2>4. CASE pc # "move"
    BY <2>1, <2>4 DEF Conflicts, Source, Migrate, Begin, Refuse, DropFile, MoveFile, MoveDir,
       MoveFails, LinkFails, EndTree, Done, Turn
  <2>5. QED
    BY <2>2, <2>3, <2>4
<1>2. QED
  BY <1>1, SaveInvariant, PTL DEF Spec, RetrySafe

-----------------------------------------------------------------------------
(* The service always has a next entry.                                    *)

\* Numbers have a least one among them.
LEMMA LeastNatural ==
  ASSUME NEW T \in SUBSET Nat, T # {}
  PROVE  \E n \in T : \A m \in T : n <= m
<1>1. PICK n \in T : \A m \in T : ~(<<m, n>> \in OpToRel(<, Nat))
  BY NatLessThanWellFounded, WFMin, Zenon
<1>2. \A m \in T : ~(m < n)
  BY <1>1 DEF OpToRel
<1>3. QED
  BY <1>2

\* Of some entries one lies deepest: none of them lies in more directories, its own included.
LEMMA DeepestExists ==
  ASSUME NEW S \in SUBSET Path, S # {}
  PROVE  \E p \in S : \A q \in S : Above[p] \subseteq Above[q] => Above[q] = Above[p]
<1> DEFINE Size(p)   == Cardinality(Above[p])
           Room      == Cardinality(Path)
           Margins   == {n \in Nat : \E p \in S : n = Room - Size(p)}
<1>1. \A p \in S : /\ IsFiniteSet(Above[p])
                   /\ Size(p) \in Nat /\ Room \in Nat /\ Size(p) <= Room
  <2>1. \A p \in S : Above[p] \in SUBSET Path
    BY SaveAssumption
  <2>2. QED
    BY <2>1, TreeAssumption, FS_Subset, FS_CardinalityType
<1>2. \A p \in S : Room - Size(p) \in Margins
  BY <1>1
<1>3. PICK n \in Margins : \A m \in Margins : n <= m
  <2>1. Margins \in SUBSET Nat
    OBVIOUS
  <2>2. Margins # {}
    BY <1>2
  <2> HIDE DEF Margins
  <2>3. QED
    BY <2>1, <2>2, LeastNatural
<1>4. PICK p \in S : n = Room - Size(p)
  BY <1>3
<1>5. ASSUME NEW q \in S, Above[p] \subseteq Above[q]
      PROVE  Above[q] = Above[p]
  <2>1. n <= Room - Size(q)
    BY <1>2, <1>3
  <2>2. Size(q) <= Size(p)
    BY <1>1, <1>4, <2>1
  <2>3. Above[p] \in SUBSET Above[q]
    BY <1>5
  <2>4. Size(p) <= Size(q) /\ (Size(q) = Size(p) => Above[q] = Above[p])
    BY <1>1, <2>3, FS_Subset
  <2>5. QED
    BY <1>1, <2>2, <2>4
<1>6. QED
  BY <1>5

\* While entries are left, it is the turn of one of them.
LEMMA TurnComes ==
  ASSUME TypeOK, pc = "move", left # {}
  PROVE  \E p \in left : Turn(p)
<1>1. left \in SUBSET Path
  BY DEF TypeOK
<1>2. PICK d \in left : \A q \in left : Above[d] \subseteq Above[q] => Above[q] = Above[d]
  BY <1>1, DeepestExists
<1>3. CASE \E q \in left : Above[q] = Above[d] /\ Source(cur)[q] \in Content
  <2>1. PICK p \in left : Above[p] = Above[d] /\ Source(cur)[p] \in Content
    BY <1>3
  <2>2. Turn(p)
    BY <1>2, <2>1 DEF Turn
  <2>3. QED
    BY <2>2
<1>4. CASE ~\E q \in left : Above[q] = Above[d] /\ Source(cur)[q] \in Content
  <2>1. Turn(d)
    BY <1>2, <1>4 DEF Turn
  <2>2. QED
    BY <2>1
<1>5. QED
  BY <1>3, <1>4

\* What the service has listed and not come to is still there, and a directory or a link among it
\* has nothing but a directory in its way; a running frontend may take entries away.
Listed ==
  pc = "move" /\ ~frontend =>
    \A p \in left :
      /\ Source(cur)[p] # "none"
      /\ Source(cur)[p] \in {"dir", "link"} => saves[cur][p] \in {"none", "dir"}

\* A tree the preflight passes is listed as it is.
LEMMA ListedAtFirst ==
  ASSUME NEW r \in Route, Begin(r)
  PROVE  Listed'
<1>1. \A p \in Path : Source(r)[p] = "dir" \/ Source(r)[p] = "link" =>
        saves[r][p] \in {"none", "dir"}
  BY SaveAssumption DEF Begin, Conflicts
<1>2. /\ cur' = r /\ left' = {p \in Path : Source(r)[p] # "none"}
      /\ Source(r)' = Source(r) /\ saves' = saves
  BY DEF Begin, Source
<1>3. QED
  BY <1>1, <1>2 DEF Listed, Source

\* A move takes off the tree nothing but the entry whose turn it is, and leaves the rest of it.
LEMMA LeftStays ==
  ASSUME SaveInv, Migrate, pc = "move", pc' = "move", NEW q \in left'
  PROVE  /\ q \in left /\ cur' = cur /\ mounted' = mounted
         /\ cur \notin mounted => legacy'[cur][q] = legacy[cur][q]
         /\ cur \in mounted => saves'[cur][q] \in {"dir", saves[cur][q]}
<1>1. /\ legacy \in [Route -> Trees] /\ saves \in [Route -> Trees]
      /\ cur \in Route /\ legacy[cur] \in Trees /\ saves[cur] \in Trees
      /\ left \subseteq Path
  BY DEF SaveInv, TypeOK
<1>2. /\ legacy[cur] = [p \in Path |-> legacy[cur][p]]
      /\ saves[cur] = [p \in Path |-> saves[cur][p]]
  BY <1>1 DEF Trees
<1>3. PICK p \in Path : DropFile(p) \/ MoveFile(p) \/ MoveDir(p)
  BY DEF Migrate, Begin, Refuse, MoveFails, LinkFails, EndTree, Done
<1>4. /\ left' = left \ {p} /\ cur' = cur /\ mounted' = mounted
      /\ q \in left /\ q # p /\ q \in Path
  BY <1>1, <1>3 DEF DropFile, MoveFile, MoveDir
<1>5. CASE DropFile(p)
  BY <1>1, <1>2, <1>4, <1>5 DEF DropFile, Without
<1>6. CASE MoveFile(p)
  <2>1. cur \notin mounted
    BY <1>6, SaveAssumption DEF MoveFile, Source
  <2>2. QED
    BY <1>1, <1>2, <1>4, <1>6, <2>1 DEF MoveFile, Without
<1>7. CASE MoveDir(p)
  <2>1. CASE cur \notin mounted
    <3>1. \/ legacy' = [legacy EXCEPT ![cur] = Without(legacy[cur], p)]
          \/ legacy' = [legacy EXCEPT ![cur] = legacy[cur]]
      BY <1>7, <2>1 DEF MoveDir
    <3>2. QED
      BY <1>1, <1>2, <1>4, <2>1, <3>1 DEF Without
  <2>2. CASE cur \in mounted
    <3>1. \/ saves' = [saves EXCEPT ![cur] = Without(With(saves[cur], p, "dir"), p)]
          \/ saves' = [saves EXCEPT ![cur] = With(saves[cur], p, "dir")]
      BY <1>7, <2>2 DEF MoveDir
    <3>2. With(saves[cur], p, "dir")[q] \in {"dir", saves[cur][q]}
      BY <1>4 DEF With
    <3>3. Without(With(saves[cur], p, "dir"), p)[q] \in {"dir", saves[cur][q]}
      BY <1>4, <3>2 DEF With, Without
    <3>4. saves'[cur][q] \in {"dir", saves[cur][q]}
      BY <1>1, <3>1, <3>2, <3>3
    <3>5. QED
      BY <1>4, <2>2, <3>4
  <2>3. QED
    BY <2>1, <2>2
<1>8. QED
  BY <1>3, <1>5, <1>6, <1>7

\* So what is listed stays as it was found until its turn.
LEMMA ListedNext == SaveInv /\ Listed /\ [Next]_vars => Listed'
<1> SUFFICES ASSUME SaveInv, Listed, [Next]_vars, pc' = "move", ~frontend', NEW q \in left'
             PROVE  /\ Source(cur)'[q] # "none"
                    /\ Source(cur)'[q] \in {"dir", "link"} => saves'[cur'][q] \in {"none", "dir"}
  BY DEF Listed
<1>1. CASE \E r \in Route : Begin(r)
  BY <1>1, ListedAtFirst DEF Listed
<1>2. CASE Migrate /\ pc = "move"
  <2>1. ~frontend /\ q \in left /\ q \in Path
    BY <1>2, LeftStays
    DEF SaveInv, TypeOK, Migrate, Begin, Refuse, DropFile, MoveFile, MoveDir, MoveFails, LinkFails,
        EndTree, Done
  <2>2. /\ Source(cur)[q] # "none"
        /\ Source(cur)[q] \in {"dir", "link"} => saves[cur][q] \in {"none", "dir"}
    BY <1>2, <2>1 DEF Listed
  <2>3. cur' = cur /\ mounted' = mounted
    BY <1>2, LeftStays
  <2>4. CASE cur \notin mounted
    <3>1. legacy'[cur][q] = legacy[cur][q]
      BY <1>2, <2>4, LeftStays
    <3>2. Source(cur)[q] = legacy[cur][q] /\ Source(cur)'[q] = legacy'[cur][q]
      BY <2>3, <2>4 DEF Source
    <3>3. legacy[cur][q] \in {"dir", "link"} => saves'[cur][q] \in {"none", "dir"}
      BY <1>2, <2>1, <2>2, <2>4, <3>2, MoveStep, SaveAssumption
    <3>4. QED
      BY <2>2, <2>3, <3>1, <3>2, <3>3
  <2>5. CASE cur \in mounted
    <3>1. Source(cur)[q] = saves[cur][q] /\ Source(cur)'[q] = saves'[cur][q]
      BY <2>3, <2>5 DEF Source
    <3>2. QED
      BY <1>2, <2>2, <2>3, <2>5, <3>1, LeftStays
  <2>6. QED
    BY <2>4, <2>5
<1>3. CASE UNCHANGED <<trees, mounted, service, frontend>>
  BY <1>3 DEF Listed, Source
<1>4. QED
  BY <1>1, <1>2, <1>3
  DEF Next, vars, Migrate, Begin, Refuse, DropFile, MoveFile, MoveDir, MoveFails, LinkFails, Turn,
      EndTree, Done, Mount, StartFrontend, Play, Rerun, PowerLoss, Reboot, Boots

\* What the service has listed it finds, in every state without a frontend.
LEMMA ListedHolds == Spec => []Listed
<1>1. Init => Listed
  BY DEF Init, Listed
<1>2. QED
  BY <1>1, ListedNext, SaveInvariant, PTL DEF Spec

-----------------------------------------------------------------------------
(* The one thing that is not retried safely: a linked directory.           *)

\* A directory has been made at the destination for a link, and the link has stayed.
LinkRemains(r) == \E p \in Path : legacy[r][p] = "link" /\ saves[r][p] = "dir"

\* A box without a frontend has yet to come to such a tree, or has failed.
Doomed ==
  /\ mounted = {} /\ ~frontend /\ pc # "done"
  /\ \E r \in Route : LinkRemains(r) /\ (r \in todo \/ pc = "failed")

\* Whatever fails or is started again, the tree stays refused.
LEMMA DoomedStays == SaveInv /\ Doomed /\ [Next]_vars => Doomed'
<1> SUFFICES ASSUME SaveInv, Doomed, [Next]_vars
             PROVE  Doomed'
  OBVIOUS
<1>1. PICK r \in Route : LinkRemains(r) /\ (r \in todo \/ pc = "failed")
  BY DEF Doomed
<1>2. mounted = {} /\ ~frontend /\ pc # "done"
  BY DEF Doomed
<1>3. Conflicts(r) # {}
  BY <1>1, <1>2, SaveAssumption DEF LinkRemains, Conflicts, Source
<1>4. CASE Migrate
  <2>1. pc \in {"route", "move"} /\ r \in todo
    BY <1>1, <1>4 DEF Migrate, Begin, Refuse, DropFile, MoveFile, MoveDir, MoveFails, LinkFails, Turn,
       EndTree, Done
  <2>2. legacy'[r] = legacy[r] /\ saves'[r] = saves[r]
    <3>1. CASE pc = "move"
      BY <1>4, <2>1, <3>1, OthersKept DEF SaveInv, MoveInv
    <3>2. CASE pc = "route"
      BY <1>4, <3>2 DEF Migrate, Begin, Refuse, DropFile, MoveFile, MoveDir, MoveFails, LinkFails,
         Turn, EndTree, Done
    <3>3. QED
      BY <2>1, <3>1, <3>2
  <2>3. LinkRemains(r)'
    BY <1>1, <2>2 DEF LinkRemains
  <2>4. ~Begin(r) /\ ~Done
    BY <1>3, <2>1 DEF Begin, Done
  <2>5. mounted' = {} /\ ~frontend' /\ pc' # "done" /\ (r \in todo' \/ pc' = "failed")
    BY <1>2, <1>4, <2>1, <2>4
    DEF Migrate, Begin, Refuse, DropFile, MoveFile, MoveDir, MoveFails, LinkFails, EndTree
  <2>6. QED
    BY <2>3, <2>5 DEF Doomed
<1>5. CASE Rerun \/ PowerLoss \/ Reboot
  <2>1. LinkRemains(r)'
    BY <1>1, <1>5 DEF LinkRemains, Rerun, PowerLoss, Reboot, Boots
  <2>2. frontend' = frontend \/ frontend' = FALSE
    BY <1>5 DEF Rerun, PowerLoss, Reboot, Boots
  <2>3. mounted' = {} /\ pc' = "route" /\ todo' = Route
    BY <1>2, <1>5 DEF Rerun, PowerLoss, Reboot, Boots
  <2>4. QED
    BY <1>2, <2>1, <2>2, <2>3 DEF Doomed
<1>6. CASE UNCHANGED vars
  BY <1>6 DEF vars, Doomed, LinkRemains
<1>7. QED
  BY <1>2, <1>4, <1>5, <1>6 DEF Next, Mount, StartFrontend, Play

\* A start that finds a link and the directory an earlier migration made for it
\* (emubox_save_migrate.py:70-76) never comes to the frontend, nor does any start after it: the
\* exception that RetrySafe makes is one that retries never end.
THEOREM LinkIsFinal ==
  Spec => /\ [][(PowerLoss \/ Reboot) /\ (\E r \in Route : LinkRemains(r)) => Doomed']_vars
          /\ [](Doomed => []~frontend)
<1>1. ASSUME PowerLoss \/ Reboot, \E r \in Route : LinkRemains(r)
      PROVE  Doomed'
  <2>1. PICK r \in Route : LinkRemains(r)
    BY <1>1
  <2>2. LinkRemains(r)'
    BY <1>1, <2>1 DEF LinkRemains, PowerLoss, Reboot, Boots
  <2>3. mounted' = {} /\ ~frontend' /\ pc' = "route" /\ todo' = Route
    BY <1>1 DEF PowerLoss, Reboot, Boots
  <2>4. QED
    BY <2>2, <2>3 DEF Doomed
<1>2. Doomed => ~frontend
  BY DEF Doomed
<1>3. QED
  BY <1>1, <1>2, DoomedStays, SaveInvariant, PTL DEF Spec
=============================================================================
