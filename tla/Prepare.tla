------------------------------- MODULE Prepare -------------------------------
(* emubox-prepare: before every launch of the frontend, the session's run    *)
(* logs in to RetroAchievements, brings every credential file and every      *)
(* settings file to what the flake declares, and installs the custom         *)
(* systems.  An admin may run it by hand at any time.  A credential lives in *)
(* the token cache, in a file of its own (PPSSPP), and as keys of settings   *)
(* files.  The editors of a settings file are module OwnedFile.              *)
EXTENDS OwnedFile, FiniteSets

CONSTANTS
  Session, Admin,     \* who runs it
  File, Rank, FormatOf, \* settings files, their order in the declaration, and their formats
  Enforce, Seed,      \* what the flake declares in a file; Enforce with the feature off and on
  Target,             \* supporting emulators
  SecretTarget,       \* those with their token in a file of its own
  EncryptTarget,      \* those whose token is encrypted with the machine's id
  NameAt, TokenAt,    \* the file, section and key of a target's account name, and of its token
  Cache, Systems,     \* the token cache, and the custom systems file
  SystemsDeclared,    \* whether there are custom systems
  Name, FirstName,    \* account names, and the account's at first
  None,
  Draft,              \* what an emulator may leave of a file
  MaxRuns, MaxSaves, MaxFaults, MaxChanges, MaxRebuilds

Runner == {Session, Admin}
Secret == SecretTarget \cup {Cache}
Item   == Secret \cup File \cup {Systems}
\* The service's tokens for an account: a change of its password replaces the token.
Token  == Name \X (0 .. MaxChanges)
Login  == Name \X Token
KeyTarget == Target \ SecretTarget

ASSUME PrepareAssumption ==
  /\ Session # Admin
  /\ Name \subseteq Value /\ FirstName \in Name /\ Token \subseteq Value /\ None \notin Token \cup Login
  /\ Rank \in [File -> Nat] /\ FormatOf \in [File -> Format]
  /\ Enforce \in [BOOLEAN -> [File -> Table]]
  /\ Seed \in [File -> [Section -> [Key -> Value \cup {Nothing}]]]
  /\ \A f \in File, s \in Section, k \in Key : Seed[f][s][k] # Nothing =>
       /\ \A on \in BOOLEAN : Enforce[on][f][s][k] = Nothing
       /\ \A t \in Target : NameAt[t] # <<f, s, k>>
       /\ \A t \in KeyTarget : TokenAt[t] # <<f, s, k>>
  /\ SecretTarget \subseteq Target /\ EncryptTarget \subseteq KeyTarget
  /\ NameAt \in [Target -> File \X Section \X Key]
  /\ TokenAt \in [KeyTarget -> File \X Section \X Key]
  /\ Cache \notin SecretTarget /\ Systems \notin Secret \cup File /\ Secret \cap File = {}
  /\ SystemsDeclared \in BOOLEAN
  /\ Draft \in [File -> SUBSET Content]
  /\ MaxRuns \in Nat /\ MaxSaves \in Nat /\ MaxFaults \in Nat /\ MaxChanges \in Nat
  /\ MaxRebuilds \in Nat

VARIABLES
  \* the disk
  files, secrets, systems,
  revenant, \* what a power loss may bring back of an unlinked credential file
  litter,   \* whether a temporary file with a credential in it was left behind
  \* the box's declaration, and the service
  enabled, account, serial,
  \* runs
  pc,
  doc,      \* whether the run's document has the feature on
  outcome,  \* of the login
  login,    \* the account name and token the run resolved
  tables,   \* what it enforces in each settings file
  todo,     \* what it has not yet brought to its declared state
  cur, next,\* the item in hand, and for a settings file its new content
  \* history
  failed,   \* items of the run that could not be written
  alone,    \* no other run, emulator or power loss has interfered with the run
  runs, saves, faults, rebuilds

disk   == <<files, secrets, systems, revenant, litter>>
world  == <<enabled, account, serial>>
own    == <<doc, outcome, login, tables>>
hand   == <<cur, next>>
counts == <<runs, saves, faults, rebuilds>>
vars   == <<disk, world, pc, own, todo, hand, failed, alone, counts>>

-----------------------------------------------------------------------------
(* What a run declares.                                                    *)

\* The module's own table for a file, with every target's login keys merged into it: their
\* values, or their removal where nothing was resolved, or not encrypted with a machine id.
Merged(on, as, noId) ==
  [f \in File |-> [s \in Section |-> [k \in Key |->
     LET names  == {t \in Target : NameAt[t] = <<f, s, k>>}
         tokens == {t \in KeyTarget : TokenAt[t] = <<f, s, k>>}
         LoggedIn(t) == as # None /\ t \notin noId
     IN IF \E t \in names : LoggedIn(t) THEN as[1]
        ELSE IF \E t \in tokens : LoggedIn(t) THEN as[2]
        ELSE IF names \cup tokens # {} THEN Remove
        ELSE Enforce[on][f][s][k]]]]

Asserted(p, f) == Edit(FormatOf[f], files[f], tables[p][f], Seed[f])

\* What a run makes of a credential file: the token it resolved, or nothing.
Wanted(p) == IF login[p] = None THEN None ELSE login[p][2]

\* A settings file with a credential in it, or that may have one.
LoginAt == {NameAt[t] : t \in Target} \cup {TokenAt[t] : t \in KeyTarget}
Bears(f, g) ==
  \E at \in LoginAt : at[1] = f /\ (g.kind = "junk" \/ Present(g, at[2], at[3]))

-----------------------------------------------------------------------------
(* A run.                                                                  *)

At(p, at)  == pc[p] = at
Goes(p, to) == pc' = [pc EXCEPT ![p] = to]
Busy(p)    == pc[p] # "idle"

\* What the runs knew is gone with them.
Forgets(ps) ==
  /\ doc' = [p \in Runner |-> p \in ps \/ doc[p]]
  /\ outcome' = [p \in Runner |-> IF p \in ps THEN None ELSE outcome[p]]
  /\ login' = [p \in Runner |-> IF p \in ps THEN None ELSE login[p]]
  /\ tables' = [p \in Runner |-> IF p \in ps THEN Enforce[TRUE] ELSE tables[p]]
  /\ failed' = [p \in Runner |-> IF p \in ps THEN {} ELSE failed[p]]
  /\ alone' = [p \in Runner |-> p \notin ps /\ alone[p]]

\* The run has interfered with the others in progress.
Interferes(p) == alone' = [q \in Runner |-> alone[q] /\ (q = p \/ ~Busy(q))]

Start(p) ==
  /\ At(p, "idle") /\ runs < MaxRuns
  /\ runs' = runs + 1
  /\ doc' = [doc EXCEPT ![p] = enabled]
  /\ alone' = [alone EXCEPT ![p] = TRUE]
  /\ \/ /\ enabled /\ Goes(p, "login")
        /\ UNCHANGED <<outcome, tables, todo>>
     \/ /\ ~enabled /\ Goes(p, "work")
        /\ outcome' = [outcome EXCEPT ![p] = "off"]
        /\ tables' = [tables EXCEPT ![p] = Merged(FALSE, None, {})]
        /\ todo' = [todo EXCEPT ![p] = Item]
  /\ UNCHANGED <<disk, world, login, hand, failed, saves, faults, rebuilds>>

\* Mutant of Resolves: without a login, the cache goes too, whatever the reason.
MutResolves(p, what, as) ==
  /\ Goes(p, "work")
  /\ outcome' = [outcome EXCEPT ![p] = what]
  /\ login' = [login EXCEPT ![p] = as]
  /\ todo' = [todo EXCEPT ![p] = Item]
  /\ \E noId \in SUBSET EncryptTarget :
       tables' = [tables EXCEPT ![p] = Merged(doc[p], as, noId)]
  /\ UNCHANGED <<disk, world, doc, hand, failed, alone, counts>>

\* What the login came to.  The cache is brought up to date with an answer only.
Resolves(p, what, as) ==
  /\ Goes(p, "work")
  /\ outcome' = [outcome EXCEPT ![p] = what]
  /\ login' = [login EXCEPT ![p] = as]
  /\ todo' = [todo EXCEPT ![p] = IF what \in {"success", "rejected"} THEN Item
                                 ELSE Item \ {Cache}]
  /\ \E noId \in SUBSET EncryptTarget :
       tables' = [tables EXCEPT ![p] = Merged(doc[p], as, noId)]
  /\ UNCHANGED <<disk, world, doc, hand, failed, alone, counts>>

CredentialsUnreadable(p) ==
  At(p, "login") /\ Resolves(p, "unread", None)

Accepted(p) ==
  At(p, "login") /\ Resolves(p, "success", <<account, <<account, serial>>>>)

Rejected(p) ==
  At(p, "login") /\ Resolves(p, "rejected", None)

\* No answer in time, or none that makes sense: the cached token, if there is one.
Unreachable(p) ==
  /\ At(p, "login")
  /\ Resolves(p, "unreachable", IF secrets[Cache] = None THEN None
                                ELSE <<account, secrets[Cache]>>)

\* The cache first if the login was answered, and else after the other credential files; then
\* the settings files in their order; then the custom systems.
Turn(p, i) ==
  /\ i \in todo[p]
  /\ \/ i = Cache /\ (doc[p] \/ todo[p] \cap SecretTarget = {})
     \/ i \in SecretTarget /\ (doc[p] => Cache \notin todo[p])
     \/ i \in File /\ todo[p] \cap Secret = {} /\ \A f \in todo[p] \cap File : Rank[i] <= Rank[f]
     \/ i = Systems /\ todo[p] = {Systems}

Passed(p, i) ==
  /\ todo' = [todo EXCEPT ![p] = @ \ {i}]
  /\ Goes(p, IF todo[p] = {i} THEN "done" ELSE "work")

\* Mutant of Holds: any token will do.
MutHolds(p, i) ==
  \/ i \in Secret /\ (secrets[i] = None <=> Wanted(p) = None)
  \/ i \in File /\ files[i] = Asserted(p, i)
  \/ i = Systems /\ systems = (IF SystemsDeclared THEN "wanted" ELSE "absent")

Holds(p, i) ==
  \/ i \in Secret /\ secrets[i] = Wanted(p)
  \/ i \in File /\ files[i] = Asserted(p, i)
  \/ i = Systems /\ systems = (IF SystemsDeclared THEN "wanted" ELSE "absent")

\* Nothing is written that is there already.
Passes(p) ==
  /\ At(p, "work")
  /\ \E i \in todo[p] : Turn(p, i) /\ Holds(p, i) /\ Passed(p, i)
  /\ UNCHANGED <<disk, world, own, hand, failed, alone, counts>>

Unlink(p) ==
  /\ At(p, "work")
  /\ \E i \in Secret :
       /\ Turn(p, i) /\ ~Holds(p, i) /\ Wanted(p) = None /\ Passed(p, i)
       /\ secrets' = [secrets EXCEPT ![i] = None]
       /\ revenant' = [revenant EXCEPT ![i] = secrets[i]]
  /\ Interferes(p)
  /\ UNCHANGED <<files, systems, litter, world, own, hand, failed, counts>>

InstallSystems(p) ==
  /\ At(p, "work") /\ Turn(p, Systems) /\ ~Holds(p, Systems) /\ Passed(p, Systems)
  /\ systems' = IF SystemsDeclared THEN "wanted" ELSE "absent"
  /\ Interferes(p)
  /\ UNCHANGED <<files, secrets, revenant, litter, world, own, hand, failed, counts>>

\* The new content goes to a temporary file of its own.
Stage(p) ==
  /\ At(p, "work") /\ Goes(p, "staged")
  /\ \E i \in Secret \cup File :
       /\ Turn(p, i) /\ ~Holds(p, i) /\ (i \in Secret => Wanted(p) # None)
       /\ cur' = [cur EXCEPT ![p] = i]
       /\ next' = [next EXCEPT ![p] = IF i \in File THEN Asserted(p, i) ELSE None]
  /\ UNCHANGED <<disk, world, own, todo, failed, alone, counts>>

\* And takes the file's place.
Replace(p) ==
  /\ At(p, "staged") /\ Passed(p, cur[p])
  /\ \/ /\ cur[p] \in File
        /\ files' = [files EXCEPT ![cur[p]] = next[p]]
        /\ UNCHANGED <<secrets, revenant>>
     \/ /\ cur[p] \in Secret
        /\ secrets' = [secrets EXCEPT ![cur[p]] = Wanted(p)]
        /\ revenant' = [revenant EXCEPT ![cur[p]] = None]
        /\ UNCHANGED files
  /\ cur' = [cur EXCEPT ![p] = None] /\ next' = [next EXCEPT ![p] = None]
  /\ Interferes(p)
  /\ UNCHANGED <<systems, litter, world, own, failed, counts>>

\* What cannot be written or removed costs itself only; a temporary file is taken away.
Fails(p, i) ==
  /\ faults < MaxFaults /\ faults' = faults + 1
  /\ Passed(p, i)
  /\ failed' = [failed EXCEPT ![p] = @ \cup {i}]

CannotWrite(p) ==
  /\ \/ At(p, "work") /\ \E i \in Item : Turn(p, i) /\ ~Holds(p, i) /\ Fails(p, i)
     \/ At(p, "staged") /\ Fails(p, cur[p])
  /\ cur' = [cur EXCEPT ![p] = None] /\ next' = [next EXCEPT ![p] = None]
  /\ UNCHANGED <<disk, world, own, alone, runs, saves, rebuilds>>

Ends(p) ==
  /\ At(p, "done") /\ Goes(p, "idle") /\ Forgets({p})
  /\ UNCHANGED <<disk, world, todo, hand, counts>>

Work(p) ==
  \/ CredentialsUnreadable(p) \/ Accepted(p) \/ Rejected(p) \/ Unreachable(p)
  \/ Passes(p) \/ Unlink(p) \/ InstallSystems(p) \/ Stage(p) \/ Replace(p) \/ CannotWrite(p)
  \/ Ends(p)

-----------------------------------------------------------------------------
(* What happens to a run.                                                  *)

\* A temporary file stays where its writer is gone, with what was written to it, if anything was.
LeavesLitter(p) ==
  At(p, "staged") /\ (cur[p] \in File => Bears(cur[p], next[p]))

Gone(ps) ==
  /\ pc' = [p \in Runner |-> IF p \in ps THEN "idle" ELSE pc[p]]
  /\ litter' \in {litter, litter \/ \E p \in ps : LeavesLitter(p)}
  /\ cur' = [p \in Runner |-> IF p \in ps THEN None ELSE cur[p]]
  /\ next' = [p \in Runner |-> IF p \in ps THEN None ELSE next[p]]
  /\ todo' = [p \in Runner |-> IF p \in ps THEN {} ELSE todo[p]]
  /\ Forgets(ps)
  /\ faults < MaxFaults /\ faults' = faults + 1

Dies(p) ==
  /\ Busy(p) /\ Gone({p})
  /\ UNCHANGED <<files, secrets, systems, revenant, world, runs, saves, rebuilds>>

\* The removal of a credential file is not synced to disk.
PowerLoss ==
  /\ Gone(Runner)
  /\ \E back \in SUBSET {c \in Secret : revenant[c] # None} :
       secrets' = [c \in Secret |-> IF c \in back THEN revenant[c] ELSE secrets[c]]
  /\ revenant' = [c \in Secret |-> None]
  /\ UNCHANGED <<files, systems, world, runs, saves, rebuilds>>

\* An emulator saves its settings: under the frontend, so never beside the session's own run.
EmulatorSaves ==
  /\ ~Busy(Session) /\ saves < MaxSaves /\ saves' = saves + 1
  /\ \E f \in File : \E g \in Draft[f] : g # files[f] /\ files' = [files EXCEPT ![f] = g]
  /\ alone' = [p \in Runner |-> FALSE]
  /\ UNCHANGED <<secrets, systems, revenant, litter, world, pc, own, todo, hand, failed, runs,
                 faults, rebuilds>>

\* The box is rebuilt with the feature on or off.
Rebuild ==
  /\ rebuilds < MaxRebuilds /\ rebuilds' = rebuilds + 1
  /\ enabled' = ~enabled
  /\ UNCHANGED <<disk, account, serial, pc, own, todo, hand, failed, alone, runs, saves, faults>>

\* The account gets another password, and its token is replaced, or the box gets another account.
AccountChanges ==
  /\ serial < MaxChanges /\ serial' = serial + 1
  /\ \E n \in Name : account' = n
  /\ UNCHANGED <<disk, enabled, pc, own, todo, hand, failed, alone, counts>>

-----------------------------------------------------------------------------

Init ==
  /\ files = [f \in File |-> Blank(FormatOf[f], "absent")]
  /\ secrets = [c \in Secret |-> None] /\ revenant = [c \in Secret |-> None]
  /\ systems = "absent" /\ litter = FALSE
  /\ enabled = TRUE /\ account = FirstName /\ serial = 0
  /\ pc = [p \in Runner |-> "idle"] /\ doc = [p \in Runner |-> TRUE]
  /\ outcome = [p \in Runner |-> None] /\ login = [p \in Runner |-> None]
  /\ tables = [p \in Runner |-> Enforce[TRUE]] /\ todo = [p \in Runner |-> {}]
  /\ cur = [p \in Runner |-> None] /\ next = [p \in Runner |-> None]
  /\ failed = [p \in Runner |-> {}] /\ alone = [p \in Runner |-> FALSE]
  /\ runs = 0 /\ saves = 0 /\ faults = 0 /\ rebuilds = 0

Next ==
  \/ \E p \in Runner : Start(p) \/ Work(p) \/ Dies(p)
  \/ PowerLoss \/ EmulatorSaves \/ Rebuild \/ AccountChanges

Spec == Init /\ [][Next]_vars

-----------------------------------------------------------------------------
(* Properties.                                                             *)

Hand == Item \cup {None}

TypeOK ==
  /\ files \in [File -> Content] /\ secrets \in [Secret -> Token \cup {None}]
  /\ revenant \in [Secret -> Token \cup {None}]
  /\ systems \in {"absent", "wanted"} /\ litter \in BOOLEAN
  /\ enabled \in BOOLEAN /\ account \in Name /\ serial \in 0 .. MaxChanges
  /\ pc \in [Runner -> {"idle", "login", "work", "staged", "done"}]
  /\ doc \in [Runner -> BOOLEAN]
  /\ outcome \in [Runner -> {None, "off", "unread", "success", "rejected", "unreachable"}]
  /\ login \in [Runner -> Login \cup {None}] /\ tables \in [Runner -> [File -> Table]]
  /\ todo \in [Runner -> SUBSET Item] /\ cur \in [Runner -> Hand]
  /\ next \in [Runner -> Content \cup {None}]
  /\ failed \in [Runner -> SUBSET Item] /\ alone \in [Runner -> BOOLEAN]
  /\ runs \in 0 .. MaxRuns /\ saves \in 0 .. MaxSaves /\ faults \in 0 .. MaxFaults
  /\ rebuilds \in 0 .. MaxRebuilds

\* A run that is over, and that nothing has interfered with.
Over(p) == At(p, "done") /\ alone[p]

\* What cannot be written costs itself only: every other settings file has each enforced key
\* exactly once among its places, none of the removed ones, and every seeded one; login keys
\* included.
Delivered ==
  \A p \in Runner : Over(p) =>
    /\ \A f \in File \ failed[p] :
         Declares(files[f], Applied(FormatOf[f], tables[p][f]), Applied(FormatOf[f], Seed[f]))
    /\ Systems \notin failed[p] =>
         systems = IF SystemsDeclared THEN "wanted" ELSE "absent"

\* Where no login was resolved, no credential stays in any settings file or credential file that
\* could be written, whatever state it was in; and none in the cache where the service or the
\* declaration said so.
NoLoginLeft ==
  \A p \in Runner : Over(p) /\ login[p] = None =>
    /\ \A f \in File \ failed[p] : ~Bears(f, files[f])
    /\ \A c \in SecretTarget \ failed[p] : secrets[c] = None
    /\ outcome[p] \in {"off", "rejected"} /\ Cache \notin failed[p] => secrets[Cache] = None

\* What was resolved is in the cache, and in the credential files.
LoginKept ==
  \A p \in Runner : Over(p) /\ login[p] # None =>
    \A c \in Secret \ failed[p] : secrets[c] = login[p][2]

\* Run again, it would find nothing to write.
Quiet ==
  \A p \in Runner : Over(p) =>
    \A f \in File \ failed[p] : Asserted(p, f) = files[f]

\* The cache changes by an answer only: it gains a token that the service gave, and loses one
\* that it rejected or with the feature off, whatever other runs have read or do meanwhile.
CacheFollowsAnswers ==
  [][secrets'[Cache] # secrets[Cache] /\ ~PowerLoss =>
       \E p \in Runner :
         \/ outcome[p] = "success" /\ secrets'[Cache] = login[p][2]
         \/ outcome[p] \in {"off", "rejected"} /\ secrets'[Cache] = None]_vars

\* A run leaves every assignment of a readable file alone that it does not enforce, and of a
\* seeded key that is assigned, unless an emulator or another run wrote the file meanwhile.
FamilyKept ==
  [][\A p \in Runner : Replace(p) /\ alone[p] =>
       \A f \in File : Readable(files[f]) =>
         Keeps(files[f], files'[f], Applied(FormatOf[f], tables[p][f]),
               Applied(FormatOf[f], Seed[f]))]_vars

\* With the feature off, a run that met no failure leaves no credential on the box.  The code
\* breaks this: a temporary file of a write that was cut short is never removed.
NoCredentialLeft ==
  \A p \in Runner : Over(p) /\ outcome[p] = "off" /\ failed[p] = {} =>
    ~litter /\ \A c \in Secret : secrets[c] = None
=============================================================================
