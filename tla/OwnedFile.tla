------------------------------ MODULE OwnedFile ------------------------------
(* The editors of emubox-prepare, on one settings file.                      *)
(*                                                                           *)
(* A file is a preamble, and instances of sections.  Of each, it is kept     *)
(* which values a key is assigned in it, in the order of the lines: a key    *)
(* may be assigned more than once, and a section header may be written more  *)
(* than once.  Comments, spacing, a byte order mark and the order of         *)
(* different keys are presentation.  A file without sections (RetroArch's,   *)
(* ES-DE's XML) is one section that is always there, and no preamble.        *)
(*                                                                           *)
(* A table says for every key of every section what is declared: a value,    *)
(* Remove, or Nothing.                                                       *)
EXTENDS Naturals, Sequences

CONSTANTS
  Section, Key,
  Value,      \* what a key can be assigned
  Unwritable, \* values that would not read back as one setting
  Remove, Nothing

ASSUME OwnedFileAssumption ==
  /\ Unwritable \subseteq Value
  /\ Remove \notin Value /\ Nothing \notin Value /\ Remove # Nothing

Format == {"ini", "flat", "xml"}
Place  == [Key -> Seq(Value)]
NoKeys == [k \in Key |-> <<>>]

\* A file that is absent, empty or not readable as its format has no places, but that a flat
\* file's one section is always there.  Blank lines only are not readable either, and a flat file
\* of RetroArch's is readable when it is empty: a text without keys.
Shape   == [kind : {"absent", "empty", "junk", "text"},
            pre : Place, sec : [Section -> Seq(Place)]]
Table   == [Section -> [Key -> Value \cup {Remove, Nothing}]]

Blank(fmt, kind) ==
  [kind |-> kind, pre |-> NoKeys,
   sec |-> [s \in Section |-> IF fmt = "ini" THEN <<>> ELSE <<NoKeys>>]]

-----------------------------------------------------------------------------
(* Where a key is assigned.                                                *)

\* The places of a key of a section: every instance of it, and the preamble.
Present(f, s, k) ==
  f.pre[k] # <<>> \/ \E i \in DOMAIN f.sec[s] : f.sec[s][i][k] # <<>>

Content == {f \in Shape : f.kind # "text" => \A s \in Section, k \in Key : ~Present(f, s, k)}

Owned(table, s, k) == table[s][k] # Nothing
Valued(table, s) == {k \in Key : Owned(table, s, k) /\ table[s][k] # Remove}
OwnsNone(table)    == \A s \in Section, k \in Key : ~Owned(table, s, k)
ValuesNone(table)  == \A s \in Section : Valued(table, s) = {}

\* Declared values that would not read back are dropped before anything is done with them.
Writable(table) ==
  [s \in Section |-> [k \in Key |->
     IF table[s][k] \in Unwritable THEN Nothing ELSE table[s][k]]]

-----------------------------------------------------------------------------
(* The passes over a readable file.                                        *)

\* The instances of a section, made where one is needed and there is none.
Instances(f, s, needed) == IF f.sec[s] = <<>> /\ needed THEN <<NoKeys>> ELSE f.sec[s]

\* An owned key's assignments above the first header belong to no other section.
Swept(e, k) == \E s \in Section : Owned(e, s, k)

\* Mutant of Enforced: the region above the first header is not swept.
MutEnforced(f, e) ==
  [kind |-> "text", pre |-> f.pre,
   sec  |-> [s \in Section |->
     LET inst == Instances(f, s, Valued(e, s) # {})
     IN [i \in DOMAIN inst |-> [k \in Key |->
           IF ~Owned(e, s, k) THEN inst[i][k]
           ELSE IF i = 1 /\ k \in Valued(e, s) THEN <<e[s][k]>> ELSE <<>>]]]]

\* A removed key goes from all its places, a valued one from all but the first instance of its
\* section, which keeps one assignment of it.
Enforced(f, e) ==
  [kind |-> "text",
   pre  |-> [k \in Key |-> IF Swept(e, k) THEN <<>> ELSE f.pre[k]],
   sec  |-> [s \in Section |->
     LET inst == Instances(f, s, Valued(e, s) # {})
     IN [i \in DOMAIN inst |-> [k \in Key |->
           IF ~Owned(e, s, k) THEN inst[i][k]
           ELSE IF i = 1 /\ k \in Valued(e, s) THEN <<e[s][k]>> ELSE <<>>]]]]

\* Mutant of Missing: a seeded key is asserted like an enforced one.
MutMissing(f, d, s) == Valued(d, s)

\* A seeded key is assigned only where it is not assigned at all.
Missing(f, d, s) == {k \in Valued(d, s) : ~Present(f, s, k)}
Seeded(f, d) ==
  [kind |-> "text", pre |-> f.pre,
   sec  |-> [s \in Section |->
     LET inst == Instances(f, s, Missing(f, d, s) # {})
     IN [i \in DOMAIN inst |-> [k \in Key |->
           IF i = 1 /\ k \in Missing(f, d, s) THEN <<d[s][k]>> ELSE inst[i][k]]]]]

\* Mutant of Recreated: without the seeds, which a later run finds missing.
MutRecreated(headers, e, d) ==
  [kind |-> "text", pre |-> NoKeys,
   sec  |-> [s \in Section |->
     IF s \notin headers THEN <<>>
     ELSE <<[k \in Key |-> IF k \in Valued(e, s) THEN <<e[s][k]>> ELSE <<>>]>>]]

\* A file made anew has the declared values of both tiers, the headers of their sections, and
\* nothing else.
Recreated(headers, e, d) ==
  [kind |-> "text", pre |-> NoKeys,
   sec  |-> [s \in Section |->
     IF s \notin headers THEN <<>>
     ELSE <<[k \in Key |-> IF k \in Valued(e, s) THEN <<e[s][k]>>
                           ELSE IF k \in Valued(d, s) THEN <<d[s][k]>> ELSE <<>>]>>]]

-----------------------------------------------------------------------------
(* An editor: what a run leaves of a file.                                 *)

Readable(f) == f.kind = "text"

\* Mutant of HoldsSomething: what cannot be read is taken for absent.
MutHoldsSomething(f) == f.kind = "text"

\* What cannot be read may still hold a credential.
HoldsSomething(f) == f.kind \in {"junk", "text"}

SameSettings(f, g) == f.pre = g.pre /\ f.sec = g.sec

InPlace(f, e, d) ==
  LET g == Seeded(Enforced(f, e), d) IN IF SameSettings(f, g) THEN f ELSE g

Assert(headers, f, e, d) ==
  IF OwnsNone(e) /\ OwnsNone(d) THEN f
  ELSE IF Readable(f) THEN InPlace(f, e, d)
  ELSE IF ValuesNone(e) /\ ValuesNone(d) /\ ~HoldsSomething(f) THEN f
  ELSE Recreated(headers, e, d)

\* The sections that are declared; a flat file has its one, whatever is declared in it.
Headers(fmt, enforce, seed) ==
  {s \in Section : fmt # "ini" \/ \E k \in Key : Owned(enforce, s, k) \/ Owned(seed, s, k)}

\* ES-DE's values are escaped, so that each reads back.
Applied(fmt, table) == IF fmt = "xml" THEN table ELSE Writable(table)

Edit(fmt, f, enforce, seed) ==
  Assert(Headers(fmt, enforce, seed), f, Applied(fmt, enforce), Applied(fmt, seed))

-----------------------------------------------------------------------------
(* What an editor promises of a file.                                      *)

\* Each enforced key is assigned exactly once among its places, a removed one nowhere, and a
\* seeded one somewhere.
Declares(f, e, d) ==
  \A s \in Section, k \in Key :
    /\ e[s][k] = Remove => ~Present(f, s, k)
    /\ k \in Valued(e, s) =>
         /\ f.pre[k] = <<>> /\ f.sec[s] # <<>>
         /\ \A i \in DOMAIN f.sec[s] : f.sec[s][i][k] = IF i = 1 THEN <<e[s][k]>> ELSE <<>>
    /\ k \in Valued(d, s) => Present(f, s, k)

\* From f to g, every assignment is left alone that is not enforced, nor of a seeded key that is
\* not assigned.  A seeded key assigned only above the first header loses that to another section
\* that enforces a key of its name.
LeftAlone(f, e, d, s, k) ==
  /\ ~Owned(e, s, k)
  /\ \/ ~Owned(d, s, k)
     \/ \E i \in DOMAIN f.sec[s] : f.sec[s][i][k] # <<>>
     \/ f.pre[k] # <<>> /\ ~Swept(e, k)
Keeps(f, g, e, d) ==
  \A k \in Key :
    /\ ~Swept(e, k) => g.pre[k] = f.pre[k]
    /\ \A s \in Section : LeftAlone(f, e, d, s, k) =>
         \A i \in DOMAIN f.sec[s] : i \in DOMAIN g.sec[s] /\ g.sec[s][i][k] = f.sec[s][i][k]

=============================================================================
