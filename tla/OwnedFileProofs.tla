--------------------------- MODULE OwnedFileProofs ---------------------------
(* What the editors of OwnedFile do, for every table and every file.                            *)
EXTENDS OwnedFile, SequenceTheorems, TLAPS

SeedTable == [Section -> [Key -> Value \cup {Nothing}]]

\* A key is declared in one of the two tiers.
OneTier(e, d) == \A s \in Section, k \in Key : Owned(d, s, k) => ~Owned(e, s, k)

-----------------------------------------------------------------------------
(* Files remain files.                                                     *)

\* A key with a declared value is declared one that it can be assigned.
LEMMA ReadsValue ==
  ASSUME NEW e \in Table, NEW s \in Section, NEW k \in Valued(e, s)
  PROVE  e[s][k] \in Value
BY DEF Table, Valued, Owned

\* A table of seeds is a table, and removes nothing.
LEMMA SeedsAreTables ==
  ASSUME NEW d \in SeedTable
  PROVE  d \in Table /\ \A s \in Section : \A k \in Key : d[s][k] # Remove
BY OwnedFileAssumption DEF SeedTable, Table

\* A function over the positions of a sequence is a sequence of its length.
LEMMA SameLength ==
  ASSUME NEW S, NEW T, NEW q \in Seq(S), NEW g \in [DOMAIN q -> T]
  PROVE  g \in Seq(T) /\ DOMAIN g = DOMAIN q
<1>1. PICK n \in Nat : q \in [1 .. n -> S]
  BY SeqDef
<1>2. g \in [1 .. n -> T]
  BY <1>1
<1> QED
  BY <1>2, SeqDef

\* One element makes a sequence that is not empty.
LEMMA SingletonSeq ==
  ASSUME NEW S, NEW x \in S
  PROVE  <<x>> \in Seq(S) /\ <<x>> # <<>>
OBVIOUS

\* A place may assign nothing.
LEMMA EmptyPlace == NoKeys \in Place
BY EmptySeq DEF NoKeys, Place

\* The instances of a section are places, and there is one where one is needed.
LEMMA InstancesTyped ==
  ASSUME NEW f \in Shape, NEW s \in Section, NEW needed \in BOOLEAN
  PROVE  /\ Instances(f, s, needed) \in Seq(Place)
         /\ needed => Instances(f, s, needed) # <<>>
         /\ f.sec[s] # <<>> \/ ~needed => Instances(f, s, needed) = f.sec[s]
BY EmptyPlace DEF Instances, Shape

\* A file is still one after the pass of the enforced keys.
LEMMA EnforcedTyped ==
  ASSUME NEW f \in Shape, NEW e \in Table
  PROVE  Enforced(f, e) \in Shape
<1> DEFINE g == Enforced(f, e)
<1>1. g.pre \in Place
  BY EmptySeq DEF Enforced, Shape, Place
<1>2. ASSUME NEW s \in Section PROVE g.sec[s] \in Seq(Place)
  <2> DEFINE inst == Instances(f, s, Valued(e, s) # {})
  <2>1. inst \in Seq(Place)
    BY InstancesTyped
  <2> DEFINE at(i, k) == IF ~Owned(e, s, k) THEN inst[i][k]
                         ELSE IF i = 1 /\ k \in Valued(e, s) THEN <<e[s][k]>> ELSE <<>>
  <2>2. ASSUME NEW i \in DOMAIN inst, NEW k \in Key PROVE at(i, k) \in Seq(Value)
    <3>1. inst[i] \in Place
      BY <2>1
    <3> HIDE DEF inst
    <3>2. inst[i][k] \in Seq(Value)
      BY <3>1 DEF Place
    <3>3. k \in Valued(e, s) => <<e[s][k]>> \in Seq(Value)
      BY ReadsValue
    <3> QED
      BY <3>2, <3>3, EmptySeq
  <2>3. g.sec[s] = [i \in DOMAIN inst |-> [k \in Key |-> at(i, k)]]
    BY DEF Enforced
  <2> HIDE DEF inst, at
  <2>4. [i \in DOMAIN inst |-> [k \in Key |-> at(i, k)]] \in [DOMAIN inst -> Place]
    BY <2>2 DEF Place
  <2> QED
    BY <2>1, <2>3, <2>4, SameLength
<1>3. g.kind = "text" /\ g = [kind |-> g.kind, pre |-> g.pre, sec |-> g.sec]
      /\ g.sec = [s \in Section |-> g.sec[s]]
  BY DEF Enforced
<1> HIDE DEF g
<1>4. g.sec \in [Section -> Seq(Place)]
  BY <1>2, <1>3
<1> QED
  BY <1>1, <1>3, <1>4 DEF Shape, g

\* A file is still one after the pass of the seeded keys.
LEMMA SeededTyped ==
  ASSUME NEW f \in Shape, NEW d \in Table
  PROVE  Seeded(f, d) \in Shape
<1> DEFINE g == Seeded(f, d)
<1>2. ASSUME NEW s \in Section PROVE g.sec[s] \in Seq(Place)
  <2> DEFINE inst == Instances(f, s, Missing(f, d, s) # {})
  <2>1. inst \in Seq(Place)
    BY InstancesTyped
  <2> DEFINE at(i, k) == IF i = 1 /\ k \in Missing(f, d, s) THEN <<d[s][k]>> ELSE inst[i][k]
  <2>2. ASSUME NEW i \in DOMAIN inst, NEW k \in Key PROVE at(i, k) \in Seq(Value)
    <3>1. inst[i] \in Place
      BY <2>1
    <3> HIDE DEF inst
    <3>2. inst[i][k] \in Seq(Value)
      BY <3>1 DEF Place
    <3>3. k \in Missing(f, d, s) => <<d[s][k]>> \in Seq(Value)
      BY ReadsValue DEF Missing
    <3> QED
      BY <3>2, <3>3
  <2>3. g.sec[s] = [i \in DOMAIN inst |-> [k \in Key |-> at(i, k)]]
    BY DEF Seeded
  <2> HIDE DEF inst, at
  <2>4. [i \in DOMAIN inst |-> [k \in Key |-> at(i, k)]] \in [DOMAIN inst -> Place]
    BY <2>2 DEF Place
  <2> QED
    BY <2>1, <2>3, <2>4, SameLength
<1>3. g.kind = "text" /\ g = [kind |-> g.kind, pre |-> g.pre, sec |-> g.sec]
      /\ g.sec = [s \in Section |-> g.sec[s]] /\ g.pre = f.pre
  BY DEF Seeded
<1> HIDE DEF g
<1>4. g.sec \in [Section -> Seq(Place)]
  BY <1>2, <1>3
<1> QED
  BY <1>3, <1>4 DEF Shape, g

\* What is made anew is a file.
LEMMA RecreatedTyped ==
  ASSUME NEW headers, NEW e \in Table, NEW d \in Table
  PROVE  Recreated(headers, e, d) \in Shape
<1> DEFINE g == Recreated(headers, e, d)
           place(s) == [k \in Key |-> IF k \in Valued(e, s) THEN <<e[s][k]>>
                                     ELSE IF k \in Valued(d, s) THEN <<d[s][k]>> ELSE <<>>]
<1>1. ASSUME NEW s \in Section PROVE place(s) \in Place
  BY ReadsValue, EmptySeq DEF Place
<1>2. ASSUME NEW s \in Section PROVE g.sec[s] = IF s \notin headers THEN <<>> ELSE <<place(s)>>
  BY DEF Recreated
<1>3. g.kind = "text" /\ g = [kind |-> g.kind, pre |-> g.pre, sec |-> g.sec]
      /\ g.sec = [s \in Section |-> g.sec[s]] /\ g.pre = NoKeys
  BY DEF Recreated
<1> HIDE DEF g, place
<1>4. ASSUME NEW s \in Section PROVE g.sec[s] \in Seq(Place)
  BY <1>1, <1>2, EmptySeq, SingletonSeq
<1>5. g.sec \in [Section -> Seq(Place)]
  BY <1>3, <1>4
<1> QED
  BY <1>3, <1>5, EmptyPlace DEF Shape, g

\* Dropping values that would not read back leaves a table, and drops no removal.
LEMMA AppliedTyped ==
  ASSUME NEW fmt, NEW t \in Table
  PROVE  /\ Applied(fmt, t) \in Table
         /\ t \in SeedTable => Applied(fmt, t) \in SeedTable
         /\ \A s \in Section : \A k \in Key :
              /\ Applied(fmt, t)[s][k] \in {t[s][k], Nothing}
              /\ t[s][k] = Remove => Applied(fmt, t)[s][k] = Remove
BY OwnedFileAssumption DEF Applied, Writable, Table, SeedTable

\* An editor leaves a file that a file can be.
LEMMA EditTyped ==
  ASSUME NEW fmt, NEW f \in Content, NEW e \in Table, NEW d \in Table
  PROVE  Edit(fmt, f, e, d) \in Content
<1> DEFINE x == Applied(fmt, e)
           y == Applied(fmt, d)
           h == Headers(fmt, e, d)
<1>1. x \in Table /\ y \in Table
  BY AppliedTyped
<1>2. f \in Shape
  BY DEF Content
<1>3. Seeded(Enforced(f, x), y) \in Content
  BY <1>1, <1>2, EnforcedTyped, SeededTyped DEF Content, Seeded
<1>4. Recreated(h, x, y) \in Content
  BY <1>1, RecreatedTyped DEF Content, Recreated
<1>5. Edit(fmt, f, e, d) \in {f, Seeded(Enforced(f, x), y), Recreated(h, x, y)}
  BY DEF Edit, Assert, InPlace
<1> QED
  BY <1>3, <1>4, <1>5

-----------------------------------------------------------------------------
(* An edited file is what is declared.                                     *)

\* What the pass of the enforced keys makes of one key of one section.
LEMMA EnforcedAt ==
  ASSUME NEW f \in Shape, NEW e \in Table, NEW s \in Section, NEW k \in Key
  PROVE  LET g == Enforced(f, e)
             inst == Instances(f, s, Valued(e, s) # {})
         IN /\ g.pre[k] = IF Swept(e, k) THEN <<>> ELSE f.pre[k]
            /\ DOMAIN g.sec[s] = DOMAIN inst
            /\ \A i \in DOMAIN inst :
                 g.sec[s][i][k] = IF ~Owned(e, s, k) THEN inst[i][k]
                                  ELSE IF i = 1 /\ k \in Valued(e, s) THEN <<e[s][k]>> ELSE <<>>
BY DEF Enforced

\* What the pass of the seeded keys makes of one key of one section.
LEMMA SeededAt ==
  ASSUME NEW f \in Shape, NEW d \in Table, NEW s \in Section, NEW k \in Key
  PROVE  LET g == Seeded(f, d)
             inst == Instances(f, s, Missing(f, d, s) # {})
         IN /\ g.pre[k] = f.pre[k]
            /\ DOMAIN g.sec[s] = DOMAIN inst
            /\ \A i \in DOMAIN inst :
                 g.sec[s][i][k] = IF i = 1 /\ k \in Missing(f, d, s) THEN <<d[s][k]>>
                                  ELSE inst[i][k]
BY DEF Seeded

\* A sequence that is not empty has a first element.
LEMMA FirstOf ==
  ASSUME NEW S, NEW q \in Seq(S), q # <<>>
  PROVE  1 \in DOMAIN q
BY EmptySeq

\* Where there is no instance of a section, what is made for it assigns nothing.
LEMMA InstancesAt ==
  ASSUME NEW f \in Shape, NEW s \in Section, NEW needed \in BOOLEAN,
         NEW i \in DOMAIN Instances(f, s, needed), NEW k \in Key
  PROVE  IF i \in DOMAIN f.sec[s] THEN Instances(f, s, needed)[i][k] = f.sec[s][i][k]
         ELSE Instances(f, s, needed)[i][k] = <<>>
BY DEF Instances, NoKeys, Shape

\* After both passes, a file is what both tiers declare.
LEMMA InPlaceDeclares ==
  ASSUME NEW f \in Shape, NEW e \in Table, NEW d \in SeedTable, OneTier(e, d)
  PROVE  Declares(Seeded(Enforced(f, e), d), e, d)
<1> DEFINE g == Enforced(f, e)
           h == Seeded(g, d)
<1>1. g \in Shape /\ d \in Table /\ h \in Shape
  BY EnforcedTyped, SeededTyped, SeedsAreTables
<1> HIDE DEF g, h
<1> SUFFICES ASSUME NEW s \in Section, NEW k \in Key
             PROVE  /\ e[s][k] = Remove => ~Present(h, s, k)
                    /\ k \in Valued(e, s) =>
                         /\ h.pre[k] = <<>> /\ h.sec[s] # <<>>
                         /\ \A i \in DOMAIN h.sec[s] :
                              h.sec[s][i][k] = IF i = 1 THEN <<e[s][k]>> ELSE <<>>
                    /\ k \in Valued(d, s) => Present(h, s, k)
  BY DEF Declares, h, g
<1> DEFINE inst == Instances(f, s, Valued(e, s) # {})
           made == Instances(g, s, Missing(g, d, s) # {})
<1>2. /\ g.pre[k] = IF Swept(e, k) THEN <<>> ELSE f.pre[k]
      /\ DOMAIN g.sec[s] = DOMAIN inst
      /\ \A i \in DOMAIN inst :
           g.sec[s][i][k] = IF ~Owned(e, s, k) THEN inst[i][k]
                            ELSE IF i = 1 /\ k \in Valued(e, s) THEN <<e[s][k]>> ELSE <<>>
  BY EnforcedAt DEF g
<1>3. /\ h.pre[k] = g.pre[k]
      /\ DOMAIN h.sec[s] = DOMAIN made
      /\ \A i \in DOMAIN made :
           h.sec[s][i][k] = IF i = 1 /\ k \in Missing(g, d, s) THEN <<d[s][k]>> ELSE made[i][k]
  BY <1>1, SeededAt DEF h
<1>4. inst \in Seq(Place) /\ made \in Seq(Place)
  BY <1>1, InstancesTyped
<1>5. Owned(e, s, k) => k \notin Missing(g, d, s) /\ Swept(e, k)
  BY OwnedFileAssumption DEF OneTier, Missing, Valued, Swept
<1>6. \A i \in DOMAIN made : IF i \in DOMAIN g.sec[s] THEN made[i][k] = g.sec[s][i][k]
                                                     ELSE made[i][k] = <<>>
  BY <1>1, InstancesAt
<1>7. k \in Valued(e, s) => inst # <<>> /\ made = g.sec[s] /\ 1 \in DOMAIN inst
  <2> SUFFICES ASSUME k \in Valued(e, s) PROVE inst # <<>> /\ made = g.sec[s] /\ 1 \in DOMAIN inst
    OBVIOUS
  <2>1. inst # <<>>
    BY InstancesTyped
  <2>2. 1 \in DOMAIN inst
    BY <2>1, <1>4, FirstOf
  <2>3. g.sec[s] # <<>>
    BY <1>2, <2>2
  <2> QED
    BY <2>1, <2>2, <2>3, <1>1, InstancesTyped
<1> HIDE DEF inst, made
<1>8. e[s][k] = Remove => ~Present(h, s, k)
  <2> SUFFICES ASSUME e[s][k] = Remove PROVE ~Present(h, s, k)
    OBVIOUS
  <2>1. Owned(e, s, k) /\ k \notin Valued(e, s)
    BY OwnedFileAssumption DEF Owned, Valued
  <2> QED
    BY <2>1, <1>2, <1>3, <1>5, <1>6 DEF Present
<1>9. k \in Valued(e, s) =>
        /\ h.pre[k] = <<>> /\ h.sec[s] # <<>>
        /\ \A i \in DOMAIN h.sec[s] : h.sec[s][i][k] = IF i = 1 THEN <<e[s][k]>> ELSE <<>>
  <2> SUFFICES ASSUME k \in Valued(e, s)
               PROVE  /\ h.pre[k] = <<>> /\ h.sec[s] # <<>>
                      /\ \A i \in DOMAIN h.sec[s] :
                           h.sec[s][i][k] = IF i = 1 THEN <<e[s][k]>> ELSE <<>>
    OBVIOUS
  <2>1. Owned(e, s, k)
    BY DEF Valued
  <2> QED
    BY <2>1, <1>2, <1>3, <1>5, <1>6, <1>7
<1>10. k \in Valued(d, s) => Present(h, s, k)
  <2> SUFFICES ASSUME k \in Valued(d, s) PROVE Present(h, s, k)
    OBVIOUS
  <2>1. CASE k \in Missing(g, d, s)
    <3>1. made # <<>>
      BY <2>1, <1>1, InstancesTyped DEF made
    <3>2. 1 \in DOMAIN made
      BY <3>1, <1>4, FirstOf
    <3>3. h.sec[s][1][k] = <<d[s][k]>>
      BY <2>1, <3>2, <1>3
    <3>4. h.sec[s][1][k] # <<>> /\ 1 \in DOMAIN h.sec[s]
      BY <3>2, <3>3, <1>3, SingletonSeq
    <3> QED
      BY <3>4 DEF Present
  <2>2. CASE k \notin Missing(g, d, s)
    <3>1. Present(g, s, k)
      BY <2>2 DEF Missing
    <3>2. CASE g.pre[k] # <<>>
      BY <3>2, <1>3 DEF Present
    <3>3. CASE \E i \in DOMAIN g.sec[s] : g.sec[s][i][k] # <<>>
      <4>1. PICK i \in DOMAIN g.sec[s] : g.sec[s][i][k] # <<>>
        BY <3>3
      <4>2. g.sec[s] # <<>>
        BY <4>1
      <4>3. made = g.sec[s]
        BY <4>2, <1>1, InstancesTyped DEF made
      <4> QED
        BY <4>1, <4>3, <2>2, <1>3 DEF Present
    <3> QED
      BY <3>1, <3>2, <3>3 DEF Present
  <2> QED
    BY <2>1, <2>2
<1> QED
  BY <1>8, <1>9, <1>10

\* A file made anew is what both tiers declare.
LEMMA RecreatedDeclares ==
  ASSUME NEW headers, NEW e \in Table, NEW d \in SeedTable, OneTier(e, d),
         \A s \in Section : Valued(e, s) \cup Valued(d, s) # {} => s \in headers
  PROVE  Declares(Recreated(headers, e, d), e, d)
<1> DEFINE g == Recreated(headers, e, d)
<1>1. ASSUME NEW s \in Section, NEW k \in Key
      PROVE  /\ g.pre[k] = <<>>
             /\ s \notin headers => g.sec[s] = <<>>
             /\ s \in headers =>
                  /\ DOMAIN g.sec[s] = {1} /\ g.sec[s] # <<>>
                  /\ g.sec[s][1][k] = IF k \in Valued(e, s) THEN <<e[s][k]>>
                                     ELSE IF k \in Valued(d, s) THEN <<d[s][k]>> ELSE <<>>
  BY DEF Recreated, NoKeys
<1> HIDE DEF g
<1> SUFFICES ASSUME NEW s \in Section, NEW k \in Key
             PROVE  /\ e[s][k] = Remove => ~Present(g, s, k)
                    /\ k \in Valued(e, s) =>
                         /\ g.pre[k] = <<>> /\ g.sec[s] # <<>>
                         /\ \A i \in DOMAIN g.sec[s] :
                              g.sec[s][i][k] = IF i = 1 THEN <<e[s][k]>> ELSE <<>>
                    /\ k \in Valued(d, s) => Present(g, s, k)
  BY DEF Declares, g
<1>2. e[s][k] = Remove => ~Present(g, s, k)
  <2> SUFFICES ASSUME e[s][k] = Remove PROVE ~Present(g, s, k)
    OBVIOUS
  <2>1. k \notin Valued(e, s) /\ k \notin Valued(d, s)
    BY OwnedFileAssumption DEF Valued, Owned, OneTier
  <2>2. \A i \in DOMAIN g.sec[s] : g.sec[s][i][k] = <<>>
    <3>1. CASE s \in headers
      <4>1. DOMAIN g.sec[s] = {1} /\ g.sec[s][1][k] = <<>>
        BY <3>1, <2>1, <1>1
      <4> QED
        BY <4>1
    <3>2. CASE s \notin headers
      <4>1. g.sec[s] = <<>>
        BY <3>2, <1>1
      <4> QED
        BY <4>1
    <3> QED
      BY <3>1, <3>2
  <2>3. g.pre[k] = <<>>
    BY <1>1
  <2> QED
    BY <2>2, <2>3 DEF Present
<1>3. k \in Valued(e, s) =>
        /\ g.pre[k] = <<>> /\ g.sec[s] # <<>>
        /\ \A i \in DOMAIN g.sec[s] : g.sec[s][i][k] = IF i = 1 THEN <<e[s][k]>> ELSE <<>>
  <2> SUFFICES ASSUME k \in Valued(e, s)
               PROVE  /\ g.pre[k] = <<>> /\ g.sec[s] # <<>>
                      /\ \A i \in DOMAIN g.sec[s] :
                           g.sec[s][i][k] = IF i = 1 THEN <<e[s][k]>> ELSE <<>>
    OBVIOUS
  <2>1. s \in headers
    OBVIOUS
  <2>2. DOMAIN g.sec[s] = {1} /\ g.sec[s] # <<>> /\ g.sec[s][1][k] = <<e[s][k]>>
    BY <2>1, <1>1
  <2>3. g.pre[k] = <<>>
    BY <1>1
  <2> QED
    BY <2>2, <2>3
<1>4. k \in Valued(d, s) => Present(g, s, k)
  <2> SUFFICES ASSUME k \in Valued(d, s) PROVE Present(g, s, k)
    OBVIOUS
  <2>1. s \in headers /\ k \notin Valued(e, s)
    BY DEF Valued, OneTier
  <2>2. g.sec[s][1][k] = <<d[s][k]>> /\ 1 \in DOMAIN g.sec[s]
    BY <2>1, <1>1
  <2>3. g.sec[s][1][k] # <<>>
    BY <2>2, SingletonSeq
  <2> QED
    BY <2>2, <2>3 DEF Present
<1> QED
  BY <1>2, <1>3, <1>4

\* Places that agree on every key are the same, and so are files that do.
LEMMA SamePlaces ==
  ASSUME NEW p \in Seq(Place), NEW q \in Seq(Place), DOMAIN p = DOMAIN q,
         \A i \in DOMAIN q : \A k \in Key : p[i][k] = q[i][k]
  PROVE  p = q
<1>1. ASSUME NEW i \in DOMAIN q PROVE p[i] = q[i]
  <2>1. p[i] \in Place /\ q[i] \in Place
    OBVIOUS
  <2> QED
    BY <2>1 DEF Place
<1> QED
  BY <1>1

\* What is declared stays: an editor that finds it changes nothing.
LEMMA DeclaredIsStable ==
  ASSUME NEW f \in Shape, NEW e \in Table, NEW d \in SeedTable, Declares(f, e, d)
  PROVE  InPlace(f, e, d) = f
<1> DEFINE g == Enforced(f, e)
           h == Seeded(g, d)
<1>1. g \in Shape /\ d \in Table /\ h \in Shape
  BY EnforcedTyped, SeededTyped, SeedsAreTables
<1> HIDE DEF g, h
<1>2. g.pre = f.pre
  <2>1. ASSUME NEW k \in Key PROVE g.pre[k] = f.pre[k]
    <3>1. CASE ~Swept(e, k)
      BY <3>1 DEF g, Enforced
    <3>2. CASE Swept(e, k)
      <4>1. PICK s \in Section : Owned(e, s, k)
        BY <3>2 DEF Swept
      <4>2. f.pre[k] = <<>>
        <5>1. CASE e[s][k] = Remove
          BY <5>1 DEF Declares, Present
        <5>2. CASE e[s][k] # Remove
          BY <5>2, <4>1 DEF Declares, Valued
        <5> QED
          BY <5>1, <5>2
      <4>3. g.pre[k] = <<>>
        BY <3>2 DEF g, Enforced
      <4> QED
        BY <4>2, <4>3
    <3> QED
      BY <3>1, <3>2
  <2>2. g.pre \in Place /\ f.pre \in Place
    BY <1>1 DEF Shape
  <2> QED
    BY <2>1, <2>2 DEF Place
<1>3. ASSUME NEW s \in Section PROVE g.sec[s] = f.sec[s]
  <2> DEFINE inst == Instances(f, s, Valued(e, s) # {})
  <2>1. inst = f.sec[s]
    <3>1. CASE Valued(e, s) = {}
      BY <3>1, InstancesTyped
    <3>2. CASE Valued(e, s) # {}
      <4>1. PICK k \in Valued(e, s) : TRUE
        BY <3>2
      <4>2. k \in Key
        BY DEF Valued
      <4>3. f.sec[s] # <<>>
        BY <4>2 DEF Declares
      <4> QED
        BY <4>3, InstancesTyped
    <3> QED
      BY <3>1, <3>2
  <2> HIDE DEF inst
  <2>2. ASSUME NEW k \in Key
        PROVE  /\ DOMAIN g.sec[s] = DOMAIN f.sec[s]
               /\ \A i \in DOMAIN f.sec[s] :
                    g.sec[s][i][k] = IF ~Owned(e, s, k) THEN f.sec[s][i][k]
                                     ELSE IF i = 1 /\ k \in Valued(e, s) THEN <<e[s][k]>> ELSE <<>>
    BY <2>1, EnforcedAt DEF g, inst
  <2>3. DOMAIN g.sec[s] = DOMAIN f.sec[s]
    <3>1. DOMAIN g.sec[s] = DOMAIN inst
      BY DEF g, Enforced, inst
    <3> QED
      BY <3>1, <2>1
  <2>4. ASSUME NEW i \in DOMAIN f.sec[s], NEW k \in Key PROVE g.sec[s][i][k] = f.sec[s][i][k]
    <3>1. CASE ~Owned(e, s, k)
      BY <3>1, <2>2
    <3>2. CASE Owned(e, s, k) /\ e[s][k] # Remove
      <4>1. k \in Valued(e, s)
        BY <3>2 DEF Valued
      <4>2. f.sec[s][i][k] = IF i = 1 THEN <<e[s][k]>> ELSE <<>>
        BY <4>1 DEF Declares
      <4> QED
        BY <4>1, <4>2, <3>2, <2>2
    <3>3. CASE e[s][k] = Remove
      <4>1. f.sec[s][i][k] = <<>>
        BY <3>3 DEF Declares, Present
      <4>2. Owned(e, s, k) /\ k \notin Valued(e, s)
        BY <3>3, OwnedFileAssumption DEF Owned, Valued
      <4> QED
        BY <4>1, <4>2, <2>2
    <3> QED
      BY <3>1, <3>2, <3>3
  <2>5. g.sec[s] \in Seq(Place) /\ f.sec[s] \in Seq(Place)
    BY <1>1 DEF Shape
  <2> QED
    BY <2>3, <2>4, <2>5, SamePlaces
<1>4. ASSUME NEW s \in Section PROVE h.sec[s] = g.sec[s]
  <2>1. Missing(g, d, s) = {}
    <3> SUFFICES ASSUME NEW k \in Valued(d, s) PROVE Present(g, s, k)
      BY DEF Missing
    <3>1. k \in Key /\ Present(f, s, k)
      BY DEF Declares, Valued
    <3> QED
      BY <3>1, <1>2, <1>3 DEF Present
  <2>2. Instances(g, s, Missing(g, d, s) # {}) = g.sec[s]
    BY <2>1, <1>1, InstancesTyped
  <2>3. DOMAIN h.sec[s] = DOMAIN g.sec[s]
    BY <2>2 DEF h, Seeded
  <2>4. ASSUME NEW i \in DOMAIN g.sec[s], NEW k \in Key PROVE h.sec[s][i][k] = g.sec[s][i][k]
    <3>1. h.sec[s][i][k] = IF i = 1 /\ k \in Missing(g, d, s) THEN <<d[s][k]>> ELSE g.sec[s][i][k]
      BY <1>1, <2>2, SeededAt DEF h
    <3> QED
      BY <3>1, <2>1
  <2>5. h.sec[s] \in Seq(Place) /\ g.sec[s] \in Seq(Place)
    BY <1>1 DEF Shape
  <2> QED
    BY <2>3, <2>4, <2>5, SamePlaces
<1>5. h.pre = f.pre
  BY <1>2 DEF h, Seeded
<1>6. h.sec = f.sec
  <2>1. h.sec \in [Section -> Seq(Place)] /\ f.sec \in [Section -> Seq(Place)]
    BY <1>1 DEF Shape
  <2> QED
    BY <2>1, <1>3, <1>4
<1> QED
  BY <1>5, <1>6 DEF InPlace, SameSettings, g, h

-----------------------------------------------------------------------------
(* A run of an editor.                                                     *)

\* A file that an editor leaves as it is.
Settled(f, e, d) ==
  \/ OwnsNone(e) /\ OwnsNone(d)
  \/ Readable(f) /\ Declares(f, e, d)
  \/ ValuesNone(e) /\ ValuesNone(d) /\ f.kind \in {"absent", "empty"}

\* Dropping values that would not read back keeps the tiers apart.
LEMMA AppliedTiers ==
  ASSUME NEW fmt, NEW e \in Table, NEW d \in SeedTable, OneTier(e, d)
  PROVE  OneTier(Applied(fmt, e), Applied(fmt, d))
BY AppliedTyped, SeedsAreTables DEF OneTier, Owned

\* A section with a value to assign has its header in a file made anew.
LEMMA HeadersSuffice ==
  ASSUME NEW fmt, NEW e \in Table, NEW d \in Table, NEW s \in Section,
         Valued(Applied(fmt, e), s) \cup Valued(Applied(fmt, d), s) # {}
  PROVE  s \in Headers(fmt, e, d)
<1>1. PICK k \in Key : Owned(Applied(fmt, e), s, k) \/ Owned(Applied(fmt, d), s, k)
  BY DEF Valued
<1>2. Owned(e, s, k) \/ Owned(d, s, k)
  BY <1>1, AppliedTyped DEF Owned
<1> QED
  BY <1>2 DEF Headers

\* What an editor leaves is a file that it would leave as it is.
LEMMA EditSettles ==
  ASSUME NEW fmt, NEW f \in Content, NEW e \in Table, NEW d \in SeedTable, OneTier(e, d)
  PROVE  Settled(Edit(fmt, f, e, d), Applied(fmt, e), Applied(fmt, d))
<1> DEFINE x == Applied(fmt, e)
           y == Applied(fmt, d)
           g == Edit(fmt, f, e, d)
           hs == Headers(fmt, e, d)
<1>1. x \in Table /\ y \in SeedTable /\ OneTier(x, y) /\ d \in Table /\ f \in Shape
  BY AppliedTyped, AppliedTiers, SeedsAreTables DEF Content
<1>2. \A s \in Section : Valued(x, s) \cup Valued(y, s) # {} => s \in hs
  BY <1>1, HeadersSuffice
<1>3. g = Assert(hs, f, x, y)
  BY DEF Edit
<1> HIDE DEF x, y, g, hs
<1>4. CASE OwnsNone(x) /\ OwnsNone(y)
  BY <1>4 DEF Settled, x, y
<1>5. CASE ~(OwnsNone(x) /\ OwnsNone(y)) /\ Readable(f)
  <2>1. g = InPlace(f, x, y)
    BY <1>3, <1>5 DEF Assert
  <2>2. Declares(Seeded(Enforced(f, x), y), x, y)
    BY <1>1, InPlaceDeclares
  <2>3. Declares(g, x, y) /\ Readable(g)
    <3>1. CASE SameSettings(f, Seeded(Enforced(f, x), y))
      BY <3>1, <2>1, <2>2, <1>5 DEF InPlace, SameSettings, Declares, Present
    <3>2. CASE ~SameSettings(f, Seeded(Enforced(f, x), y))
      BY <3>2, <2>1, <2>2 DEF InPlace, Readable, Seeded
    <3> QED
      BY <3>1, <3>2
  <2> QED
    BY <2>3 DEF Settled, x, y, g
<1>6. CASE ~Readable(f) /\ ValuesNone(x) /\ ValuesNone(y) /\ ~HoldsSomething(f)
  <2>1. g = f
    BY <1>3, <1>6 DEF Assert
  <2>2. f.kind \in {"absent", "empty"}
    BY <1>1, <1>6 DEF Shape, HoldsSomething
  <2> QED
    BY <2>1, <2>2, <1>6 DEF Settled, x, y, g
<1>7. CASE /\ ~(OwnsNone(x) /\ OwnsNone(y)) /\ ~Readable(f)
           /\ ~(ValuesNone(x) /\ ValuesNone(y) /\ ~HoldsSomething(f))
  <2>1. g = Recreated(hs, x, y)
    BY <1>3, <1>7 DEF Assert
  <2>2. Declares(g, x, y)
    BY <2>1, <1>1, <1>2, RecreatedDeclares
  <2>3. Readable(g)
    BY <2>1 DEF Recreated, Readable
  <2> QED
    BY <2>2, <2>3 DEF Settled, x, y, g
<1> QED
  BY <1>4, <1>5, <1>6, <1>7

\* And it does leave it as it is.
LEMMA SettledStays ==
  ASSUME NEW fmt, NEW f \in Content, NEW e \in Table, NEW d \in SeedTable,
         Settled(f, Applied(fmt, e), Applied(fmt, d))
  PROVE  Edit(fmt, f, e, d) = f
<1> DEFINE x == Applied(fmt, e)
           y == Applied(fmt, d)
<1>1. x \in Table /\ y \in SeedTable /\ f \in Shape
  BY AppliedTyped, SeedsAreTables DEF Content
<1>2. CASE OwnsNone(x) /\ OwnsNone(y)
  BY <1>2 DEF Edit, Assert
<1>3. CASE Readable(f) /\ Declares(f, x, y)
  <2>1. InPlace(f, x, y) = f
    BY <1>1, <1>3, DeclaredIsStable
  <2> QED
    BY <2>1, <1>3 DEF Edit, Assert
<1>4. CASE ValuesNone(x) /\ ValuesNone(y) /\ f.kind \in {"absent", "empty"}
  BY <1>4 DEF Edit, Assert, Readable, HoldsSomething
<1> QED
  BY <1>2, <1>3, <1>4 DEF Settled

\* A second run of an editor finds nothing to do: `Returns whether it wrote` is False for it.
THEOREM EditIsIdempotent ==
  ASSUME NEW fmt, NEW f \in Content, NEW e \in Table, NEW d \in SeedTable, OneTier(e, d)
  PROVE  Edit(fmt, Edit(fmt, f, e, d), e, d) = Edit(fmt, f, e, d)
BY EditSettles, SettledStays, EditTyped, SeedsAreTables

\* Whatever state a file was in, an editor leaves each enforced key in it exactly once, no removed
\* key, and every seeded one.
THEOREM EditDeclares ==
  ASSUME NEW fmt, NEW f \in Content, NEW e \in Table, NEW d \in SeedTable, OneTier(e, d)
  PROVE  Declares(Edit(fmt, f, e, d), Applied(fmt, e), Applied(fmt, d))
<1> DEFINE x == Applied(fmt, e)
           y == Applied(fmt, d)
           g == Edit(fmt, f, e, d)
<1>1. Settled(g, x, y) /\ g \in Content
  BY EditSettles, EditTyped, SeedsAreTables
<1> SUFFICES Declares(g, x, y)
  OBVIOUS
<1> HIDE DEF g, x, y
<1>2. CASE OwnsNone(x) /\ OwnsNone(y)
  BY <1>2, OwnedFileAssumption DEF Declares, OwnsNone, Owned, Valued
<1>3. CASE Readable(g) /\ Declares(g, x, y)
  BY <1>3
<1>4. CASE ValuesNone(x) /\ ValuesNone(y) /\ g.kind \in {"absent", "empty"}
  BY <1>1, <1>4 DEF Declares, ValuesNone, Content
<1> QED
  BY <1>1, <1>2, <1>3, <1>4 DEF Settled

\* In a readable file, an editor leaves alone every assignment that is not its to make.
THEOREM EditKeeps ==
  ASSUME NEW fmt, NEW f \in Content, NEW e \in Table, NEW d \in Table, Readable(f)
  PROVE  Keeps(f, Edit(fmt, f, e, d), Applied(fmt, e), Applied(fmt, d))
<1> DEFINE x == Applied(fmt, e)
           y == Applied(fmt, d)
           g == Enforced(f, x)
           h == Seeded(g, y)
<1>1. x \in Table /\ y \in Table /\ f \in Shape
  BY AppliedTyped DEF Content
<1>2. g \in Shape /\ h \in Shape
  BY <1>1, EnforcedTyped, SeededTyped
<1>3. Edit(fmt, f, e, d) = f \/ Edit(fmt, f, e, d) = h
  BY DEF Edit, Assert, InPlace
<1>4. Keeps(f, f, x, y)
  BY DEF Keeps
<1>5. Keeps(f, h, x, y)
  <2> HIDE DEF x, y
  <2>1. ASSUME NEW k \in Key, ~Swept(x, k) PROVE h.pre[k] = f.pre[k]
    BY <2>1 DEF Seeded, Enforced
  <2>2. ASSUME NEW s \in Section, NEW k \in Key, LeftAlone(f, x, y, s, k),
               NEW i \in DOMAIN f.sec[s]
        PROVE  i \in DOMAIN h.sec[s] /\ h.sec[s][i][k] = f.sec[s][i][k]
    <3> HIDE DEF g, h
    <3>1. f.sec[s] # <<>>
      OBVIOUS
    <3>2. Instances(f, s, Valued(x, s) # {}) = f.sec[s]
      BY <3>1, <1>1, InstancesTyped
    <3>3. /\ DOMAIN g.sec[s] = DOMAIN f.sec[s]
          /\ g.pre[k] = IF Swept(x, k) THEN <<>> ELSE f.pre[k]
          /\ \A j \in DOMAIN f.sec[s] : g.sec[s][j][k] = f.sec[s][j][k]
      <4>1. ~Owned(x, s, k)
        BY <2>2 DEF LeftAlone
      <4> DEFINE inst == Instances(f, s, Valued(x, s) # {})
      <4>2. /\ g.pre[k] = IF Swept(x, k) THEN <<>> ELSE f.pre[k]
            /\ DOMAIN g.sec[s] = DOMAIN inst
            /\ \A j \in DOMAIN inst :
                 g.sec[s][j][k] = IF ~Owned(x, s, k) THEN inst[j][k]
                                  ELSE IF j = 1 /\ k \in Valued(x, s) THEN <<x[s][k]>> ELSE <<>>
        BY <1>1, EnforcedAt DEF g
      <4>3. inst = f.sec[s]
        BY <3>2
      <4> HIDE DEF inst
      <4> QED
        BY <4>1, <4>2, <4>3
    <3>4. g.sec[s] # <<>>
      BY <3>3
    <3>5. Instances(g, s, Missing(g, y, s) # {}) = g.sec[s]
      BY <3>4, <1>2, InstancesTyped
    <3>6. /\ DOMAIN h.sec[s] = DOMAIN g.sec[s]
          /\ h.sec[s][i][k] = IF i = 1 /\ k \in Missing(g, y, s) THEN <<y[s][k]>>
                              ELSE g.sec[s][i][k]
      BY <3>3, <3>5, <1>1, <1>2, SeededAt DEF h
    <3>7. k \notin Missing(g, y, s)
      <4>1. CASE ~Owned(y, s, k)
        BY <4>1 DEF Missing, Valued
      <4>2. CASE \E j \in DOMAIN f.sec[s] : f.sec[s][j][k] # <<>>
        BY <4>2, <3>3 DEF Missing, Present
      <4>3. CASE f.pre[k] # <<>> /\ ~Swept(x, k)
        BY <4>3, <3>3 DEF Missing, Present
      <4> QED
        BY <2>2, <4>1, <4>2, <4>3 DEF LeftAlone
    <3> QED
      BY <3>3, <3>6, <3>7
  <2> QED
    BY <2>1, <2>2 DEF Keeps
<1> QED
  BY <1>3, <1>4, <1>5
=============================================================================
