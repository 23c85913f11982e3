---------------------------- MODULE Gallery_proofs ----------------------------
(* What one pass of apply() over a log preserves: the state it has reached is  *)
(* the one the entries read so far stand for.                                  *)
EXTENDS Gallery, TLAPS, WellFoundedInduction

\* Induction over the natural numbers, by a set rather than a predicate.
LEMMA NatSetInduction ==
  ASSUME NEW S, 0 \in S, \A n \in Nat : n \in S => n + 1 \in S
  PROVE  Nat \subseteq S
<1> DEFINE T == Nat \ S
           R == {ss \in Nat \X Nat : ss[1] < ss[2]}
<1> SUFFICES ASSUME T # {} PROVE FALSE OBVIOUS
<1>1. IsWellFoundedOn(R, Nat) BY NatLessThanWellFounded DEF OpToRel
<1>2. PICK x \in T : \A y \in T : <<y, x>> \notin R
  <2> HIDE DEF R
  <2> QED BY <1>1, WFMin
<1>3. x - 1 \in Nat /\ x - 1 \in T OBVIOUS
<1>4. <<x - 1, x>> \in R BY <1>3
<1> QED BY <1>2, <1>3, <1>4

\* Of positions, or times, up to a bound there is a latest.
LEMMA Latest ==
  ASSUME NEW b \in Nat, NEW T, T \subseteq 1..b, T # {}
  PROVE  \E m \in T : \A x \in T : x <= m
<1> DEFINE U == {b - x : x \in T}
           R == {ss \in Nat \X Nat : ss[1] < ss[2]}
<1>1. IsWellFoundedOn(R, Nat) BY NatLessThanWellFounded DEF OpToRel
<1>2. U \subseteq Nat /\ U # {}
  <2>1. PICK t \in T : TRUE OBVIOUS
  <2>2. b - t \in U BY <2>1
  <2>3. ASSUME NEW x \in T PROVE b - x \in Nat
    <3>1. x \in 1..b OBVIOUS
    <3> QED BY <3>1
  <2> QED BY <2>2, <2>3
<1>3. PICK u \in U : \A y \in U : <<y, u>> \notin R
  <2> HIDE DEF R, U
  <2> QED BY <1>1, <1>2, WFMin
<1>4. PICK m \in T : u = b - m OBVIOUS
<1>5. ASSUME NEW x \in T PROVE x <= m
  <2>1. b - x \in U /\ b - x \in Nat /\ u \in Nat BY <1>2
  <2>2. ~ (b - x < u) BY <1>3, <2>1
  <2> QED BY <1>4, <2>1, <2>2
<1> QED BY <1>5

\* Places, the target of a transition and the initial state are well typed.
LEMMA ToFromPlace == ASSUME NEW e \in Entry PROVE To(e) \in Place /\ From(e) \in Place
BY DEF To, From, Place, Entry, Outside

LEMMA EmptyStateType == EmptyState \in GalleryState
BY MaxTsAssumption DEF EmptyState, GalleryState, Place

LEMMA AppliedType ==
  ASSUME NEW st \in GalleryState, NEW e \in Entry
  PROVE  Applied(st, e) \in GalleryState
<1>1. To(e) \in Place BY ToFromPlace
<1>2. e.who \in Person /\ e.timestamp \in 0..MaxTs
  BY MaxTsAssumption DEF Entry
<1>3. [st.loc EXCEPT ![e.who] = To(e)] \in [Person -> Place]
  BY <1>1, <1>2 DEF GalleryState
<1> QED BY <1>2, <1>3 DEF Applied, GalleryState

\* A log puts a person in at most one place.
LEMMA PlacedUnique ==
  ASSUME NEW es, NEW m \in Nat, NEW w, NEW a, NEW b,
         PlacedAt(es, m, w, a), PlacedAt(es, m, w, b)
  PROVE  a = b
<1>1. CASE \A i \in 1..m : es[i].who # w
  BY <1>1 DEF PlacedAt, LastAbout
<1>2. CASE \E i \in 1..m : es[i].who = w
  <2>1. PICK i \in 1..m : LastAbout(es, m, w, i) /\ a = To(es[i])
    BY <1>2 DEF PlacedAt
  <2>2. PICK j \in 1..m : LastAbout(es, m, w, j) /\ b = To(es[j])
    BY <1>2 DEF PlacedAt
  <2>3. i = j BY <2>1, <2>2 DEF LastAbout
  <2> QED BY <2>1, <2>2, <2>3
<1> QED BY <1>1, <1>2

\* A log puts everybody somewhere.
LEMMA PlacedSomewhere ==
  ASSUME NEW es, NEW m \in Nat, \A i \in 1..m : es[i] \in Entry, NEW w
  PROVE  \E pl \in Place : PlacedAt(es, m, w, pl)
<1> DEFINE T == {i \in 1..m : es[i].who = w}
<1>1. CASE T = {} BY <1>1 DEF PlacedAt, Place
<1>2. CASE T # {}
  <2>1. PICK i \in T : \A j \in T : j <= i
    <3>1. T \subseteq 1..m OBVIOUS
    <3> HIDE DEF T
    <3> QED BY <1>2, <3>1, Latest
  <2>2. LastAbout(es, m, w, i) BY <2>1 DEF LastAbout
  <2> QED BY <2>1, <2>2, ToFromPlace DEF PlacedAt
<1> QED BY <1>1, <1>2

\* Only the entries read so far matter: two logs that agree on them agree.
LEMMA SamePrefix ==
  ASSUME NEW es, NEW fs, NEW m \in Nat, \A i \in 1..m : es[i] = fs[i],
         NEW w, NEW pl, PlacedAt(es, m, w, pl)
  PROVE  PlacedAt(fs, m, w, pl)
BY DEF PlacedAt, LastAbout

LEMMA ComputesPrefix ==
  ASSUME NEW es, NEW fs, NEW m \in Nat, \A i \in 1..m : es[i] = fs[i],
         NEW st, Computes(st, es, m)
  PROVE  Computes(st, fs, m)
<1>1. \A w \in Person : PlacedAt(fs, m, w, st.loc[w])
  BY SamePrefix DEF Computes
<1>2. m > 0 => es[m] = fs[m] OBVIOUS
<1> QED BY <1>1, <1>2 DEF Computes

LEMMA FollowsPrefix ==
  ASSUME NEW es, NEW fs, NEW m \in Nat, \A i \in 1..m : es[i] = fs[i],
         NEW e, Follows(es, m, e)
  PROVE  Follows(fs, m, e)
<1>1. PlacedAt(fs, m, e.who, From(e)) BY SamePrefix DEF Follows
<1>2. m > 0 => es[m] = fs[m] OBVIOUS
<1> QED BY <1>1, <1>2 DEF Follows

\* The default state computes the empty prefix of every log.
LEMMA ComputesEmpty == ASSUME NEW es PROVE Computes(EmptyState, es, 0)
BY DEF Computes, EmptyState, PlacedAt

\* apply() accepts an entry exactly when it may follow the entries replayed so far.
LEMMA ApplyIffFollows ==
  ASSUME NEW es, NEW m \in Nat, NEW st, Computes(st, es, m), NEW e \in Entry
  PROVE  CanApply(st, e) <=> Follows(es, m, e)
<1>1. PlacedAt(es, m, e.who, st.loc[e.who]) BY DEF Computes, Entry
<1>2. (st.has_entries <=> m > 0) /\ (m > 0 => st.last_timestamp = es[m].timestamp)
  BY DEF Computes
<1>3. PlacedAt(es, m, e.who, From(e)) <=> st.loc[e.who] = From(e)
  BY <1>1, PlacedUnique
<1> QED BY <1>2, <1>3 DEF CanApply, Follows

\* An accepted entry extends the replayed prefix by one.
LEMMA ApplyComputes ==
  ASSUME NEW es, NEW m \in Nat, NEW st \in GalleryState, Computes(st, es, m),
         es[m+1] \in Entry
  PROVE  Computes(Applied(st, es[m+1]), es, m+1)
<1> DEFINE e == es[m+1]
           t == Applied(st, e)
<1>1. ASSUME NEW w \in Person PROVE PlacedAt(es, m+1, w, t.loc[w])
  <2>1. CASE w = e.who
    <3>1. t.loc[w] = To(e) BY <2>1 DEF Applied, GalleryState
    <3>2. LastAbout(es, m+1, w, m+1) BY <2>1 DEF LastAbout
    <3> QED BY <3>1, <3>2 DEF PlacedAt
  <2>2. CASE w # e.who
    <3>1. t.loc[w] = st.loc[w] BY <2>2 DEF Applied, GalleryState
    <3>2. PlacedAt(es, m, w, st.loc[w]) BY DEF Computes
    <3>3. CASE \A i \in 1..m : es[i].who # w
      BY <3>1, <3>2, <3>3, <2>2 DEF PlacedAt, LastAbout
    <3>4. CASE \E i \in 1..m : LastAbout(es, m, w, i) /\ st.loc[w] = To(es[i])
      <4>1. PICK i \in 1..m : LastAbout(es, m, w, i) /\ st.loc[w] = To(es[i])
        BY <3>4
      <4>2. LastAbout(es, m+1, w, i) BY <4>1, <2>2 DEF LastAbout
      <4> QED BY <4>1, <4>2, <3>1 DEF PlacedAt
    <3> QED BY <3>2, <3>3, <3>4 DEF PlacedAt
  <2> QED BY <2>1, <2>2
<1>2. (t.has_entries <=> m+1 > 0) BY DEF Applied
<1>3. t.last_timestamp = es[m+1].timestamp BY DEF Applied
<1> QED BY <1>1, <1>2, <1>3 DEF Computes

\* Timestamps rise.
Rising(es) == \A i \in 1..Len(es) : \A j \in 1..(i-1) : es[j].timestamp < es[i].timestamp

\* A history, and the state it leads to.
Reached(es, st) == ValidLog(es) /\ Computes(st, es, Len(es)) /\ Rising(es)

\* An accepted entry makes it a longer history.
LEMMA ReachedNext ==
  ASSUME NEW es \in Seq(Entry), NEW st \in GalleryState, Reached(es, st),
         NEW e \in Entry, CanApply(st, e)
  PROVE  /\ Append(es, e) \in Seq(Entry) /\ Len(Append(es, e)) = Len(es) + 1
         /\ Append(es, e)[Len(es) + 1] = e
         /\ \A i \in 1..Len(es) : Append(es, e)[i] = es[i]
         /\ Applied(st, e) \in GalleryState /\ Reached(Append(es, e), Applied(st, e))
         /\ st.loc[e.who] = From(e) /\ Applied(st, e).loc[e.who] = To(e)
         /\ \A w \in Person \ {e.who} : Applied(st, e).loc[w] = st.loc[w]
<1> DEFINE et == Append(es, e)
           tt == Applied(st, e)
<1>1. /\ et \in Seq(Entry) /\ Len(et) = Len(es) + 1 /\ et[Len(es) + 1] = e
      /\ \A i \in 1..Len(es) : et[i] = es[i]
      /\ Len(es) \in Nat
  OBVIOUS
<1>2. tt \in GalleryState BY AppliedType
<1>3. ValidLog(es) /\ Computes(st, es, Len(es)) /\ Rising(es) BY DEF Reached
<1> HIDE DEF et
<1>4. Computes(st, et, Len(es)) BY <1>1, <1>3, ComputesPrefix
<1>5. Computes(tt, et, Len(et))
  <2>1. Computes(Applied(st, et[Len(es) + 1]), et, Len(es) + 1)
    BY <1>1, <1>4, ApplyComputes
  <2> QED BY <1>1, <2>1
<1>6. Follows(et, Len(es), e) BY <1>1, <1>4, ApplyIffFollows
<1>7. ValidLog(et)
  <2>1. ASSUME NEW i \in 1..Len(et) PROVE Follows(et, i-1, et[i])
    <3>1. CASE i \in 1..Len(es)
      <4>1. Follows(es, i-1, es[i]) BY <1>3, <3>1 DEF ValidLog
      <4>2. i-1 \in Nat /\ et[i] = es[i] /\ \A k \in 1..(i-1) : es[k] = et[k]
        BY <1>1, <3>1
      <4> QED BY <4>1, <4>2, FollowsPrefix
    <3>2. CASE i = Len(es) + 1
      <4>1. i - 1 = Len(es) BY <1>1, <3>2
      <4> QED BY <1>1, <1>6, <3>2, <4>1
    <3>3. i \in 1..Len(es) \/ i = Len(es) + 1 BY <1>1
    <3> QED BY <3>1, <3>2, <3>3
  <2> QED BY <2>1 DEF ValidLog
<1>8. Rising(et)
  <2>1. ASSUME NEW i \in 1..Len(et), NEW j \in 1..(i-1)
        PROVE  et[j].timestamp < et[i].timestamp
    <3>1. CASE i \in 1..Len(es)
      <4>1. et[j] = es[j] /\ et[i] = es[i] BY <1>1, <3>1
      <4> QED BY <1>3, <3>1, <4>1 DEF Rising
    <3>2. CASE i = Len(es) + 1
      <4>1. j \in 1..Len(es) /\ Len(es) \in 1..Len(es) /\ et[j] = es[j] /\ et[i] = e
        BY <1>1, <3>2
      <4>2. e.timestamp > es[Len(es)].timestamp
        <5>1. et[Len(es)] = es[Len(es)] BY <1>1, <4>1
        <5>2. Len(es) > 0 BY <1>1, <4>1
        <5> QED BY <1>6, <5>1, <5>2 DEF Follows
      <4>3. j # Len(es) => es[j].timestamp < es[Len(es)].timestamp
        <5>1. j # Len(es) => j \in 1..(Len(es) - 1) BY <1>1, <4>1
        <5> QED BY <1>3, <4>1, <5>1 DEF Rising
      <4>4. es[j].timestamp \in Nat /\ es[Len(es)].timestamp \in Nat /\ e.timestamp \in Nat
        <5>1. es[j] \in Entry /\ es[Len(es)] \in Entry BY <4>1
        <5> QED BY <5>1, MaxTsAssumption DEF Entry
      <4>5. es[j].timestamp < e.timestamp
        <5>1. CASE j = Len(es) BY <4>2, <4>4, <5>1
        <5>2. CASE j # Len(es) BY <4>2, <4>3, <4>4, <5>2
        <5> QED BY <5>1, <5>2
      <4> QED BY <4>1, <4>5
    <3>3. i \in 1..Len(es) \/ i = Len(es) + 1 BY <1>1
    <3> QED BY <3>1, <3>2, <3>3
  <2> QED BY <2>1 DEF Rising
<1>9. /\ st.loc[e.who] = From(e) /\ tt.loc[e.who] = To(e)
      /\ \A w \in Person \ {e.who} : tt.loc[w] = st.loc[w]
  <2>1. e.who \in Person BY DEF Entry
  <2> QED BY <2>1 DEF CanApply, Applied, GalleryState
<1>10. Reached(et, tt) BY <1>5, <1>7, <1>8 DEF Reached
<1> QED BY <1>1, <1>2, <1>9, <1>10 DEF et

\* Where everybody was is not rewritten.
LEMMA PlacedBefore ==
  ASSUME NEW es, NEW et, NEW m \in Nat, \A i \in 1..m : et[i] = es[i],
         NEW w, NEW r, NEW k \in 1..m
  PROVE  PlacedAt(et, k, w, r) <=> PlacedAt(es, k, w, r)
<1>1. k \in Nat /\ \A i \in 1..k : et[i] = es[i] /\ es[i] = et[i] OBVIOUS
<1>2. PlacedAt(es, k, w, r) => PlacedAt(et, k, w, r) BY <1>1, SamePrefix
<1>3. PlacedAt(et, k, w, r) => PlacedAt(es, k, w, r) BY <1>1, SamePrefix
<1> QED BY <1>2, <1>3

\* Where everybody is is what the state says.
LEMMA PlacedNow ==
  ASSUME NEW es, NEW m \in Nat, NEW st, Computes(st, es, m), NEW w \in Person, NEW r
  PROVE  PlacedAt(es, m, w, r) <=> st.loc[w] = r
<1>1. PlacedAt(es, m, w, st.loc[w]) BY DEF Computes
<1> QED BY <1>1, PlacedUnique

\* Timestamps tell entries apart.
LEMMA RisingOrders ==
  ASSUME NEW es \in Seq(Entry), Rising(es), NEW i \in 1..Len(es), NEW j \in 1..Len(es)
  PROVE  /\ es[i].timestamp \in 1..MaxTs /\ es[i].timestamp \in Nat
         /\ es[i].timestamp < es[j].timestamp <=> i < j
         /\ es[i].timestamp <= es[j].timestamp <=> i <= j
<1>1. Len(es) \in Nat /\ i \in Nat /\ j \in Nat OBVIOUS
<1>2. es[i] \in Entry /\ es[j] \in Entry OBVIOUS
<1>3. /\ es[i].timestamp \in 1..MaxTs /\ es[i].timestamp \in Nat
      /\ es[j].timestamp \in Nat
  BY <1>2, MaxTsAssumption DEF Entry
<1>4. j < i => es[j].timestamp < es[i].timestamp
  <2>1. j < i => j \in 1..(i-1) BY <1>1
  <2> QED BY <2>1 DEF Rising
<1>5. i < j => es[i].timestamp < es[j].timestamp
  <2>1. i < j => i \in 1..(j-1) BY <1>1
  <2> QED BY <2>1 DEF Rising
<1>6. i < j \/ j < i \/ i = j BY <1>1
<1> QED BY <1>1, <1>3, <1>4, <1>5, <1>6

------------------------------------------------------------------------------
(* Recursive functions, and the elements of a sequence that are in a set *)

\* F takes the value at k-1 to the value at k, and f is the function it defines.
Steps(F, V) == F \in [Nat -> [V -> V]]

Stepwise(f, F, V, v0, a, b) == /\ f \in [a..b -> V] /\ f[a] = v0
                               /\ \A k \in (a+1)..b : f[k] = F[k][f[k-1]]

\* A function defined step by step from its first value exists.
LEMMA StepwiseExists ==
  ASSUME NEW V, NEW v0 \in V, NEW a \in Nat, NEW b \in Nat, a <= b,
         NEW F, Steps(F, V)
  PROVE  \E f : Stepwise(f, F, V, v0, a, b)
<1> USE DEF Steps, Stepwise
<1> DEFINE Good(f, m) == f[a] = v0 /\ \A k \in (a+1)..(a+m) : f[k] = F[k][f[k-1]]
           S == {m \in Nat : \E f \in [a..(a+m) -> V] : Good(f, m)}
<1>1. 0 \in S
  <2> DEFINE f == [k \in a..(a+0) |-> v0]
  <2>1. f \in [a..(a+0) -> V] /\ f[a] = v0 OBVIOUS
  <2>2. \A k \in (a+1)..(a+0) : f[k] = F[k][f[k-1]] OBVIOUS
  <2> QED BY <2>1, <2>2
<1>2. ASSUME NEW m \in Nat, m \in S PROVE m + 1 \in S
  <2>1. PICK f \in [a..(a+m) -> V] : Good(f, m) BY <1>2
  <2> DEFINE g == [k \in a..(a+(m+1)) |-> IF k = a+m+1 THEN F[k][f[k-1]] ELSE f[k]]
  <2>2. a+m \in a..(a+m) /\ a+m+1 \in Nat OBVIOUS
  <2>3. F[a+m+1][f[a+m]] \in V BY <2>1, <2>2
  <2>4. \A k \in a..(a+m) : g[k] = f[k] OBVIOUS
  <2>5. g[a+m+1] = F[a+m+1][f[a+m]] OBVIOUS
  <2>6. g \in [a..(a+(m+1)) -> V]
    <3>1. ASSUME NEW k \in a..(a+(m+1)) PROVE g[k] \in V
      <4>1. k \in a..(a+m) \/ k = a+m+1 OBVIOUS
      <4> QED BY <2>1, <2>3, <2>4, <2>5, <4>1
    <3> QED BY <3>1
  <2> HIDE DEF g
  <2>7. ASSUME NEW k \in (a+1)..(a+(m+1)) PROVE g[k] = F[k][g[k-1]]
    <3>1. CASE k = a+m+1
      <4>1. k-1 = a+m /\ g[a+m] = f[a+m] BY <2>2, <2>4, <3>1
      <4> QED BY <2>5, <3>1, <4>1
    <3>2. CASE k # a+m+1
      <4>1. k \in (a+1)..(a+m) /\ k \in a..(a+m) /\ k-1 \in a..(a+m) BY <3>2
      <4> QED BY <2>1, <2>4, <4>1
    <3> QED BY <3>1, <3>2
  <2>8. g[a] = v0
    <3>1. a \in a..(a+m) OBVIOUS
    <3> QED BY <2>1, <2>4, <3>1
  <2> QED BY <2>6, <2>7, <2>8
<1>3. Nat \subseteq S
  <2> HIDE DEF S
  <2> QED BY <1>1, <1>2, NatSetInduction
<1>4. b - a \in S
  <2> HIDE DEF S
  <2>1. b - a \in Nat OBVIOUS
  <2> QED BY <1>3, <2>1
<1>5. a + (b - a) = b OBVIOUS
<1> QED BY <1>4, <1>5

\* The recursive function inside Those.
IsThose(f, s, T) ==
  f = [k \in 0..Len(s) |->
         IF k = 0 THEN << >> ELSE IF s[k] \in T THEN Append(f[k-1], s[k]) ELSE f[k-1]]

LEMMA ThoseDef ==
  ASSUME NEW s, NEW T
  PROVE  Those(s, T) = (CHOOSE f : IsThose(f, s, T))[Len(s)]
BY DEF Those, IsThose

\* f[k] has the elements among the first k.
Collects(f, s, T, X) ==
  /\ f \in [0..Len(s) -> Seq(X)] /\ Those(s, T) = f[Len(s)] /\ f[0] = << >>
  /\ \A k \in 1..Len(s) : f[k] = IF s[k] \in T THEN Append(f[k-1], s[k]) ELSE f[k-1]

LEMMA ThoseStepwise ==
  ASSUME NEW X, NEW s \in Seq(X), NEW T
  PROVE  \E f : Collects(f, s, T, X)
<1> DEFINE V == Seq(X)
           F == [k \in Nat |-> [v \in V |->
                   IF k \in 1..Len(s) /\ s[k] \in T THEN Append(v, s[k]) ELSE v]]
<1>1. F \in [Nat -> [V -> V]]
  <2>1. ASSUME NEW k \in Nat, NEW v \in V
        PROVE  (IF k \in 1..Len(s) /\ s[k] \in T THEN Append(v, s[k]) ELSE v) \in V
    OBVIOUS
  <2> HIDE DEF V
  <2> QED BY <2>1
<1>2. << >> \in V /\ Len(s) \in Nat /\ 0 <= Len(s) /\ 0 \in Nat OBVIOUS
<1>3. \A k \in Nat : \A v \in V :
        F[k][v] = IF k \in 1..Len(s) /\ s[k] \in T THEN Append(v, s[k]) ELSE v
  OBVIOUS
<1>4. PICK f : Stepwise(f, F, V, << >>, 0, Len(s))
  <2>1. Steps(F, V) BY <1>1 DEF Steps
  <2> HIDE DEF F, V
  <2> QED BY <1>2, <2>1, StepwiseExists
<1>10. f \in [0..Len(s) -> V] /\ f[0] = << >> /\ \A k \in (0+1)..Len(s) : f[k] = F[k][f[k-1]]
  BY <1>4 DEF Stepwise
<1>5. \A k \in 1..Len(s) : f[k] = IF s[k] \in T THEN Append(f[k-1], s[k]) ELSE f[k-1]
  <2>1. ASSUME NEW k \in 1..Len(s)
        PROVE  f[k] = IF s[k] \in T THEN Append(f[k-1], s[k]) ELSE f[k-1]
    <3>1. k \in Nat /\ k-1 \in 0..Len(s) /\ k \in (0+1)..Len(s) OBVIOUS
    <3>2. f[k-1] \in V /\ f[k] = F[k][f[k-1]] BY <1>10, <3>1
    <3> HIDE DEF F, V
    <3> QED BY <1>3, <3>1, <3>2
  <2> QED BY <2>1
<1> HIDE DEF F, V
<1>6. IsThose(f, s, T)
  <2> DEFINE g == [k \in 0..Len(s) |->
         IF k = 0 THEN << >> ELSE IF s[k] \in T THEN Append(f[k-1], s[k]) ELSE f[k-1]]
  <2>1. ASSUME NEW k \in 0..Len(s) PROVE f[k] = g[k]
    <3>1. k = 0 \/ k \in 1..Len(s) BY <1>2
    <3> QED BY <1>10, <1>5, <3>1
  <2>2. DOMAIN f = 0..Len(s) /\ f = [k \in DOMAIN f |-> f[k]] BY <1>10
  <2>3. f = g BY <2>1, <2>2
  <2> QED BY <2>3 DEF IsThose
<1>7. PICK g : IsThose(g, s, T) /\ Those(s, T) = g[Len(s)] BY <1>6, ThoseDef
<1>8. g[0] = << >> /\ \A k \in 1..Len(s) :
        g[k] = IF s[k] \in T THEN Append(g[k-1], s[k]) ELSE g[k-1]
  <2>1. \A k \in 1..Len(s) : k # 0 /\ k \in 0..Len(s) BY <1>2
  <2>2. 0 \in 0..Len(s) BY <1>2
  <2>3. g = [k \in 0..Len(s) |->
         IF k = 0 THEN << >> ELSE IF s[k] \in T THEN Append(g[k-1], s[k]) ELSE g[k-1]]
    BY <1>7 DEF IsThose
  <2>4. g[0] = << >> BY <2>2, <2>3
  <2>5. ASSUME NEW k \in 1..Len(s)
        PROVE  g[k] = IF s[k] \in T THEN Append(g[k-1], s[k]) ELSE g[k-1]
    BY <2>1, <2>3
  <2> QED BY <2>4, <2>5
<1>9. g[Len(s)] = f[Len(s)]
  <2> DEFINE S == {m \in Nat : m <= Len(s) => g[m] = f[m]}
  <2>1. 0 \in S BY <1>10, <1>8
  <2>2. ASSUME NEW m \in Nat, m \in S PROVE m + 1 \in S
    <3>1. m + 1 <= Len(s) => m + 1 \in 1..Len(s) /\ m <= Len(s) /\ (m + 1) - 1 = m BY <1>2
    <3> QED BY <1>5, <1>8, <2>2, <3>1
  <2>3. Nat \subseteq S
    <3> HIDE DEF S
    <3> QED BY <2>1, <2>2, NatSetInduction
  <2> QED BY <1>2, <2>3
<1>11. Collects(f, s, T, X) BY <1>10, <1>5, <1>7, <1>9 DEF V, Collects
<1> QED BY <1>11

LEMMA ThoseOfNone == ASSUME NEW T PROVE Those(<< >>, T) = << >>
<1> DEFINE s == << >>
<1>1. s \in Seq({}) /\ Len(s) = 0 OBVIOUS
<1>2. PICK f : Collects(f, s, T, {})
  <2> HIDE DEF s
  <2> QED BY <1>1, ThoseStepwise
<1> QED BY <1>1, <1>2 DEF Collects

\* One element more.
LEMMA ThoseNext ==
  ASSUME NEW X, NEW s \in Seq(X), NEW x \in X, NEW T
  PROVE  Those(Append(s, x), T) = IF x \in T THEN Append(Those(s, T), x) ELSE Those(s, T)
<1> DEFINE n == Len(s)
           t == Append(s, x)
<1>1. /\ n \in Nat /\ t \in Seq(X) /\ Len(t) = n + 1 /\ t[n+1] = x
      /\ \A k \in 1..n : t[k] = s[k]
  OBVIOUS
<1>2. PICK f : Collects(f, s, T, X) BY ThoseStepwise
<1>3. /\ Those(s, T) = f[n] /\ f[0] = << >>
      /\ \A k \in 1..n : f[k] = IF s[k] \in T THEN Append(f[k-1], s[k]) ELSE f[k-1]
  BY <1>2 DEF Collects
<1> HIDE DEF t
<1>4. PICK g : Collects(g, t, T, X) BY <1>1, ThoseStepwise
<1> HIDE DEF n
<1>5. /\ Those(t, T) = g[n+1] /\ g[0] = << >>
      /\ \A k \in 1..(n+1) : g[k] = IF t[k] \in T THEN Append(g[k-1], t[k]) ELSE g[k-1]
  BY <1>1, <1>4 DEF Collects
<1>6. g[n] = f[n]
  <2> DEFINE S == {m \in Nat : m <= n => g[m] = f[m]}
  <2>1. 0 \in S BY <1>3, <1>5
  <2>2. ASSUME NEW m \in Nat, m \in S PROVE m + 1 \in S
    <3>1. SUFFICES ASSUME m + 1 <= n PROVE g[m+1] = f[m+1] OBVIOUS
    <3>2. m + 1 \in 1..n /\ m + 1 \in 1..(n+1) /\ m <= n /\ (m + 1) - 1 = m
      BY <1>1, <3>1
    <3>3. g[m] = f[m] /\ t[m+1] = s[m+1] BY <1>1, <2>2, <3>2
    <3>4. g[m+1] = IF t[m+1] \in T THEN Append(g[m], t[m+1]) ELSE g[m] BY <1>5, <3>2
    <3>5. f[m+1] = IF s[m+1] \in T THEN Append(f[m], s[m+1]) ELSE f[m] BY <1>3, <3>2
    <3> QED BY <3>3, <3>4, <3>5
  <2>3. Nat \subseteq S
    <3> HIDE DEF S
    <3> QED BY <2>1, <2>2, NatSetInduction
  <2>4. n \in S BY <1>1, <2>3
  <2> QED BY <1>1, <2>4
<1>7. n + 1 \in 1..(n+1) /\ (n + 1) - 1 = n BY <1>1
<1>8. g[n+1] = IF x \in T THEN Append(g[n], x) ELSE g[n] BY <1>1, <1>5, <1>7
<1> QED BY <1>3, <1>5, <1>6, <1>8 DEF t

\* Exactly the elements there are in T.
LEMMA ThoseElements ==
  ASSUME NEW X, NEW s \in Seq(X), NEW T
  PROVE  /\ Those(s, T) \in Seq(X)
         /\ \A x : (\E p \in 1..Len(Those(s, T)) : Those(s, T)[p] = x) <=>
                   (x \in T /\ \E q \in 1..Len(s) : s[q] = x)
<1> DEFINE n == Len(s)
<1>0. PICK f : Collects(f, s, T, X) BY ThoseStepwise
<1>1. /\ f \in [0..n -> Seq(X)] /\ Those(s, T) = f[n] /\ f[0] = << >>
      /\ \A k \in 1..n : f[k] = IF s[k] \in T THEN Append(f[k-1], s[k]) ELSE f[k-1]
  BY <1>0 DEF Collects
<1>2. n \in Nat OBVIOUS
<1> DEFINE Right(m) == \A x : (\E p \in 1..Len(f[m]) : f[m][p] = x) <=>
                              (x \in T /\ \E q \in 1..m : s[q] = x)
           S == {m \in Nat : m <= n => Right(m)}
<1>3. 0 \in S BY <1>1
<1>4. ASSUME NEW m \in Nat, m \in S PROVE m + 1 \in S
  <2>1. SUFFICES ASSUME m + 1 <= n PROVE Right(m + 1) OBVIOUS
  <2>2. /\ m + 1 \in 1..n /\ m <= n /\ m \in 0..n /\ m + 1 \in 0..n /\ (m + 1) - 1 = m
        /\ \A q \in 1..(m+1) : q \in 1..m \/ q = m + 1
        /\ \A q \in 1..m : q \in 1..(m+1)
        /\ m + 1 \in 1..(m+1)
    BY <1>2, <2>1
  <2>3. Right(m) BY <1>4, <2>2
  <2>4. f[m] \in Seq(X) /\ s[m+1] \in X BY <1>1, <2>2
  <2>5. f[m+1] = IF s[m+1] \in T THEN Append(f[m], s[m+1]) ELSE f[m]
    <3> HIDE DEF n
    <3> QED BY <1>1, <2>2
  <2>6. ASSUME NEW x
        PROVE  (\E p \in 1..Len(f[m+1]) : f[m+1][p] = x) <=>
               (x \in T /\ \E q \in 1..(m+1) : s[q] = x)
    <3>1. (\E q \in 1..(m+1) : s[q] = x) <=> (x = s[m+1] \/ \E q \in 1..m : s[q] = x)
      <4> HIDE DEF n
      <4> QED BY <2>2
    <3>2. (\E p \in 1..Len(f[m]) : f[m][p] = x) <=> (x \in T /\ \E q \in 1..m : s[q] = x)
      BY <2>3
    <3>3. CASE s[m+1] \in T
      <4> DEFINE v == f[m]
                 y == s[m+1]
                 z == Append(v, y)
      <4>1. /\ Len(v) \in Nat /\ Len(z) = Len(v) + 1 /\ z[Len(v) + 1] = y
            /\ \A p \in 1..Len(v) : z[p] = v[p]
        BY <2>4
      <4>2. \A p \in 1..Len(z) : p \in 1..Len(v) \/ p = Len(v) + 1 BY <4>1
      <4>3. \A p \in 1..Len(v) : p \in 1..Len(z) BY <4>1
      <4>4. Len(v) + 1 \in 1..Len(z) BY <4>1
      <4>5. f[m+1] = z BY <2>5, <3>3
      <4> HIDE DEF z, v, n
      <4>6. (\E p \in 1..Len(z) : z[p] = x) <=> (x = y \/ \E p \in 1..Len(v) : v[p] = x)
        BY <4>1, <4>2, <4>3, <4>4
      <4> QED BY <3>1, <3>2, <3>3, <4>5, <4>6 DEF v
    <3>4. CASE s[m+1] \notin T BY <2>5, <3>1, <3>2, <3>4
    <3> QED BY <3>3, <3>4
  <2> QED BY <2>6
<1>5. Nat \subseteq S
  <2> HIDE DEF S
  <2> QED BY <1>3, <1>4, NatSetInduction
<1>6. Right(n)
  <2>1. n \in S
    <3> HIDE DEF S
    <3> QED BY <1>2, <1>5
  <2>2. n <= n BY <1>2
  <2> HIDE DEF Right
  <2> QED BY <2>1, <2>2
<1>7. f[n] \in Seq(X) BY <1>1, <1>2
<1> QED BY <1>1, <1>6, <1>7
===============================================================================
