---------------------------- MODULE CQueries_proofs ----------------------------
(* Proofs about CQueries, for any persons, rooms and timestamps, and queries   *)
(* of any length. The invariant ties the table of the C logread to the log: a  *)
(* visit lasts from its entry to its end, everybody's last visit alone may     *)
(* lack one, and every moment in a room belongs to a visit. The window of -I   *)
(* then only ever holds moments all persons looked at so far shared.           *)
EXTENDS CQueries, Gallery_proofs

------------------------------------------------------------------------------
(* The inductive invariant *)

H(w) == Found(w).history

\* The moments of a visit.
Spans(iv, t) == iv.enter <= t /\ t < LeaveTime(iv)

\* The table has those the log names, and where they are.
Tracked(w) ==
  /\ people[w] = Unknown <=> \A i \in 1..Len(log) : log[i].who # w
  /\ Found(w).in_gallery <=> state.loc[w] # Absent
  /\ Found(w).current_room = IF state.loc[w] \in Room THEN state.loc[w] ELSE NoRoom

\* Of the visits h, only the last may lack an end: that to the place pl they end in.
LastOpen(pl, h) ==
  /\ \A i \in 1..Len(h) : h[i].leave = Open => i = Len(h) /\ pl = h[i].room
  /\ pl \in Room => Len(h) > 0 /\ h[Len(h)].leave = Open

\* A visit begins and ends at entries of es, and w is in its room meanwhile.
VisitSound(es, w, iv) ==
  /\ iv.enter < LeaveTime(iv)
  /\ \E a \in 1..Len(es) : es[a].timestamp = iv.enter
  /\ iv.leave # Open => \E b \in 1..Len(es) : es[b].timestamp = iv.leave
  /\ \A n \in 1..Len(es) : Spans(iv, es[n].timestamp) => PlacedAt(es, n, w, iv.room)

Sound(es, w, h) == \A i \in 1..Len(h) : VisitSound(es, w, h[i])

\* Every moment in a room belongs to a visit.
Covered(es, w, h) ==
  \A n \in 1..Len(es), r \in Room :
    PlacedAt(es, n, w, r) =>
      \E i \in 1..Len(h) : h[i].room = r /\ Spans(h[i], es[n].timestamp)

\* The visits are the arrivals, in their order.
Arrivals(w) == {e \in Entry : e.who = w /\ e.action = "Arrival" /\ e.room # NoRoom}

Listing(es, w, h) ==
  LET as == Those(es, Arrivals(w)) IN
  Len(h) = Len(as) /\ \A i \in 1..Len(as) : h[i].room = as[i].room

VisitsFit(es, w, pl, h) == /\ LastOpen(pl, h) /\ Sound(es, w, h)
                           /\ Covered(es, w, h) /\ Listing(es, w, h)

About(w) == Tracked(w) /\ VisitsFit(log, w, state.loc[w], H(w))

IInv == TypeOK /\ Reached(log, state) /\ \A w \in Person : About(w)

------------------------------------------------------------------------------
(* One more entry *)

LEMMA FoundType ==
  ASSUME TypeOK, NEW w \in Person
  PROVE  /\ Found(w) \in PersonRec /\ H(w) \in Seq(RoomInterval)
         /\ people[w] # Unknown => Found(w) = people[w]
<1>1. people[w] \in PersonRec \cup {Unknown} BY DEF TypeOK
<1>2. << >> \in Seq(RoomInterval) OBVIOUS
<1>3. Found(w) \in PersonRec BY <1>1, <1>2 DEF Found, PersonRec
<1> QED BY <1>3 DEF Found, H, PersonRec

\* The times of a visit.
LEMMA VisitTimes ==
  ASSUME NEW iv \in RoomInterval
  PROVE  /\ iv.room \in Room /\ iv.enter \in 1..MaxTs /\ iv.enter \in Nat
         /\ LeaveTime(iv) \in 1..INT_MAX /\ LeaveTime(iv) \in Nat
         /\ iv.leave # Open => LeaveTime(iv) = iv.leave /\ iv.leave \in 1..MaxTs
         /\ iv.leave = Open => LeaveTime(iv) = INT_MAX
<1>1. MaxTs \in Nat BY MaxTsAssumption
<1>2. iv.room \in Room /\ iv.enter \in 1..MaxTs /\ iv.leave \in (1..MaxTs) \cup {Open}
  BY DEF RoomInterval
<1> QED BY <1>1, <1>2 DEF LeaveTime, INT_MAX

\* What all kinds of step have in common.
LEMMA TakeExtends ==
  ASSUME IInv, NEW e \in Entry, Take(e)
  PROVE  /\ log' \in Seq(Entry) /\ Len(log') = Len(log) + 1 /\ log'[Len(log) + 1] = e
         /\ \A i \in 1..Len(log) : log'[i] = log[i]
         /\ state' \in GalleryState /\ Reached(log, state)'
         /\ state.loc[e.who] = From(e) /\ state'.loc[e.who] = To(e)
         /\ \A w \in Person \ {e.who} : state'.loc[w] = state.loc[w]
<1>1. log \in Seq(Entry) /\ state \in GalleryState /\ Reached(log, state) BY DEF IInv, TypeOK
<1>2. log' = Append(log, e) /\ state' = Applied(state, e) /\ CanApply(state, e) BY DEF Take
<1> QED BY <1>1, <1>2, ReachedNext

\* Who is where after the old entries, and after the new one, which is later.
LEMMA PlacedAfter ==
  ASSUME IInv, NEW e \in Entry, Take(e), NEW w \in Person, NEW r
  PROVE  /\ \A n \in 1..Len(log) : PlacedAt(log', n, w, r) <=> PlacedAt(log, n, w, r)
         /\ PlacedAt(log', Len(log) + 1, w, r) <=> state'.loc[w] = r
<1>1. /\ \A i \in 1..Len(log) : log'[i] = log[i]
      /\ Len(log') = Len(log) + 1 /\ Computes(state', log', Len(log'))
  BY TakeExtends DEF Reached
<1>2. Len(log) \in Nat BY DEF IInv, TypeOK
<1>3. PlacedAt(log', Len(log) + 1, w, r) <=> state'.loc[w] = r
  <2>1. Len(log) + 1 \in Nat /\ Computes(state', log', Len(log) + 1) BY <1>1, <1>2
  <2> QED BY <2>1, PlacedNow
<1>4. \A n \in 1..Len(log) : PlacedAt(log', n, w, r) <=> PlacedAt(log, n, w, r)
  BY <1>1, <1>2, PlacedBefore
<1> QED BY <1>3, <1>4

LEMMA LaterThan ==
  ASSUME IInv, NEW e \in Entry, Take(e), NEW n \in 1..Len(log)
  PROVE  /\ log[n].timestamp < e.timestamp /\ log[n].timestamp \in Nat
         /\ e.timestamp \in Nat /\ e.timestamp \in 1..MaxTs
<1>1. /\ log' \in Seq(Entry) /\ Len(log') = Len(log) + 1 /\ log'[Len(log) + 1] = e
      /\ log'[n] = log[n] /\ Rising(log')
  BY TakeExtends DEF Reached
<1>2. Len(log) \in Nat BY DEF IInv, TypeOK
<1>3. n \in 1..Len(log') /\ Len(log) + 1 \in 1..Len(log') /\ n < Len(log) + 1
  BY <1>1, <1>2
<1>4. log'[n].timestamp < log'[Len(log) + 1].timestamp BY <1>1, <1>3, RisingOrders
<1>5. log'[n].timestamp \in Nat BY <1>1, <1>3, RisingOrders
<1>6. e.timestamp \in Nat /\ e.timestamp \in 1..MaxTs BY MaxTsAssumption DEF Entry
<1> QED BY <1>1, <1>4, <1>5, <1>6

\* A visit that is sound stays so while its person stays, or once it has ended.
LEMMA StaysSound ==
  ASSUME IInv, NEW e \in Entry, Take(e), NEW w \in Person, NEW iv \in RoomInterval,
         VisitSound(log, w, iv), iv.leave = Open => state'.loc[w] = iv.room
  PROVE  VisitSound(log', w, iv)
<1> DEFINE N == Len(log)
<1>1. /\ N \in Nat /\ Len(log') = N + 1 /\ log'[N+1] = e
      /\ \A i \in 1..N : log'[i] = log[i]
  BY TakeExtends DEF IInv, TypeOK
<1>2. iv.enter < LeaveTime(iv) BY DEF VisitSound
<1>3. \E a \in 1..(N+1) : log'[a].timestamp = iv.enter
  <2>1. PICK a \in 1..N : log[a].timestamp = iv.enter BY DEF VisitSound
  <2> QED BY <1>1, <2>1
<1>4. iv.leave # Open => \E b \in 1..(N+1) : log'[b].timestamp = iv.leave
  <2>1. SUFFICES ASSUME iv.leave # Open
                 PROVE  \E b \in 1..(N+1) : log'[b].timestamp = iv.leave
    OBVIOUS
  <2>2. PICK b \in 1..N : log[b].timestamp = iv.leave BY <2>1 DEF VisitSound
  <2> QED BY <1>1, <2>2
<1>5. ASSUME NEW n \in 1..(N+1), Spans(iv, log'[n].timestamp)
      PROVE  PlacedAt(log', n, w, iv.room)
  <2>1. CASE n \in 1..N
    <3>1. log'[n] = log[n] BY <1>1, <2>1
    <3>2. PlacedAt(log, n, w, iv.room) BY <1>5, <2>1, <3>1 DEF VisitSound
    <3> QED BY <2>1, <3>2, PlacedAfter
  <2>2. CASE n = N + 1
    <3>1. iv.leave = Open
      <4>1. SUFFICES ASSUME iv.leave # Open PROVE FALSE OBVIOUS
      <4>2. PICK b \in 1..N : log[b].timestamp = iv.leave BY <4>1 DEF VisitSound
      <4>3. iv.leave < e.timestamp /\ iv.leave \in Nat /\ e.timestamp \in Nat
        BY <4>2, LaterThan
      <4>4. e.timestamp < iv.leave BY <1>1, <1>5, <2>2, <4>1 DEF Spans, LeaveTime
      <4> QED BY <4>3, <4>4
    <3> QED BY <2>2, <3>1, PlacedAfter
  <2>3. n \in 1..N \/ n = N + 1 BY <1>1
  <2> QED BY <2>1, <2>2, <2>3
<1> QED BY <1>1, <1>2, <1>3, <1>4, <1>5 DEF VisitSound

\* The old entries' rooms and times, and the new one's.
LEMMA MomentsAfter ==
  ASSUME IInv, NEW e \in Entry, Take(e), NEW w \in Person, NEW r \in Room, NEW n \in 1..Len(log'),
         PlacedAt(log', n, w, r)
  PROVE  \/ n \in 1..Len(log) /\ log'[n] = log[n] /\ PlacedAt(log, n, w, r)
         \/ n = Len(log) + 1 /\ log'[n] = e /\ state'.loc[w] = r
<1>1. /\ Len(log) \in Nat /\ Len(log') = Len(log) + 1 /\ log'[Len(log) + 1] = e
      /\ \A i \in 1..Len(log) : log'[i] = log[i]
  BY TakeExtends DEF IInv, TypeOK
<1>2. n \in 1..Len(log) \/ n = Len(log) + 1 BY <1>1
<1>3. CASE n \in 1..Len(log) BY <1>1, <1>3, PlacedAfter
<1>4. CASE n = Len(log) + 1 BY <1>1, <1>4, PlacedAfter
<1> QED BY <1>2, <1>3, <1>4

\* An entry after which the person is in the same room, or in none as before.
LEMMA KeepsFit ==
  ASSUME IInv, NEW e \in Entry, Take(e), NEW w \in Person,
         \A r \in Room : state'.loc[w] = r <=> state.loc[w] = r, e \notin Arrivals(w)
  PROVE  VisitsFit(log', w, state'.loc[w], H(w))
<1> DEFINE h == H(w)
<1>1. h \in Seq(RoomInterval) BY FoundType DEF IInv
<1>2. VisitsFit(log, w, state.loc[w], h) BY DEF IInv, About
<1> HIDE DEF h
<1>3. Len(h) \in Nat /\ \A i \in 1..Len(h) : h[i] \in RoomInterval /\ h[i].room \in Room
  <2>1. Len(h) \in Nat /\ \A i \in 1..Len(h) : h[i] \in RoomInterval BY <1>1
  <2> QED BY <2>1, VisitTimes
<1>4. LastOpen(state'.loc[w], h)
  BY <1>2, <1>3 DEF VisitsFit, LastOpen
<1>5. Sound(log', w, h)
  <2>1. ASSUME NEW i \in 1..Len(h) PROVE VisitSound(log', w, h[i])
    <3>1. h[i] \in RoomInterval /\ VisitSound(log, w, h[i]) BY <1>2, <1>3 DEF VisitsFit, Sound
    <3>2. h[i].leave = Open => state'.loc[w] = h[i].room BY <1>4 DEF LastOpen
    <3> QED BY <3>1, <3>2, StaysSound
  <2> QED BY <2>1 DEF Sound
<1>6. Covered(log', w, h)
  <2>1. ASSUME NEW n \in 1..Len(log'), NEW r \in Room, PlacedAt(log', n, w, r)
        PROVE  \E i \in 1..Len(h) : h[i].room = r /\ Spans(h[i], log'[n].timestamp)
    <3>1. CASE n \in 1..Len(log) /\ log'[n] = log[n] /\ PlacedAt(log, n, w, r)
      BY <1>2, <3>1 DEF VisitsFit, Covered
    <3>2. CASE n = Len(log) + 1 /\ log'[n] = e /\ state'.loc[w] = r
      <4> DEFINE iv == h[Len(h)]
      <4>1. Len(h) \in 1..Len(h) /\ iv.leave = Open /\ iv.room = r
        <5>1. state.loc[w] = r BY <3>2
        <5>2. Len(h) > 0 /\ iv.leave = Open BY <1>2, <5>1 DEF VisitsFit, LastOpen
        <5>3. Len(h) \in 1..Len(h) BY <1>3, <5>2
        <5> QED BY <1>2, <5>1, <5>2, <5>3 DEF VisitsFit, LastOpen
      <4>2. iv \in RoomInterval /\ LeaveTime(iv) = INT_MAX BY <1>3, <4>1, VisitTimes
      <4>3. PICK a \in 1..Len(log) : log[a].timestamp = iv.enter
        BY <1>2, <4>1 DEF VisitsFit, Sound, VisitSound
      <4>4. iv.enter < e.timestamp /\ iv.enter \in Nat /\ e.timestamp \in 1..MaxTs
        BY <4>3, LaterThan
      <4>5. Spans(iv, e.timestamp) BY <4>2, <4>4, MaxTsAssumption DEF Spans, INT_MAX
      <4> QED BY <3>2, <4>1, <4>5
    <3> QED BY <2>1, <3>1, <3>2, MomentsAfter
  <2> QED BY <2>1 DEF Covered
<1>7. Listing(log', w, h)
  <2>1. log' = Append(log, e) /\ log \in Seq(Entry) BY DEF Take, IInv, TypeOK
  <2>2. Those(log', Arrivals(w)) = Those(log, Arrivals(w)) BY <2>1, ThoseNext
  <2> QED BY <1>2, <2>2 DEF VisitsFit, Listing
<1> QED BY <1>4, <1>5, <1>6, <1>7 DEF VisitsFit, h

\* An arrival in a room begins a visit.
LEMMA EntersFit ==
  ASSUME IInv, NEW e \in Entry, Take(e), NEW w \in Person, w = e.who,
         e.action = "Arrival", e.room \in Room,
         NEW h, h = Append(H(w), [room |-> e.room, enter |-> e.timestamp, leave |-> Open])
  PROVE  VisitsFit(log', w, e.room, h) /\ h \in Seq(RoomInterval)
<1> DEFINE g == H(w)
           m == Len(g)
           iv == [room |-> e.room, enter |-> e.timestamp, leave |-> Open]
<1>1. g \in Seq(RoomInterval) BY FoundType DEF IInv
<1>2. VisitsFit(log, w, state.loc[w], g) BY DEF IInv, About
<1> HIDE DEF g
<1>3. state.loc[w] = NoRoom /\ state'.loc[w] = e.room /\ NoRoom \notin Room
  BY TakeExtends, PlaceAssumption DEF From, To, Outside
<1>4. e.timestamp \in 1..MaxTs /\ e.timestamp \in Nat /\ MaxTs \in Nat
  BY MaxTsAssumption DEF Entry
<1>5. iv \in RoomInterval BY <1>4 DEF RoomInterval
<1>6. /\ m \in Nat /\ h \in Seq(RoomInterval) /\ Len(h) = m + 1 /\ h[m+1] = iv
      /\ \A i \in 1..m : h[i] = g[i] /\ g[i] \in RoomInterval
  BY <1>1, <1>5 DEF g
<1>7. \A i \in 1..Len(h) : i \in 1..m \/ i = m + 1 BY <1>6
<1>8. \A i \in 1..m : g[i].leave # Open
  <2>1. ASSUME NEW i \in 1..m PROVE g[i].leave # Open
    <3>1. g[i].room \in Room BY <1>6 DEF RoomInterval
    <3> QED BY <1>2, <1>3, <3>1 DEF VisitsFit, LastOpen
  <2> QED BY <2>1
<1>9. iv.leave = Open /\ iv.room = e.room /\ iv.enter = e.timestamp OBVIOUS
<1>10. /\ Len(log) \in Nat /\ Len(log') = Len(log) + 1 /\ log'[Len(log) + 1] = e
       /\ \A i \in 1..Len(log) : log'[i] = log[i]
  BY TakeExtends DEF IInv, TypeOK
<1>11. LeaveTime(iv) = MaxTs + 1 BY <1>9 DEF LeaveTime, INT_MAX
<1> HIDE DEF iv, m
<1>12. LastOpen(e.room, h)
  <2>1. ASSUME NEW i \in 1..Len(h), h[i].leave = Open PROVE i = Len(h) /\ e.room = h[i].room
    BY <1>6, <1>7, <1>8, <1>9, <2>1
  <2>2. Len(h) > 0 /\ h[Len(h)].leave = Open BY <1>6, <1>9
  <2> QED BY <2>1, <2>2 DEF LastOpen
<1>13. VisitSound(log', w, iv)
  <2>1. iv.enter < LeaveTime(iv) BY <1>4, <1>9, <1>11
  <2>2. \E a \in 1..Len(log') : log'[a].timestamp = iv.enter
    <3>1. Len(log) + 1 \in 1..Len(log') BY <1>10
    <3> QED BY <1>9, <1>10, <3>1
  <2>3. ASSUME NEW n \in 1..Len(log'), Spans(iv, log'[n].timestamp)
        PROVE  PlacedAt(log', n, w, iv.room)
    <3>1. CASE n \in 1..Len(log)
      <4>1. log[n].timestamp < e.timestamp /\ log[n].timestamp \in Nat BY <3>1, LaterThan
      <4>2. e.timestamp <= log[n].timestamp BY <1>9, <1>10, <2>3, <3>1 DEF Spans
      <4> QED BY <1>4, <4>1, <4>2
    <3>2. CASE n = Len(log) + 1 BY <1>3, <1>9, <3>2, PlacedAfter
    <3>3. n \in 1..Len(log) \/ n = Len(log) + 1 BY <1>10
    <3> QED BY <3>1, <3>2, <3>3
  <2> QED BY <1>9, <2>1, <2>2, <2>3 DEF VisitSound
<1>14. Sound(log', w, h)
  <2>1. ASSUME NEW i \in 1..m PROVE VisitSound(log', w, g[i])
    <3>1. m = Len(g) BY DEF m
    <3>2. VisitSound(log, w, g[i]) BY <1>2, <3>1 DEF VisitsFit, Sound
    <3> QED BY <1>6, <1>8, <3>2, StaysSound
  <2> QED BY <1>6, <1>7, <1>13, <2>1 DEF Sound
<1>15. Covered(log', w, h)
  <2>1. ASSUME NEW n \in 1..Len(log'), NEW r \in Room, PlacedAt(log', n, w, r)
        PROVE  \E i \in 1..Len(h) : h[i].room = r /\ Spans(h[i], log'[n].timestamp)
    <3>1. CASE n \in 1..Len(log) /\ log'[n] = log[n] /\ PlacedAt(log, n, w, r)
      <4>1. PICK i \in 1..m : g[i].room = r /\ Spans(g[i], log[n].timestamp)
        BY <1>2, <3>1 DEF VisitsFit, Covered, m
      <4>2. i \in 1..Len(h) BY <1>6
      <4> QED BY <1>6, <3>1, <4>1, <4>2
    <3>2. CASE n = Len(log) + 1 /\ log'[n] = e /\ state'.loc[w] = r
      <4>1. Spans(iv, e.timestamp) BY <1>4, <1>9, <1>11 DEF Spans
      <4>2. m + 1 \in 1..Len(h) BY <1>6
      <4> QED BY <1>3, <1>6, <1>9, <3>2, <4>1, <4>2
    <3> QED BY <2>1, <3>1, <3>2, MomentsAfter
  <2> QED BY <2>1 DEF Covered
<1>16. Listing(log', w, h)
  <2> DEFINE as == Those(log, Arrivals(w))
             bs == Those(log', Arrivals(w))
  <2>1. log' = Append(log, e) /\ log \in Seq(Entry) BY DEF Take, IInv, TypeOK
  <2>2. e \in Arrivals(w) BY <1>3 DEF Arrivals
  <2>3. bs = Append(as, e) BY <2>1, <2>2, ThoseNext
  <2>4. as \in Seq(Entry) BY <2>1, ThoseElements
  <2>5. Len(g) = Len(as) /\ \A i \in 1..Len(as) : g[i].room = as[i].room
    BY <1>2 DEF VisitsFit, Listing
  <2> HIDE DEF as, bs
  <2>6. /\ Len(as) = m /\ Len(bs) = m + 1 /\ bs[m+1] = e
        /\ \A i \in 1..m : bs[i] = as[i]
    <3>1. Len(as) = m BY <2>5 DEF m
    <3>2. /\ Len(bs) = Len(as) + 1 /\ bs[Len(as) + 1] = e
          /\ \A i \in 1..Len(as) : bs[i] = as[i]
      <4>1. \A q \in Seq(Entry) :
              /\ Len(Append(q, e)) = Len(q) + 1 /\ Append(q, e)[Len(q) + 1] = e
              /\ \A i \in 1..Len(q) : Append(q, e)[i] = q[i]
        OBVIOUS
      <4> QED BY <2>3, <2>4, <4>1
    <3> QED BY <3>1, <3>2
  <2>7. ASSUME NEW i \in 1..Len(bs) PROVE h[i].room = bs[i].room
    <3>1. i \in 1..m \/ i = m + 1 BY <1>6, <2>6
    <3> QED BY <1>6, <1>9, <2>5, <2>6, <3>1
  <2> QED BY <1>6, <2>6, <2>7 DEF Listing, bs
<1> QED BY <1>6, <1>12, <1>14, <1>15, <1>16 DEF VisitsFit

\* A departure from a room ends the last visit.
LEMMA LeavesFit ==
  ASSUME IInv, NEW e \in Entry, Take(e), NEW w \in Person, w = e.who,
         e.action = "Departure", e.room \in Room,
         NEW h, h = Closed(H(w), e.timestamp)
  PROVE  VisitsFit(log', w, NoRoom, h) /\ h \in Seq(RoomInterval)
<1> DEFINE g == H(w)
           m == Len(g)
           old == g[m]
           iv == [old EXCEPT !.leave = e.timestamp]
<1>1. g \in Seq(RoomInterval) BY FoundType DEF IInv
<1>2. VisitsFit(log, w, state.loc[w], g) BY DEF IInv, About
<1> HIDE DEF g
<1>3. state.loc[w] = e.room /\ state'.loc[w] = NoRoom /\ NoRoom \notin Room
  BY TakeExtends, PlaceAssumption DEF From, To, Outside
<1>4. e.timestamp \in 1..MaxTs /\ e.timestamp \in Nat /\ MaxTs \in Nat
  BY MaxTsAssumption DEF Entry
<1>5. m \in 1..m /\ m \in Nat /\ old.leave = Open /\ old.room = e.room /\ old \in RoomInterval
  <2>1. m \in Nat BY <1>1
  <2>2. m > 0 /\ old.leave = Open BY <1>2, <1>3 DEF VisitsFit, LastOpen
  <2>3. m \in 1..m BY <2>1, <2>2
  <2> QED BY <1>1, <1>2, <1>3, <2>1, <2>2, <2>3 DEF VisitsFit, LastOpen
<1>6. \A i \in 1..m : g[i].leave = Open => i = m BY <1>2 DEF VisitsFit, LastOpen
<1>7. h = [g EXCEPT ![m].leave = e.timestamp]
  <2> DEFINE opened == {j \in 1..m : g[j].leave = Open}
             last == CHOOSE j \in opened : \A k \in opened : k <= j
  <2>1. opened = {m} BY <1>5, <1>6
  <2>2. m <= m BY <1>5
  <2>3. last \in opened BY <2>1, <2>2
  <2>4. last = m /\ opened # {} BY <2>1, <2>3
  <2> QED BY <2>4 DEF Closed, g
<1>8. /\ iv.leave = e.timestamp /\ iv.room = e.room /\ iv.enter = old.enter
      /\ iv \in RoomInterval /\ iv.leave # Open
  BY <1>4, <1>5, CQueryNullsAssumption DEF RoomInterval
<1>9. /\ Len(h) = m /\ h[m] = iv /\ h \in Seq(RoomInterval)
      /\ \A i \in 1..m : i # m => h[i] = g[i]
  BY <1>1, <1>5, <1>7, <1>8
<1>10. \A i \in 1..m : g[i] \in RoomInterval BY <1>1
<1>11. /\ Len(log) \in Nat /\ Len(log') = Len(log) + 1 /\ log'[Len(log) + 1] = e
       /\ \A i \in 1..Len(log) : log'[i] = log[i]
  BY TakeExtends DEF IInv, TypeOK
<1>12. LeaveTime(iv) = e.timestamp /\ LeaveTime(old) = MaxTs + 1
  BY <1>5, <1>8 DEF LeaveTime, INT_MAX
<1> HIDE DEF m
<1>13. VisitSound(log, w, old) BY <1>2, <1>5 DEF VisitsFit, Sound, m
<1> HIDE DEF iv, old
<1>14. LastOpen(NoRoom, h)
  <2>1. ASSUME NEW i \in 1..Len(h) PROVE h[i].leave # Open
    BY <1>6, <1>8, <1>9
  <2> QED BY <1>3, <2>1 DEF LastOpen
<1>15. VisitSound(log', w, iv)
  <2>1. PICK a \in 1..Len(log) : log[a].timestamp = iv.enter BY <1>8, <1>13 DEF VisitSound
  <2>2. iv.enter < LeaveTime(iv) BY <1>12, <2>1, LaterThan
  <2>3. \E k \in 1..Len(log') : log'[k].timestamp = iv.enter BY <1>11, <2>1
  <2>4. \E k \in 1..Len(log') : log'[k].timestamp = iv.leave
    <3>1. Len(log) + 1 \in 1..Len(log') BY <1>11
    <3> QED BY <1>8, <1>11, <3>1
  <2>5. ASSUME NEW n \in 1..Len(log'), Spans(iv, log'[n].timestamp)
        PROVE  PlacedAt(log', n, w, iv.room)
    <3>1. CASE n \in 1..Len(log)
      <4>1. log[n].timestamp < e.timestamp /\ log[n].timestamp \in Nat BY <3>1, LaterThan
      <4>2. Spans(old, log[n].timestamp)
        <5>1. old.enter <= log[n].timestamp BY <1>8, <1>11, <2>5, <3>1 DEF Spans
        <5>2. log[n].timestamp < MaxTs + 1 BY <1>4, <4>1
        <5> QED BY <1>12, <5>1, <5>2 DEF Spans
      <4>3. PlacedAt(log, n, w, old.room) BY <1>13, <3>1, <4>2 DEF VisitSound
      <4> QED BY <1>5, <1>8, <3>1, <4>3, PlacedAfter
    <3>2. CASE n = Len(log) + 1
      <4>1. e.timestamp < e.timestamp BY <1>11, <1>12, <2>5, <3>2 DEF Spans
      <4> QED BY <1>4, <4>1
    <3>3. n \in 1..Len(log) \/ n = Len(log) + 1 BY <1>11
    <3> QED BY <3>1, <3>2, <3>3
  <2> QED BY <2>2, <2>3, <2>4, <2>5 DEF VisitSound
<1>16. Sound(log', w, h)
  <2>1. ASSUME NEW i \in 1..m PROVE VisitSound(log', w, h[i])
    <3>1. CASE i = m BY <1>9, <1>15, <3>1
    <3>2. CASE i # m
      <4>1. g[i] \in RoomInterval /\ g[i].leave # Open /\ h[i] = g[i]
        BY <1>6, <1>9, <1>10, <3>2
      <4>2. VisitSound(log, w, g[i]) BY <1>2 DEF VisitsFit, Sound, m
      <4> QED BY <4>1, <4>2, StaysSound
    <3> QED BY <3>1, <3>2
  <2> QED BY <1>9, <2>1 DEF Sound
<1>17. Covered(log', w, h)
  <2>1. ASSUME NEW n \in 1..Len(log'), NEW r \in Room, PlacedAt(log', n, w, r)
        PROVE  \E i \in 1..Len(h) : h[i].room = r /\ Spans(h[i], log'[n].timestamp)
    <3>1. n \in 1..Len(log) /\ log'[n] = log[n] /\ PlacedAt(log, n, w, r)
      BY <1>3, <2>1, MomentsAfter
    <3>2. PICK i \in 1..m : g[i].room = r /\ Spans(g[i], log[n].timestamp)
      BY <1>2, <3>1 DEF VisitsFit, Covered, m
    <3>3. CASE i = m
      <4>1. log[n].timestamp < e.timestamp BY <3>1, LaterThan
      <4>2. g[i] = old BY <3>3 DEF old
      <4>3. Spans(iv, log[n].timestamp) BY <1>8, <1>12, <3>2, <4>1, <4>2 DEF Spans
      <4>4. h[m].room = r BY <1>5, <1>8, <1>9, <3>2, <4>2
      <4> QED BY <1>5, <1>9, <3>1, <4>3, <4>4
    <3>4. CASE i # m BY <1>9, <3>1, <3>2, <3>4
    <3> QED BY <3>3, <3>4
  <2> QED BY <2>1 DEF Covered
<1>18. Listing(log', w, h)
  <2> DEFINE as == Those(log, Arrivals(w))
  <2>1. log' = Append(log, e) /\ log \in Seq(Entry) BY DEF Take, IInv, TypeOK
  <2>2. e \notin Arrivals(w) BY DEF Arrivals
  <2>3. Those(log', Arrivals(w)) = as BY <2>1, <2>2, ThoseNext
  <2>4. m = Len(as) /\ \A i \in 1..Len(as) : g[i].room = as[i].room
    BY <1>2 DEF VisitsFit, Listing, m
  <2>5. ASSUME NEW i \in 1..m PROVE h[i].room = g[i].room
    <3>1. CASE i = m BY <1>5, <1>8, <1>9, <3>1 DEF old
    <3>2. CASE i # m BY <1>9, <3>2
    <3> QED BY <3>1, <3>2
  <2> QED BY <1>9, <2>3, <2>4, <2>5 DEF Listing
<1> QED BY <1>9, <1>14, <1>16, <1>17, <1>18 DEF VisitsFit

\* Which entries each kind of step takes.
LEMMA StepEntry ==
  ASSUME IInv, NEW e \in Entry, Take(e)
  PROVE  /\ EnterRoom(e) => e.action = "Arrival" /\ e.room \in Room
         /\ LeaveRoom(e) => e.action = "Departure" /\ e.room \in Room
         /\ SameRoom(e) => /\ e \notin Arrivals(e.who)
                           /\ \A r \in Room : state'.loc[e.who] = r <=> state.loc[e.who] = r
<1> DEFINE w == e.who
           cur == Found(w).current_room
<1>1. /\ w \in Person /\ e.room \in Room \cup {NoRoom}
      /\ e.action = "Arrival" \/ e.action = "Departure"
  BY DEF Entry
<1>2. state.loc[w] = From(e) /\ state'.loc[w] = To(e) BY TakeExtends
<1>3. cur = IF state.loc[w] \in Room THEN state.loc[w] ELSE NoRoom
  BY <1>1 DEF IInv, About, Tracked
<1>4. NoRoom \notin Room /\ Absent \notin Room /\ Absent # NoRoom BY PlaceAssumption
<1>5. To(e) \in Room => e.action = "Arrival" /\ e.room \in Room
  BY <1>1, <1>4 DEF To, Outside
<1>6. From(e) \in Room => e.action = "Departure" /\ e.room \in Room /\ To(e) = NoRoom
  BY <1>1, <1>4 DEF From, To, Outside
<1>7. e \in Arrivals(w) => To(e) \in Room BY <1>1 DEF Arrivals, To
<1>8. RoomId(e) = IF To(e) \in Room THEN To(e) ELSE NoRoom BY DEF RoomId
<1>9. EnterRoom(e) => To(e) \in Room BY <1>8 DEF EnterRoom
<1>10. LeaveRoom(e) => From(e) \in Room BY <1>2, <1>3 DEF LeaveRoom
<1>11. SameRoom(e) => From(e) \notin Room /\ To(e) \notin Room
  BY <1>2, <1>3, <1>4, <1>6, <1>8 DEF SameRoom
<1> QED BY <1>2, <1>5, <1>6, <1>7, <1>9, <1>10, <1>11

\* The record a step leaves for the person of its entry.
LEMMA SetType ==
  ASSUME TypeOK, NEW e \in Entry, NEW h \in Seq(RoomInterval), SetPerson(e, h)
  PROVE  /\ people' \in [Person -> PersonRec \cup {Unknown}]
         /\ people'[e.who] # Unknown /\ Found(e.who)' = people'[e.who]
         /\ H(e.who)' = h
         /\ people'[e.who].in_gallery <=> To(e) # Absent
         /\ people'[e.who].current_room = RoomId(e)
         /\ \A w \in Person \ {e.who} : people'[w] = people[w]
<1> DEFINE rec == [in_gallery |-> InGallery(e), current_room |-> RoomId(e), history |-> h]
<1>1. e.who \in Person BY DEF Entry
<1>2. rec \in PersonRec
  <2>1. InGallery(e) \in BOOLEAN BY DEF InGallery
  <2>2. RoomId(e) \in Room \cup {NoRoom} BY DEF RoomId
  <2> QED BY <2>1, <2>2 DEF PersonRec
<1>3. rec # Unknown BY <1>2, CQueryNullsAssumption
<1>4. people \in [Person -> PersonRec \cup {Unknown}] BY DEF TypeOK
<1>5. people' = [people EXCEPT ![e.who] = rec] BY DEF SetPerson
<1>6. rec.in_gallery = InGallery(e) /\ rec.current_room = RoomId(e) /\ rec.history = h
  OBVIOUS
<1> HIDE DEF rec
<1>7. people' \in [Person -> PersonRec \cup {Unknown}] /\ people'[e.who] = rec
  BY <1>1, <1>2, <1>4, <1>5
<1>8. \A w \in Person \ {e.who} : people'[w] = people[w] BY <1>4, <1>5
<1>9. Found(e.who)' = people'[e.who] BY <1>3, <1>7 DEF Found
<1> QED BY <1>3, <1>6, <1>7, <1>8, <1>9 DEF H, InGallery

\* A step keeps everybody's account right.
LEMMA TakeKeeps ==
  ASSUME IInv, NEW e \in Entry, Take(e)
  PROVE  IInv'
<1> DEFINE v == e.who
           N == Len(log)
<1>1. TypeOK /\ \A w \in Person : About(w) BY DEF IInv
<1>2. v \in Person BY DEF Entry
<1>3. /\ log' \in Seq(Entry) /\ Len(log') = N + 1 /\ log'[N+1] = e
      /\ \A i \in 1..N : log'[i] = log[i]
      /\ state' \in GalleryState /\ Reached(log, state)' /\ N \in Nat
      /\ state'.loc[v] = To(e)
  BY <1>1, TakeExtends DEF TypeOK
<1>4. PICK h \in Seq(RoomInterval) :
        SetPerson(e, h) /\ VisitsFit(log', v, state'.loc[v], h)
  <2>1. H(v) \in Seq(RoomInterval) BY <1>1, <1>2, FoundType
  <2>2. CASE EnterRoom(e)
    <3>1. PICK h : h = Append(H(v), [room |-> RoomId(e), enter |-> e.timestamp, leave |-> Open])
      OBVIOUS
    <3>2. e.action = "Arrival" /\ e.room \in Room BY <2>2, StepEntry
    <3>3. To(e) = e.room /\ RoomId(e) = e.room BY <3>2 DEF To, RoomId
    <3>4. VisitsFit(log', v, e.room, h) /\ h \in Seq(RoomInterval)
      BY <1>2, <3>1, <3>2, <3>3, EntersFit
    <3>5. SetPerson(e, h) BY <2>2, <3>1 DEF EnterRoom, H
    <3> QED BY <1>3, <3>3, <3>4, <3>5
  <2>3. CASE LeaveRoom(e)
    <3>1. PICK h : h = Closed(H(v), e.timestamp) OBVIOUS
    <3>2. e.action = "Departure" /\ e.room \in Room BY <2>3, StepEntry
    <3>3. To(e) = NoRoom BY <3>2, PlaceAssumption DEF To, Outside
    <3>4. VisitsFit(log', v, NoRoom, h) /\ h \in Seq(RoomInterval)
      BY <1>2, <3>1, <3>2, LeavesFit
    <3>5. SetPerson(e, h) BY <2>3, <3>1 DEF LeaveRoom, H
    <3> QED BY <1>3, <3>3, <3>4, <3>5
  <2>4. CASE SameRoom(e)
    <3>1. e \notin Arrivals(v) /\ \A r \in Room : state'.loc[v] = r <=> state.loc[v] = r
      BY <2>4, StepEntry
    <3>2. VisitsFit(log', v, state'.loc[v], H(v)) BY <1>2, <3>1, KeepsFit
    <3>3. SetPerson(e, H(v)) BY <2>4 DEF SameRoom, H
    <3> QED BY <2>1, <3>2, <3>3
  <2> QED BY <2>2, <2>3, <2>4 DEF Take
<1>5. /\ people' \in [Person -> PersonRec \cup {Unknown}]
      /\ people'[v] # Unknown /\ Found(v)' = people'[v] /\ H(v)' = h
      /\ people'[v].in_gallery <=> To(e) # Absent
      /\ people'[v].current_room = RoomId(e)
      /\ \A w \in Person \ {v} : people'[w] = people[w]
  BY <1>1, <1>4, SetType
<1>6. TypeOK' BY <1>3, <1>5 DEF TypeOK
<1>7. About(v)'
  <2>1. N + 1 \in 1..Len(log') BY <1>3
  <2>2. ~ \A i \in 1..Len(log') : log'[i].who # v BY <1>3, <2>1
  <2>3. Found(v)'.current_room = IF To(e) \in Room THEN To(e) ELSE NoRoom
    BY <1>5 DEF RoomId
  <2>4. Tracked(v)' BY <1>3, <1>5, <2>2, <2>3 DEF Tracked
  <2>5. VisitsFit(log', v, state'.loc[v], H(v)') BY <1>4, <1>5
  <2> QED BY <2>4, <2>5 DEF About
<1>8. ASSUME NEW w \in Person, w # v PROVE About(w)'
  <2>1. state'.loc[w] = state.loc[w] BY <1>8, TakeExtends
  <2>2. people'[w] = people[w] /\ Found(w)' = Found(w) BY <1>5, <1>8 DEF Found
  <2>3. H(w)' = H(w) BY <2>2 DEF H
  <2>4. e \notin Arrivals(w) BY <1>8 DEF Arrivals
  <2>5. VisitsFit(log', w, state'.loc[w], H(w)) BY <2>1, <2>4, KeepsFit
  <2>6. (\A i \in 1..Len(log') : log'[i].who # w) <=> (\A i \in 1..N : log[i].who # w)
    <3>1. \A i \in 1..(N+1) : i \in 1..N \/ i = N + 1 BY <1>3
    <3>2. \A i \in 1..N : i \in 1..(N+1) BY <1>3
    <3> QED BY <1>3, <1>8, <3>1, <3>2
  <2>7. Tracked(w)' BY <1>1, <2>1, <2>2, <2>6 DEF About, Tracked
  <2> QED BY <2>3, <2>5, <2>7 DEF About
<1> QED BY <1>3, <1>6, <1>7, <1>8 DEF IInv

------------------------------------------------------------------------------
(* The invariant holds *)

LEMMA InitIInv == Init => IInv
<1> SUFFICES ASSUME Init PROVE IInv OBVIOUS
<1>1. log = << >> /\ state = EmptyState /\ \A w \in Person : people[w] = Unknown
  BY DEF Init
<1>2. TypeOK
  <2>1. << >> \in Seq(Entry) OBVIOUS
  <2>2. people \in [Person -> PersonRec \cup {Unknown}] BY DEF Init
  <2> QED BY <1>1, <2>1, <2>2, EmptyStateType DEF TypeOK
<1>3. Len(log) = 0 BY <1>1
<1>4. Reached(log, state) BY <1>1, <1>3, ComputesEmpty DEF Reached, ValidLog, Rising
<1>5. ASSUME NEW w \in Person PROVE About(w)
  <2>1. state.loc[w] = Absent /\ Absent \notin Room BY <1>1, PlaceAssumption DEF EmptyState
  <2>2. Found(w) = [in_gallery |-> FALSE, current_room |-> NoRoom, history |-> << >>]
    BY <1>1 DEF Found
  <2>3. H(w) = << >> /\ Len(H(w)) = 0 BY <2>2 DEF H
  <2>4. Tracked(w) BY <1>1, <1>3, <2>1, <2>2 DEF Tracked
  <2>5. Those(log, Arrivals(w)) = << >> BY <1>1, ThoseOfNone
  <2>6. VisitsFit(log, w, state.loc[w], H(w))
    BY <1>3, <2>1, <2>3, <2>5 DEF VisitsFit, LastOpen, Sound, Covered, Listing
  <2> QED BY <2>4, <2>6 DEF About
<1> QED BY <1>2, <1>4, <1>5 DEF IInv

LEMMA NextIInv == IInv /\ [Next]_vars => IInv'
<1> SUFFICES ASSUME IInv, [Next]_vars PROVE IInv' OBVIOUS
<1>1. CASE Next BY <1>1, TakeKeeps DEF Next
<1>2. CASE UNCHANGED vars
  <2>1. log' = log /\ state' = state /\ people' = people BY <1>2 DEF vars
  <2> QED BY <2>1 DEF IInv, TypeOK, About, Tracked, Found, H
<1> QED BY <1>1, <1>2

LEMMA Invariant == Spec => []IInv
BY InitIInv, NextIInv, PTL DEF Spec

\* Type correctness of the table of persons.
THEOREM CQueriesTypeCorrect == Spec => []TypeOK
<1>1. IInv => TypeOK BY DEF IInv
<1> QED BY <1>1, Invariant, PTL

------------------------------------------------------------------------------
(* -S and -R *)

\* What the invariant says of somebody now.
LEMMA Now ==
  ASSUME IInv, NEW w \in Person
  PROVE  /\ log \in Seq(Entry) /\ Len(log) \in Nat /\ H(w) \in Seq(RoomInterval)
         /\ \A r : PlacedAt(log, Len(log), w, r) <=> state.loc[w] = r
         /\ state.loc[w] \in Place
         /\ people[w] = Unknown <=> \A i \in 1..Len(log) : log[i].who # w
         /\ people[w] # Unknown => H(w) = people[w].history
         /\ people[w] = Unknown => H(w) = << >> /\ state.loc[w] = Absent
         /\ Inside(w) <=> state.loc[w] # Absent
         /\ people[w] # Unknown => people[w].current_room =
              IF state.loc[w] \in Room THEN state.loc[w] ELSE NoRoom
<1>1. TypeOK /\ About(w) /\ Computes(state, log, Len(log)) BY DEF IInv, Reached
<1>2. log \in Seq(Entry) /\ Len(log) \in Nat /\ state.loc[w] \in Place
  BY <1>1 DEF TypeOK, GalleryState
<1>3. \A r : PlacedAt(log, Len(log), w, r) <=> state.loc[w] = r BY <1>1, <1>2, PlacedNow
<1>4. H(w) \in Seq(RoomInterval) /\ (people[w] # Unknown => Found(w) = people[w])
  BY <1>1, FoundType
<1>5. Tracked(w) BY <1>1 DEF About
<1>6. people[w] # Unknown => H(w) = people[w].history BY <1>4 DEF H
<1>7. people[w] = Unknown => H(w) = << >> /\ Found(w).in_gallery = FALSE BY DEF H, Found
<1>8. people[w] = Unknown => state.loc[w] = Absent BY <1>5, <1>7 DEF Tracked
<1>9. Inside(w) <=> state.loc[w] # Absent BY <1>4, <1>5, <1>8 DEF Tracked, Inside
<1>10. people[w] # Unknown => people[w].current_room =
         IF state.loc[w] \in Room THEN state.loc[w] ELSE NoRoom
  BY <1>4, <1>5 DEF Tracked
<1>11. people[w] = Unknown <=> \A i \in 1..Len(log) : log[i].who # w BY <1>5 DEF Tracked
<1> QED BY <1>2, <1>3, <1>4, <1>6, <1>7, <1>8, <1>9, <1>10, <1>11

(* process_line's table of visits and the places agree with the log: a visit    *)
(* lacks an end exactly while its person is in its room.                        *)
THEOREM CVisitsMatchPlaces == Spec => []VisitsMatchPlaces
<1>1. ASSUME IInv PROVE VisitsMatchPlaces
  <2>1. ASSUME NEW w \in Person, people[w] = Unknown
        PROVE  PlacedAt(log, Len(log), w, Absent)
    BY <1>1, <2>1, Now
  <2>2. ASSUME NEW w \in Person, people[w] # Unknown, NEW h, h = people[w].history
        PROVE  /\ \A i \in 1..Len(h) : h[i].leave = Open => i = Len(h)
               /\ \A r \in Room : PlacedAt(log, Len(log), w, r) <=>
                    h # << >> /\ h[Len(h)].leave = Open /\ h[Len(h)].room = r
    <3>1. h = H(w) /\ h \in Seq(RoomInterval) BY <1>1, <2>2, Now
    <3>2. LastOpen(state.loc[w], h) BY <1>1, <3>1 DEF IInv, About, VisitsFit
    <3>3. \A i \in 1..Len(h) : h[i].leave = Open => i = Len(h) BY <3>2 DEF LastOpen
    <3>4. ASSUME NEW r \in Room
          PROVE  PlacedAt(log, Len(log), w, r) <=>
                    h # << >> /\ h[Len(h)].leave = Open /\ h[Len(h)].room = r
      <4>1. PlacedAt(log, Len(log), w, r) <=> state.loc[w] = r BY <1>1, Now
      <4>2. h # << >> <=> Len(h) \in 1..Len(h) BY <3>1
      <4>3. h # << >> <=> Len(h) > 0 BY <3>1
      <4>4. h # << >> /\ h[Len(h)].leave = Open => state.loc[w] = h[Len(h)].room
        BY <3>2, <4>2 DEF LastOpen
      <4>5. state.loc[w] \in Room => h # << >> /\ h[Len(h)].leave = Open
        BY <3>2, <4>3 DEF LastOpen
      <4> QED BY <4>1, <4>4, <4>5
    <3> QED BY <3>3, <3>4
  <2> QED BY <2>1, <2>2 DEF VisitsMatchPlaces
<1> QED BY <1>1, Invariant, PTL

(* print_state lists exactly those the log leaves in the gallery, and every     *)
(* occupied room with everybody in it.                                          *)
THEOREM CStateMatchesLog == Spec => []StateMatchesLog
<1>1. ASSUME IInv PROVE StateMatchesLog
  <2> DEFINE at(r) == {w \in Person : PlacedAt(log, Len(log), w, r)}
             here(r) == {w \in Person : Inside(w) /\ people[w].current_room = r}
             occupied == {people[w].current_room : w \in {v \in Person : Inside(v)}} \ {NoRoom}
  <2>1. ASSUME NEW w \in Person, NEW r \in Room
        PROVE  Inside(w) /\ people[w].current_room = r <=> PlacedAt(log, Len(log), w, r)
    <3>1. PlacedAt(log, Len(log), w, r) <=> state.loc[w] = r BY <1>1, Now
    <3>2. NoRoom \notin Room /\ Absent \notin Room BY PlaceAssumption
    <3>3. Inside(w) => people[w] # Unknown BY DEF Inside
    <3>4. people[w] # Unknown => people[w].current_room =
            IF state.loc[w] \in Room THEN state.loc[w] ELSE NoRoom
      BY <1>1, Now
    <3>5. Inside(w) <=> state.loc[w] # Absent BY <1>1, Now
    <3> QED BY <3>1, <3>2, <3>3, <3>4, <3>5
  <2>2. \A r \in Room : here(r) = at(r) BY <2>1
  <2>3. {w \in Person : Inside(w)} = Person \ at(Absent)
    <3>1. \A w \in Person : Inside(w) <=> ~ PlacedAt(log, Len(log), w, Absent) BY <1>1, Now
    <3> QED BY <3>1
  <2>4. occupied = {q \in Room : at(q) # {}}
    <3>1. ASSUME NEW w \in Person, Inside(w)
          PROVE  people[w].current_room \in Room \cup {NoRoom}
      <4>1. people[w] # Unknown BY <3>1 DEF Inside
      <4> QED BY <1>1, <4>1, Now
    <3>2. \A q : q \in occupied <=> q \in Room /\ \E w \in Person : w \in here(q)
      BY <3>1, PlaceAssumption
    <3>3. \A q : q \in occupied <=> q \in Room /\ \E w \in Person : w \in at(q)
      BY <2>2, <3>2
    <3> HIDE DEF occupied
    <3> QED BY <3>3
  <2>5. {[room |-> r, who |-> here(r)] : r \in occupied} =
        {[room |-> r, who |-> at(r)] : r \in {q \in Room : at(q) # {}}}
    <3> HIDE DEF occupied, here, at
    <3>1. \A r \in occupied : here(r) = at(r) BY <2>2, <2>4
    <3> QED BY <2>4, <3>1
  <2>6. print_state = [inside |-> {w \in Person : Inside(w)},
                       rooms  |-> {[room |-> r, who |-> here(r)] : r \in occupied}]
    BY DEF print_state
  <2>7. StateMatchesLog <=>
          print_state = [inside |-> Person \ at(Absent),
                         rooms  |-> {[room |-> r, who |-> at(r)] : r \in {q \in Room : at(q) # {}}}]
    BY DEF StateMatchesLog
  <2> HIDE DEF occupied, here, at
  <2> QED BY <2>3, <2>5, <2>6, <2>7
<1> QED BY <1>1, Invariant, PTL

(* print_rooms_visited lists the arrivals in rooms, all of them and in their    *)
(* order, and nothing for those the log does not name.                          *)
THEOREM CHistoryComplete == Spec => []HistoryComplete
<1>1. ASSUME IInv PROVE HistoryComplete
  <2>1. ASSUME NEW w \in Person, NEW es, es = Those(log, Arrivals(w))
        PROVE  print_rooms_visited(w) =
                 IF \A i \in 1..Len(log) : log[i].who # w
                   THEN Unknown
                   ELSE [i \in 1..Len(es) |-> es[i].room]
    <3>1. people[w] = Unknown <=> \A i \in 1..Len(log) : log[i].who # w BY <1>1, Now
    <3>2. CASE people[w] = Unknown BY <3>1, <3>2 DEF print_rooms_visited
    <3>3. CASE people[w] # Unknown
      <4> DEFINE h == people[w].history
      <4>1. h = H(w) BY <1>1, <3>3, Now
      <4>2. Len(h) = Len(es) /\ \A i \in 1..Len(es) : h[i].room = es[i].room
        BY <1>1, <2>1, <4>1 DEF IInv, About, VisitsFit, Listing
      <4>3. print_rooms_visited(w) = [i \in 1..Len(h) |-> h[i].room]
        BY <3>3 DEF print_rooms_visited
      <4> HIDE DEF h
      <4>4. [i \in 1..Len(h) |-> h[i].room] = [i \in 1..Len(es) |-> es[i].room] BY <4>2
      <4> QED BY <3>1, <3>3, <4>3, <4>4
    <3> QED BY <3>2, <3>3
  <2> QED BY <2>1 DEF HistoryComplete, Arrivals
<1> QED BY <1>1, Invariant, PTL

------------------------------------------------------------------------------
(* -I *)

\* The persons looked at: those asked about that the log names.
LEMMA AskedKnown ==
  ASSUME IInv, NEW asked \in Asked, NEW ws, ws = Those(asked, Known)
  PROVE  /\ ws \in Seq(Person)
         /\ \A w : (\E p \in 1..Len(ws) : ws[p] = w) <=> w \in Present(asked)
         /\ \A p \in 1..Len(ws) : ws[p] \in Person /\ people[ws[p]] # Unknown
<1>1. asked \in Seq(Person)
  <2>1. PICK n \in 1..MaxAsked : asked \in [1..n -> Person] BY DEF Asked
  <2>2. n \in Nat BY MaxAskedAssumption
  <2> QED BY <2>1, <2>2
<1>2. /\ ws \in Seq(Person)
      /\ \A w : (\E p \in 1..Len(ws) : ws[p] = w) <=>
                (w \in Known /\ \E q \in 1..Len(asked) : asked[q] = w)
  BY <1>1, ThoseElements
<1>3. \A w \in Person : people[w] # Unknown <=> \E i \in 1..Len(log) : log[i].who = w
  BY Now
<1>4. \A w : w \in Present(asked) <=> w \in Known /\ \E q \in 1..Len(asked) : asked[q] = w
  BY <1>3 DEF Present, Known
<1>5. \A p \in 1..Len(ws) : ws[p] \in Known BY <1>2
<1> QED BY <1>2, <1>4, <1>5 DEF Known

\* What is known of somebody's visits.
LEMMA VisitFacts ==
  ASSUME IInv, NEW w \in Person, people[w] # Unknown, NEW h, h = people[w].history
  PROVE  /\ h \in Seq(RoomInterval) /\ Len(h) \in Nat
         /\ \A i \in 1..Len(h) : h[i] \in RoomInterval /\ VisitSound(log, w, h[i])
         /\ Covered(log, w, h)
<1>1. h = H(w) /\ h \in Seq(RoomInterval) BY Now
<1> QED BY <1>1 DEF IInv, About, VisitsFit, Sound

\* A room somebody visited is one they have been in, and the other way round.
LEMMA RoomsOfPlaced ==
  ASSUME IInv, NEW w \in Person, people[w] # Unknown, NEW r \in Room
  PROVE  r \in RoomsOf(w) <=> \E n \in 1..Len(log) : PlacedAt(log, n, w, r)
<1>1. PICK h : h = people[w].history OBVIOUS
<1>2. /\ \A i \in 1..Len(h) : h[i] \in RoomInterval /\ VisitSound(log, w, h[i])
      /\ Covered(log, w, h)
  BY <1>1, VisitFacts
<1>3. r \in RoomsOf(w) <=> \E i \in 1..Len(h) : h[i].room = r BY <1>1 DEF RoomsOf
<1>4. ASSUME NEW i \in 1..Len(h), h[i].room = r
      PROVE  \E n \in 1..Len(log) : PlacedAt(log, n, w, r)
  <2>1. PICK a \in 1..Len(log) : log[a].timestamp = h[i].enter BY <1>2 DEF VisitSound
  <2>2. h[i].enter \in Nat /\ h[i].enter < LeaveTime(h[i])
    BY <1>2, VisitTimes DEF VisitSound
  <2>3. Spans(h[i], log[a].timestamp) BY <2>1, <2>2 DEF Spans
  <2> QED BY <1>2, <1>4, <2>3 DEF VisitSound
<1>5. ASSUME NEW n \in 1..Len(log), PlacedAt(log, n, w, r)
      PROVE  \E i \in 1..Len(h) : h[i].room = r
  BY <1>2, <1>5 DEF Covered
<1> QED BY <1>3, <1>4, <1>5

\* The visits of w to r that meet a window, and what narrowing to the first does.
LEMMA NarrowedIs ==
  ASSUME IInv, NEW w \in Person, people[w] # Unknown, NEW r, NEW win \in Window,
         Meeting(w, r, win) # {}
  PROVE  \E iv \in RoomInterval :
           /\ VisitSound(log, w, iv) /\ iv.room = r
           /\ iv.enter < win.leave /\ LeaveTime(iv) > win.enter
           /\ Narrowed(win, w, r) =
                [enter |-> IF iv.enter > win.enter THEN iv.enter ELSE win.enter,
                 leave |-> IF LeaveTime(iv) < win.leave THEN LeaveTime(iv) ELSE win.leave]
           /\ Narrowed(win, w, r) \in Window
<1>1. PICK h : h = people[w].history OBVIOUS
<1>2. /\ h \in Seq(RoomInterval) /\ Len(h) \in Nat
      /\ \A i \in 1..Len(h) : h[i] \in RoomInterval /\ VisitSound(log, w, h[i])
  BY <1>1, VisitFacts
<1> DEFINE M == Meeting(w, r, win)
           first == CHOOSE j \in M : \A k \in M : j <= k
           iv == h[first]
<1>3. M \subseteq 1..Len(h)
      /\ \A j \in M : /\ h[j].room = r /\ h[j].enter < win.leave
                      /\ LeaveTime(h[j]) > win.enter
  BY <1>1 DEF Meeting
<1>4. \E j \in M : \A k \in M : j <= k
  <2> HIDE DEF M
  <2> DEFINE U == {Len(h) + 1 - j : j \in M}
  <2>1. U \subseteq 1..Len(h) /\ U # {}
    <3>1. \A j \in 1..Len(h) : Len(h) + 1 - j \in 1..Len(h) BY <1>2
    <3>2. M # {} BY DEF M
    <3> QED BY <1>3, <3>1, <3>2
  <2>2. PICK u \in U : \A x \in U : x <= u
    <3> HIDE DEF U
    <3> QED BY <1>2, <2>1, Latest
  <2>3. PICK j \in M : u = Len(h) + 1 - j OBVIOUS
  <2>4. ASSUME NEW k \in M PROVE j <= k
    <3>1. Len(h) + 1 - k <= u BY <2>2
    <3>2. j \in Nat /\ k \in Nat BY <1>3
    <3> QED BY <1>2, <2>3, <3>1, <3>2
  <2> QED BY <2>4
<1>5. first \in M
  <2> HIDE DEF M
  <2> QED BY <1>4
<1>6. Narrowed(win, w, r) =
        [enter |-> IF iv.enter > win.enter THEN iv.enter ELSE win.enter,
         leave |-> IF LeaveTime(iv) < win.leave THEN LeaveTime(iv) ELSE win.leave]
  BY <1>1 DEF Narrowed
<1> HIDE DEF first, M
<1>7. /\ iv \in RoomInterval /\ VisitSound(log, w, iv) /\ iv.room = r
      /\ iv.enter < win.leave /\ LeaveTime(iv) > win.enter
  BY <1>2, <1>3, <1>5
<1>8. win.enter \in 1..MaxTs /\ win.leave \in 1..INT_MAX BY DEF Window
<1>9. iv.enter \in 1..MaxTs /\ LeaveTime(iv) \in 1..INT_MAX BY <1>7, VisitTimes
<1> HIDE DEF iv
<1>10. Narrowed(win, w, r) \in Window BY <1>6, <1>8, <1>9 DEF Window
<1> QED BY <1>6, <1>7, <1>10

\* The window of check_simultaneous for the i-th visit of the first person.
IsWindow(f, r, ws, h, i) ==
  f = [k \in 1..Len(ws) |->
         IF k = 1 THEN [enter |-> h[i].enter, leave |-> LeaveTime(h[i])]
         ELSE IF f[k-1] = Shut THEN Shut
         ELSE Narrowed(f[k-1], ws[k], r)]

\* The i-th visit of the first person is one to r that leaves a window.
Opened(r, ws, h, i) ==
  h[i].room = r /\ (CHOOSE f : IsWindow(f, r, ws, h, i))[Len(ws)] # Shut

LEMMA SimultaneousDef ==
  ASSUME NEW r, NEW ws, NEW h, h = people[ws[1]].history
  PROVE  check_simultaneous(r, ws) <=> \E i \in 1..Len(h) : Opened(r, ws, h, i)
BY DEF check_simultaneous, IsWindow, Opened

Narrowing(win, r, ws, h, i) ==
  /\ win[1] = [enter |-> h[i].enter, leave |-> LeaveTime(h[i])]
  /\ \A k \in 1..Len(ws) : win[k] \in Window \cup {Shut}
  /\ \A k \in 2..Len(ws) :
       win[k] = IF win[k-1] = Shut THEN Shut ELSE Narrowed(win[k-1], ws[k], r)

\* It exists, and is narrowed person by person.
LEMMA WindowStepwise ==
  ASSUME IInv, NEW r \in Room, NEW ws \in Seq(Person), Len(ws) > 0,
         \A p \in 1..Len(ws) : people[ws[p]] # Unknown,
         NEW h, h = people[ws[1]].history, NEW i \in 1..Len(h),
         NEW win, win = CHOOSE f : IsWindow(f, r, ws, h, i)
  PROVE  Narrowing(win, r, ws, h, i)
<1> DEFINE V == Window \cup {Shut}
           v0 == [enter |-> h[i].enter, leave |-> LeaveTime(h[i])]
           n == Len(ws)
           F == [k \in Nat |-> [v \in V |->
                   IF k \in 1..Len(ws) /\ v # Shut THEN Narrowed(v, ws[k], r) ELSE Shut]]
<1>1. n \in Nat /\ 1 \in 1..n /\ 1 <= n /\ \A p \in 1..n : ws[p] \in Person OBVIOUS
<1>2. h[i] \in RoomInterval BY <1>1, VisitFacts
<1>3. v0 \in Window BY <1>2, VisitTimes DEF Window
<1>4. Steps(F, V)
  <2>1. ASSUME NEW k \in Nat, NEW v \in V
        PROVE  (IF k \in 1..Len(ws) /\ v # Shut THEN Narrowed(v, ws[k], r) ELSE Shut) \in V
    <3>1. CASE k \in 1..Len(ws) /\ v # Shut
      <4>1. v \in Window /\ ws[k] \in Person /\ people[ws[k]] # Unknown BY <1>1, <3>1
      <4>2. CASE Meeting(ws[k], r, v) = {} BY <3>1, <4>2 DEF Narrowed
      <4>3. CASE Meeting(ws[k], r, v) # {}
        <5>1. Narrowed(v, ws[k], r) \in Window BY <4>1, <4>3, NarrowedIs
        <5> QED BY <3>1, <5>1
      <4> QED BY <4>2, <4>3
    <3>2. CASE ~ (k \in 1..Len(ws) /\ v # Shut) BY <3>2
    <3> QED BY <3>1, <3>2
  <2> HIDE DEF V
  <2> QED BY <2>1 DEF Steps
<1>5. PICK f : Stepwise(f, F, V, v0, 1, n)
  <2>1. v0 \in V /\ 1 \in Nat BY <1>3
  <2> HIDE DEF F, V, v0, n
  <2> QED BY <1>1, <1>4, <2>1, StepwiseExists
<1>6. \A k \in Nat : \A v \in V :
        F[k][v] = IF k \in 1..Len(ws) /\ v # Shut THEN Narrowed(v, ws[k], r) ELSE Shut
  OBVIOUS
<1> HIDE DEF F, V
<1>7. f \in [1..n -> V] /\ f[1] = v0 /\ \A k \in (1+1)..n : f[k] = F[k][f[k-1]]
  BY <1>5 DEF Stepwise
<1>8. \A k \in 2..n : f[k] = IF f[k-1] = Shut THEN Shut ELSE Narrowed(f[k-1], ws[k], r)
  <2>1. ASSUME NEW k \in 2..n
        PROVE  f[k] = IF f[k-1] = Shut THEN Shut ELSE Narrowed(f[k-1], ws[k], r)
    <3>1. k \in Nat /\ k-1 \in 1..n /\ k \in (1+1)..n /\ k \in 1..Len(ws) BY <1>1
    <3>2. f[k-1] \in V /\ f[k] = F[k][f[k-1]] BY <1>7, <3>1
    <3>3. F[k][f[k-1]] = IF k \in 1..Len(ws) /\ f[k-1] # Shut
                           THEN Narrowed(f[k-1], ws[k], r) ELSE Shut
      BY <1>6, <3>1, <3>2
    <3> QED BY <3>1, <3>2, <3>3
  <2> QED BY <2>1
<1>9. IsWindow(f, r, ws, h, i)
  <2> DEFINE g == [k \in 1..n |-> IF k = 1 THEN v0 ELSE IF f[k-1] = Shut THEN Shut
                                   ELSE Narrowed(f[k-1], ws[k], r)]
  <2>1. ASSUME NEW k \in 1..n PROVE f[k] = g[k]
    <3>1. k = 1 \/ k \in 2..n BY <1>1
    <3>2. CASE k = 1 BY <1>7, <3>2
    <3>3. CASE k \in 2..n
      <4>1. k # 1 BY <1>1, <3>3
      <4> QED BY <1>8, <3>3, <4>1
    <3> QED BY <3>1, <3>2, <3>3
  <2>2. DOMAIN f = 1..n /\ f = [k \in DOMAIN f |-> f[k]] BY <1>7
  <2> HIDE DEF n
  <2>3. f = g BY <2>1, <2>2
  <2> QED BY <2>3 DEF IsWindow, n
<1>10. IsWindow(win, r, ws, h, i) BY <1>9
<1>11. /\ win[1] = v0
       /\ \A k \in 2..n : win[k] = IF win[k-1] = Shut THEN Shut ELSE Narrowed(win[k-1], ws[k], r)
  <2> HIDE DEF v0
  <2>1. win = [k \in 1..n |-> IF k = 1 THEN v0 ELSE IF win[k-1] = Shut THEN Shut
                                   ELSE Narrowed(win[k-1], ws[k], r)]
    BY <1>10 DEF IsWindow, v0
  <2>2. \A k \in 2..n : k \in 1..n /\ k # 1 BY <1>1
  <2> HIDE DEF n
  <2>3. win[1] = v0 BY <1>1, <2>1
  <2>4. ASSUME NEW k \in 2..n
        PROVE  win[k] = IF win[k-1] = Shut THEN Shut ELSE Narrowed(win[k-1], ws[k], r)
    BY <2>1, <2>2
  <2> QED BY <2>3, <2>4
<1>12. \A k \in 1..n : win[k] = f[k]
  <2> DEFINE S == {m \in Nat : m + 1 \in 1..n => win[m+1] = f[m+1]}
  <2>1. 0 \in S BY <1>7, <1>11
  <2>2. ASSUME NEW m \in Nat, m \in S PROVE m + 1 \in S
    <3>1. SUFFICES ASSUME m + 2 \in 1..n PROVE win[m+2] = f[m+2]
      <4>1. (m + 1) + 1 = m + 2 OBVIOUS
      <4> QED BY <4>1
    <3>2. m + 2 \in 2..n /\ m + 1 \in 1..n /\ (m + 2) - 1 = m + 1 BY <1>1, <3>1
    <3>3. win[m+1] = f[m+1] BY <2>2, <3>2
    <3> HIDE DEF n
    <3>4. win[m+2] = IF win[m+1] = Shut THEN Shut ELSE Narrowed(win[m+1], ws[m+2], r)
      BY <1>11, <3>2
    <3>5. f[m+2] = IF f[m+1] = Shut THEN Shut ELSE Narrowed(f[m+1], ws[m+2], r)
      BY <1>8, <3>2
    <3> QED BY <3>3, <3>4, <3>5
  <2>3. Nat \subseteq S
    <3> HIDE DEF S
    <3> QED BY <2>1, <2>2, NatSetInduction
  <2>4. ASSUME NEW k \in 1..n PROVE win[k] = f[k]
    <3>1. k - 1 \in Nat /\ (k - 1) + 1 = k BY <1>1
    <3>2. k - 1 \in S BY <2>3, <3>1
    <3> QED BY <3>1, <3>2
  <2> QED BY <2>4
<1>13. \A k \in 1..n : win[k] \in V BY <1>7, <1>12
<1> QED BY <1>11, <1>13 DEF V, Narrowing

\* Everything the window spans, those looked at so far shared.
WindowSound(win, r, ws, k) ==
  win # Shut =>
    /\ win.enter < win.leave
    /\ \E a \in 1..Len(log) : log[a].timestamp = win.enter
    /\ \A n \in 1..Len(log) :
         win.enter <= log[n].timestamp /\ log[n].timestamp < win.leave =>
           \A p \in 1..k : PlacedAt(log, n, ws[p], r)

LEMMA NarrowedSound ==
  ASSUME IInv, NEW r \in Room, NEW ws \in Seq(Person),
         NEW k \in Nat, k + 1 \in 1..Len(ws), people[ws[k+1]] # Unknown,
         NEW win \in Window, WindowSound(win, r, ws, k)
  PROVE  WindowSound(Narrowed(win, ws[k+1], r), r, ws, k + 1)
<1> DEFINE w == ws[k+1]
<1>1. w \in Person /\ win # Shut BY CQueryNullsAssumption
<1>2. CASE Meeting(w, r, win) = {} BY <1>2 DEF Narrowed, WindowSound
<1>3. CASE Meeting(w, r, win) # {}
  <2>1. PICK iv \in RoomInterval :
           /\ VisitSound(log, w, iv) /\ iv.room = r
           /\ iv.enter < win.leave /\ LeaveTime(iv) > win.enter
           /\ Narrowed(win, w, r) =
                [enter |-> IF iv.enter > win.enter THEN iv.enter ELSE win.enter,
                 leave |-> IF LeaveTime(iv) < win.leave THEN LeaveTime(iv) ELSE win.leave]
    BY <1>1, <1>3, NarrowedIs
  <2> DEFINE new == Narrowed(win, w, r)
  <2>2. /\ new.enter = IF iv.enter > win.enter THEN iv.enter ELSE win.enter
        /\ new.leave = IF LeaveTime(iv) < win.leave THEN LeaveTime(iv) ELSE win.leave
    BY <2>1
  <2> HIDE DEF new
  <2>3. /\ iv.enter \in Nat /\ LeaveTime(iv) \in Nat /\ win.enter \in Nat /\ win.leave \in Nat
    <3>1. win.enter \in 1..MaxTs /\ win.leave \in 1..INT_MAX BY DEF Window
    <3> QED BY <3>1, VisitTimes
  <2>4. /\ win.enter < win.leave
        /\ \E a \in 1..Len(log) : log[a].timestamp = win.enter
        /\ \A n \in 1..Len(log) :
             win.enter <= log[n].timestamp /\ log[n].timestamp < win.leave =>
               \A p \in 1..k : PlacedAt(log, n, ws[p], r)
    BY <1>1 DEF WindowSound
  <2>5. /\ iv.enter < LeaveTime(iv)
        /\ \E a \in 1..Len(log) : log[a].timestamp = iv.enter
        /\ \A n \in 1..Len(log) : Spans(iv, log[n].timestamp) => PlacedAt(log, n, w, r)
    BY <2>1 DEF VisitSound
  <2>6. new.enter < new.leave BY <2>1, <2>2, <2>3, <2>4, <2>5
  <2>7. \E a \in 1..Len(log) : log[a].timestamp = new.enter BY <2>2, <2>4, <2>5
  <2>8. ASSUME NEW n \in 1..Len(log),
               new.enter <= log[n].timestamp, log[n].timestamp < new.leave,
               NEW p \in 1..(k+1)
        PROVE  PlacedAt(log, n, ws[p], r)
    <3>1. log[n].timestamp \in Nat
      <4>1. log \in Seq(Entry) /\ Rising(log) BY DEF IInv, TypeOK, Reached
      <4> QED BY <4>1, RisingOrders
    <3>2. win.enter <= log[n].timestamp /\ log[n].timestamp < win.leave
      BY <2>2, <2>3, <2>8, <3>1
    <3>3. Spans(iv, log[n].timestamp) BY <2>2, <2>3, <2>8, <3>1 DEF Spans
    <3>4. CASE p \in 1..k BY <2>4, <3>2, <3>4
    <3>5. CASE p = k + 1 BY <2>5, <3>3, <3>5
    <3>6. p \in 1..k \/ p = k + 1 OBVIOUS
    <3> QED BY <3>4, <3>5, <3>6
  <2>9. WindowSound(new, r, ws, k + 1) BY <2>6, <2>7, <2>8 DEF WindowSound
  <2> QED BY <2>9 DEF new
<1> QED BY <1>2, <1>3

\* check_simultaneous finds a room only if they were all there at one moment.
LEMMA SimultaneousSound ==
  ASSUME IInv, NEW r \in Room, NEW ws \in Seq(Person), Len(ws) > 0,
         \A p \in 1..Len(ws) : ws[p] \in Person /\ people[ws[p]] # Unknown,
         check_simultaneous(r, ws)
  PROVE  \E n \in 1..Len(log) : \A p \in 1..Len(ws) : PlacedAt(log, n, ws[p], r)
<1>1. PICK h : h = people[ws[1]].history OBVIOUS
<1>2. PICK i \in 1..Len(h) :
        h[i].room = r /\ (CHOOSE f : IsWindow(f, r, ws, h, i))[Len(ws)] # Shut
  <2>1. PICK i \in 1..Len(h) : Opened(r, ws, h, i) BY <1>1, SimultaneousDef
  <2> QED BY <2>1 DEF Opened
<1>3. PICK win : win = CHOOSE f : IsWindow(f, r, ws, h, i) OBVIOUS
<1>4. /\ win[1] = [enter |-> h[i].enter, leave |-> LeaveTime(h[i])]
      /\ \A k \in 1..Len(ws) : win[k] \in Window \cup {Shut}
      /\ \A k \in 2..Len(ws) :
           win[k] = IF win[k-1] = Shut THEN Shut ELSE Narrowed(win[k-1], ws[k], r)
  <2>1. Narrowing(win, r, ws, h, i) BY <1>1, <1>3, WindowStepwise
  <2> QED BY <2>1 DEF Narrowing
<1>5. Len(ws) \in Nat /\ 1 \in 1..Len(ws) OBVIOUS
<1>6. h[i] \in RoomInterval /\ VisitSound(log, ws[1], h[i]) BY <1>1, <1>5, VisitFacts
<1>7. WindowSound(win[1], r, ws, 1)
  <2>1. win[1].enter = h[i].enter /\ win[1].leave = LeaveTime(h[i]) BY <1>4
  <2> QED BY <1>2, <1>6, <2>1 DEF WindowSound, VisitSound, Spans
<1> DEFINE S == {m \in Nat : m + 1 \in 1..Len(ws) => WindowSound(win[m+1], r, ws, m + 1)}
<1>8. 0 \in S BY <1>7
<1>9. ASSUME NEW m \in Nat, m \in S PROVE m + 1 \in S
  <2>1. SUFFICES ASSUME m + 2 \in 1..Len(ws) PROVE WindowSound(win[m+2], r, ws, m + 2)
    <3>1. (m + 1) + 1 = m + 2 OBVIOUS
    <3> QED BY <3>1
  <2>2. /\ m + 1 \in 1..Len(ws) /\ m + 2 \in 2..Len(ws) /\ (m + 2) - 1 = m + 1
        /\ (m + 1) + 1 = m + 2 /\ m + 1 \in Nat
    BY <1>5, <2>1
  <2>3. WindowSound(win[m+1], r, ws, m + 1) BY <1>9, <2>2
  <2>4. win[m+2] = IF win[m+1] = Shut THEN Shut ELSE Narrowed(win[m+1], ws[m+2], r)
    BY <1>4, <2>2
  <2>5. CASE win[m+1] = Shut BY <2>4, <2>5 DEF WindowSound
  <2>6. CASE win[m+1] # Shut
    <3>1. win[m+1] \in Window BY <1>4, <2>2, <2>6
    <3>2. people[ws[(m+1)+1]] # Unknown BY <2>1, <2>2
    <3>3. WindowSound(Narrowed(win[m+1], ws[(m+1)+1], r), r, ws, (m + 1) + 1)
      BY <2>1, <2>2, <2>3, <3>1, <3>2, NarrowedSound
    <3> QED BY <2>2, <2>4, <2>6, <3>3
  <2> QED BY <2>5, <2>6
<1>10. Nat \subseteq S
  <2> HIDE DEF S
  <2> QED BY <1>8, <1>9, NatSetInduction
<1>11. WindowSound(win[Len(ws)], r, ws, Len(ws))
  <2>1. Len(ws) - 1 \in Nat /\ (Len(ws) - 1) + 1 = Len(ws) /\ Len(ws) \in 1..Len(ws) BY <1>5
  <2>2. Len(ws) - 1 \in S BY <1>10, <2>1
  <2> QED BY <2>1, <2>2
<1>12. win[Len(ws)] # Shut /\ win[Len(ws)] \in Window BY <1>2, <1>3, <1>4, <1>5
<1>13. PICK last : last = win[Len(ws)] OBVIOUS
<1>14. PICK a \in 1..Len(log) : log[a].timestamp = last.enter
  BY <1>11, <1>12, <1>13 DEF WindowSound
<1>15. last.enter <= log[a].timestamp /\ log[a].timestamp < last.leave
  <2>1. last.enter \in 1..MaxTs BY <1>12, <1>13 DEF Window
  <2>2. last.enter < last.leave BY <1>11, <1>12, <1>13 DEF WindowSound
  <2> QED BY <1>14, <2>1, <2>2
<1> QED BY <1>11, <1>12, <1>13, <1>15 DEF WindowSound

(* print_intersection never reports a room in which those asked about were not  *)
(* all together, in a query of any length.                                      *)
THEOREM CIntersectionSound == Spec => []IntersectionSound
<1>1. ASSUME IInv PROVE IntersectionSound
  <2>1. SUFFICES ASSUME NEW asked \in Asked, NEW r \in print_intersection(asked)
                 PROVE  r \in Shared(asked)
    BY DEF IntersectionSound
  <2>2. PICK ws : ws = Those(asked, Known) OBVIOUS
  <2>3. /\ ws \in Seq(Person)
        /\ \A w : (\E p \in 1..Len(ws) : ws[p] = w) <=> w \in Present(asked)
        /\ \A p \in 1..Len(ws) : ws[p] \in Person /\ people[ws[p]] # Unknown
    BY <1>1, <2>2, AskedKnown
  <2>4. print_intersection(asked) =
          CASE ws = << >>  -> {}
            [] Len(ws) = 1 -> RoomsOf(ws[1])
            [] OTHER       -> {q \in UNION {RoomsOf(ws[p]) : p \in 1..Len(ws)} :
                                 check_simultaneous(q, ws)}
    BY <2>2 DEF print_intersection
  <2>5. Len(ws) \in Nat /\ (ws # << >> => Len(ws) > 0 /\ 1 \in 1..Len(ws)) BY <2>3
  <2>6. \A w \in Person : people[w] # Unknown => RoomsOf(w) \subseteq Room
    <3>1. ASSUME NEW w \in Person, people[w] # Unknown, NEW q \in RoomsOf(w) PROVE q \in Room
      <4>1. PICK h : h = people[w].history OBVIOUS
      <4>2. \A i \in 1..Len(h) : h[i] \in RoomInterval BY <1>1, <3>1, <4>1, VisitFacts
      <4>3. PICK i \in 1..Len(h) : q = h[i].room BY <4>1 DEF RoomsOf
      <4> QED BY <4>2, <4>3, VisitTimes
    <3> QED BY <3>1
  <2>7. CASE ws = << >> BY <2>1, <2>4, <2>7
  <2>8. CASE Len(ws) = 1
    <3>1. ws # << >> /\ 1 \in 1..Len(ws)
      <4>1. 1 \in 1..Len(ws) BY <2>8
      <4>2. ASSUME ws = << >> PROVE FALSE
        <5>1. Len(ws) = 0 BY <4>2
        <5> QED BY <2>8, <5>1
      <4> QED BY <4>1, <4>2
    <3>2. r \in RoomsOf(ws[1]) BY <2>1, <2>4, <2>8, <3>1
    <3>3. r \in Room /\ ws[1] \in Person /\ people[ws[1]] # Unknown BY <2>3, <2>6, <3>1, <3>2
    <3>4. PICK n \in 1..Len(log) : PlacedAt(log, n, ws[1], r)
      BY <1>1, <3>2, <3>3, RoomsOfPlaced
    <3>5. \A w : w \in Present(asked) <=> w = ws[1] BY <2>3, <2>8
    <3> QED BY <3>3, <3>4, <3>5 DEF Shared, Together
  <2>9. CASE ws # << >> /\ Len(ws) # 1
    <3>1. /\ r \in UNION {RoomsOf(ws[p]) : p \in 1..Len(ws)}
          /\ check_simultaneous(r, ws)
      BY <2>1, <2>4, <2>9
    <3>2. PICK p \in 1..Len(ws) : r \in RoomsOf(ws[p]) BY <3>1
    <3>3. r \in Room BY <2>3, <2>6, <3>2
    <3>4. PICK n \in 1..Len(log) : \A q \in 1..Len(ws) : PlacedAt(log, n, ws[q], r)
      BY <1>1, <2>3, <2>5, <2>9, <3>1, <3>3, SimultaneousSound
    <3>5. \A w \in Present(asked) : PlacedAt(log, n, w, r) BY <2>3, <3>4
    <3>6. ws[1] \in Present(asked) BY <2>3, <2>5, <2>9
    <3> QED BY <3>3, <3>4, <3>5, <3>6 DEF Shared, Together
  <2> QED BY <2>7, <2>8, <2>9
<1> QED BY <1>1, Invariant, PTL

\* Two visits with a common moment meet.
LEMMA PairFound ==
  ASSUME IInv, NEW r \in Room, NEW ws \in Seq(Person), Len(ws) = 2,
         \A p \in 1..Len(ws) : ws[p] \in Person /\ people[ws[p]] # Unknown,
         NEW n \in 1..Len(log), \A p \in 1..Len(ws) : PlacedAt(log, n, ws[p], r)
  PROVE  check_simultaneous(r, ws)
<1> DEFINE u == ws[1]
           v == ws[2]
           t == log[n].timestamp
<1>1. /\ u \in Person /\ people[u] # Unknown /\ v \in Person /\ people[v] # Unknown
      /\ PlacedAt(log, n, u, r) /\ PlacedAt(log, n, v, r)
      /\ 1 \in 1..Len(ws) /\ 2 \in 1..Len(ws) /\ 2 \in 2..Len(ws)
  OBVIOUS
<1>2. t \in Nat
  <2>1. log \in Seq(Entry) /\ Rising(log) BY <1>1 DEF IInv, TypeOK, Reached
  <2> QED BY <2>1, RisingOrders
<1>3. PICK h : h = people[u].history OBVIOUS
<1>4. PICK g : g = people[v].history OBVIOUS
<1>5. PICK i \in 1..Len(h) : h[i].room = r /\ Spans(h[i], t) /\ h[i] \in RoomInterval
  <2>1. Covered(log, u, h) /\ \A x \in 1..Len(h) : h[x] \in RoomInterval
    BY <1>1, <1>3, VisitFacts
  <2> QED BY <1>1, <2>1 DEF Covered
<1>6. PICK j \in 1..Len(g) : g[j].room = r /\ Spans(g[j], t) /\ g[j] \in RoomInterval
  <2>1. Covered(log, v, g) /\ \A x \in 1..Len(g) : g[x] \in RoomInterval
    BY <1>1, <1>4, VisitFacts
  <2> QED BY <1>1, <2>1 DEF Covered
<1>7. PICK win : win = CHOOSE f : IsWindow(f, r, ws, h, i) OBVIOUS
<1>8. /\ win[1] = [enter |-> h[i].enter, leave |-> LeaveTime(h[i])]
      /\ win[1] \in Window \cup {Shut}
      /\ win[2] = IF win[1] = Shut THEN Shut ELSE Narrowed(win[1], v, r)
  <2>1. /\ win[1] = [enter |-> h[i].enter, leave |-> LeaveTime(h[i])]
        /\ \A k \in 1..Len(ws) : win[k] \in Window \cup {Shut}
        /\ \A k \in 2..Len(ws) :
             win[k] = IF win[k-1] = Shut THEN Shut ELSE Narrowed(win[k-1], ws[k], r)
    <3>1. Len(ws) > 0 /\ \A p \in 1..Len(ws) : people[ws[p]] # Unknown OBVIOUS
    <3>2. Narrowing(win, r, ws, h, i) BY <1>3, <1>7, <3>1, WindowStepwise
    <3> QED BY <3>2 DEF Narrowing
  <2>2. 2 - 1 = 1 OBVIOUS
  <2> QED BY <1>1, <2>1, <2>2
<1>9. win[1] \in Window /\ win[1] # Shut
  <2>1. win[1] \in Window BY <1>5, <1>8, VisitTimes DEF Window
  <2> QED BY <2>1, CQueryNullsAssumption
<1>10. j \in Meeting(v, r, win[1])
  <2>1. win[1].enter = h[i].enter /\ win[1].leave = LeaveTime(h[i]) BY <1>8
  <2>2. h[i].enter <= t /\ t < LeaveTime(h[i]) /\ g[j].enter <= t /\ t < LeaveTime(g[j])
    BY <1>5, <1>6 DEF Spans
  <2>3. /\ h[i].enter \in Nat /\ LeaveTime(h[i]) \in Nat
        /\ g[j].enter \in Nat /\ LeaveTime(g[j]) \in Nat
    BY <1>5, <1>6, VisitTimes
  <2>4. g[j].enter < LeaveTime(h[i]) /\ LeaveTime(g[j]) > h[i].enter
    BY <1>2, <2>2, <2>3
  <2> QED BY <1>4, <1>6, <2>1, <2>4 DEF Meeting
<1>11. Narrowed(win[1], v, r) \in Window BY <1>1, <1>9, <1>10, NarrowedIs
<1>12. win[2] # Shut BY <1>8, <1>9, <1>11, CQueryNullsAssumption
<1>13. Opened(r, ws, h, i) BY <1>5, <1>7, <1>12 DEF Opened
<1> QED BY <1>3, <1>13, SimultaneousDef

(* print_intersection with at most two persons the log names reports every room *)
(* they shared.                                                                 *)
THEOREM CPairsComplete == Spec => []PairsComplete
<1>1. ASSUME IInv PROVE PairsComplete
  <2>1. SUFFICES ASSUME NEW asked \in Asked, Len(Those(asked, Known)) <= 2,
                        NEW r \in Shared(asked)
                 PROVE  r \in print_intersection(asked)
    BY DEF PairsComplete
  <2>2. PICK ws : ws = Those(asked, Known) OBVIOUS
  <2>3. /\ ws \in Seq(Person)
        /\ \A w : (\E p \in 1..Len(ws) : ws[p] = w) <=> w \in Present(asked)
        /\ \A p \in 1..Len(ws) : ws[p] \in Person /\ people[ws[p]] # Unknown
    BY <1>1, <2>2, AskedKnown
  <2>4. print_intersection(asked) =
          CASE ws = << >>  -> {}
            [] Len(ws) = 1 -> RoomsOf(ws[1])
            [] OTHER       -> {q \in UNION {RoomsOf(ws[p]) : p \in 1..Len(ws)} :
                                 check_simultaneous(q, ws)}
    BY <2>2 DEF print_intersection
  <2>5. r \in Room /\ Present(asked) # {} BY DEF Shared
  <2>6. PICK n \in 1..Len(log) : \A w \in Present(asked) : PlacedAt(log, n, w, r)
    BY DEF Shared, Together
  <2>7. \A p \in 1..Len(ws) : PlacedAt(log, n, ws[p], r) BY <2>3, <2>6
  <2>8. Len(ws) = 1 \/ Len(ws) = 2
    <3>1. PICK p \in 1..Len(ws) : TRUE BY <2>3, <2>5
    <3>2. Len(ws) \in Nat /\ Len(ws) <= 2 BY <2>1, <2>2, <2>3
    <3>3. Len(ws) # 0 BY <3>1
    <3>4. PICK k \in Nat : k = Len(ws) BY <3>2
    <3>5. k = 1 \/ k = 2 BY ONLY k \in Nat, <3>2, <3>3, <3>4
    <3> QED BY <3>4, <3>5
  <2>9. ws # << >> /\ 1 \in 1..Len(ws)
    <3>1. Len(<< >>) = 0 OBVIOUS
    <3> QED BY <2>8, <3>1
  <2>10. r \in RoomsOf(ws[1]) BY <1>1, <2>3, <2>5, <2>7, <2>9, RoomsOfPlaced
  <2>11. CASE Len(ws) = 1 BY <2>4, <2>9, <2>10, <2>11
  <2>12. CASE Len(ws) = 2
    <3>1. check_simultaneous(r, ws)
      BY <1>1, <2>3, <2>5, <2>7, <2>12, PairFound
    <3> QED BY <2>4, <2>9, <2>10, <2>12, <3>1
  <2> QED BY <2>8, <2>11, <2>12
<1> QED BY <1>1, Invariant, PTL
===============================================================================
