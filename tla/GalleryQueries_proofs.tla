------------------------- MODULE GalleryQueries_proofs -------------------------
(* Proofs about GalleryQueries and QueryAgreement, for any persons, rooms and   *)
(* timestamps. The invariant ties each accumulator to the log: a visit is a     *)
(* stretch of the log over which its person is in its room, and every moment in *)
(* a room belongs to a visit. From there the pairwise test of overlaps() meets  *)
(* at the latest of the times of entry. What Java recomputes from the log has   *)
(* no accumulators: a list of intervals is the set of the moments it covers.    *)
EXTENDS QueryAgreement, Gallery_proofs

------------------------------------------------------------------------------
(* The inductive invariant *)

\* Everybody in r from entry i to entry j.
During(w, r, i, j) == \A n \in i..j : PlacedAt(log, n, w, r)

\* `cur` has those who are in a room.
Current(w) == /\ cur[w] # Nowhere => state.loc[w] = cur[w].room
              /\ state.loc[w] \in Room => cur[w] # Nowhere

\* room_history's list names the rooms there were.
Listed(w) ==
  \A r \in Room : (\E i \in 1..Len(rooms[w]) : rooms[w][i] = r) <=>
                  (\E n \in 1..Len(log) : PlacedAt(log, n, w, r))

\* A visit is a stretch of the log.
ClosedSound(w) ==
  \A iv \in intervals[w] : \E i \in 1..Len(log), j \in 1..Len(log) :
    /\ i < j /\ log[i].timestamp = iv.enter /\ log[j].timestamp = iv.leave
    /\ During(w, iv.room, i, j-1)

OpenSound(w) ==
  cur[w] # Nowhere => \E i \in 1..Len(log) :
    log[i].timestamp = cur[w].since /\ During(w, cur[w].room, i, Len(log))

\* Every moment in a room belongs to a visit.
Covered(w) ==
  \A n \in 1..Len(log), r \in Room :
    PlacedAt(log, n, w, r) =>
      \/ \E iv \in intervals[w] :
           iv.room = r /\ iv.enter <= log[n].timestamp /\ log[n].timestamp < iv.leave
      \/ cur[w] # Nowhere /\ cur[w].room = r /\ cur[w].since <= log[n].timestamp

IInv == /\ TypeOK /\ Reached(log, state)
        /\ \A w \in Person : /\ Current(w) /\ Listed(w)
                             /\ ClosedSound(w) /\ OpenSound(w) /\ Covered(w)

------------------------------------------------------------------------------
(* One more entry *)

\* What all three kinds of step have in common.
LEMMA TakeExtends ==
  ASSUME IInv, NEW e \in Entry, Take(e)
  PROVE  /\ log' \in Seq(Entry) /\ Len(log') = Len(log) + 1 /\ log'[Len(log) + 1] = e
         /\ \A i \in 1..Len(log) : log'[i] = log[i]
         /\ state' \in GalleryState /\ Reached(log, state)'
         /\ state.loc[e.who] = From(e) /\ state'.loc[e.who] = To(e)
         /\ \A w \in Person \ {e.who} : state'.loc[w] = state.loc[w]
<1>1. log \in Seq(Entry) /\ state \in GalleryState /\ Reached(log, state) BY DEF IInv, TypeOK
<1>2. log' = Append(log, e) /\ state' = Applied(state, e) /\ CanApply(state, e) BY DEF Take
<1> QED BY <1>1, <1>2, ReachedNext

\* Who is in a room after the old entries, and after the new one.
LEMMA InRoomAfter ==
  ASSUME IInv, NEW e \in Entry, Take(e), NEW w \in Person, NEW r
  PROVE  /\ \A n \in 1..Len(log) : PlacedAt(log', n, w, r) <=> PlacedAt(log, n, w, r)
         /\ PlacedAt(log', Len(log) + 1, w, r) <=> state'.loc[w] = r
         /\ \A n \in 1..Len(log) : n = Len(log) => (PlacedAt(log, n, w, r) <=> state.loc[w] = r)
<1>1. /\ \A i \in 1..Len(log) : log'[i] = log[i]
      /\ Len(log') = Len(log) + 1 /\ Computes(state', log', Len(log'))
  BY TakeExtends DEF Reached
<1>2. Len(log) \in Nat /\ Computes(state, log, Len(log)) BY DEF IInv, TypeOK, Reached
<1>3. PlacedAt(log', Len(log) + 1, w, r) <=> state'.loc[w] = r
  <2>1. Len(log) + 1 \in Nat /\ Computes(state', log', Len(log) + 1) BY <1>1, <1>2
  <2> QED BY <2>1, PlacedNow
<1>4. \A n \in 1..Len(log) : PlacedAt(log', n, w, r) <=> PlacedAt(log, n, w, r)
  BY <1>1, <1>2, PlacedBefore
<1>5. PlacedAt(log, Len(log), w, r) <=> state.loc[w] = r BY <1>2, PlacedNow
<1> QED BY <1>3, <1>4, <1>5

\* Entries that concern somebody else, or the gallery's own door.
LEMMA Bystanders ==
  ASSUME IInv, NEW e \in Entry, Take(e), NEW w \in Person,
         w # e.who \/ AtDoor(e)
  PROVE  /\ cur'[w] = cur[w] /\ intervals'[w] = intervals[w] /\ rooms'[w] = rooms[w]
         /\ \A r \in Room : state'.loc[w] = r <=> state.loc[w] = r
<1>1. TypeOK BY DEF IInv
<1>2. CASE w # e.who
  <2>1. state'.loc[w] = state.loc[w] BY <1>2, TakeExtends
  <2>2. cur'[w] = cur[w] /\ intervals'[w] = intervals[w] /\ rooms'[w] = rooms[w]
    BY <1>1, <1>2 DEF Take, AtDoor, EnterRoom, LeaveRoom, TypeOK
  <2> QED BY <2>1, <2>2
<1>3. CASE w = e.who /\ AtDoor(e)
  <2>1. UNCHANGED <<cur, intervals, rooms>> BY <1>3 DEF AtDoor
  <2>2. state.loc[w] = From(e) /\ state'.loc[w] = To(e) BY <1>3, TakeExtends
  <2>3. From(e) \notin Room /\ To(e) \notin Room
    BY <1>3, PlaceAssumption DEF AtDoor, From, To, Outside
  <2> QED BY <2>1, <2>2, <2>3
<1> QED BY <1>2, <1>3

\* A step that closes no visit leaves the visits sound.
LEMMA KeepsClosed ==
  ASSUME IInv, NEW e \in Entry, Take(e), NEW w \in Person, NEW iv \in intervals[w]
  PROVE  \E i \in 1..Len(log'), j \in 1..Len(log') :
           /\ i < j /\ log'[i].timestamp = iv.enter /\ log'[j].timestamp = iv.leave
           /\ \A n \in i..(j-1) : PlacedAt(log', n, w, iv.room)
<1> DEFINE N == Len(log)
<1>1. N \in Nat /\ Len(log') = N + 1 /\ \A i \in 1..N : log'[i] = log[i]
  BY TakeExtends DEF IInv, TypeOK
<1>2. \A r : \A n \in 1..N : PlacedAt(log', n, w, r) <=> PlacedAt(log, n, w, r)
  BY InRoomAfter
<1>3. PICK i \in 1..N, j \in 1..N :
        /\ i < j /\ log[i].timestamp = iv.enter /\ log[j].timestamp = iv.leave
        /\ \A n \in i..(j-1) : PlacedAt(log, n, w, iv.room)
  BY DEF IInv, ClosedSound, During
<1>4. \A n \in i..(j-1) : n \in 1..N BY <1>1
<1> QED BY <1>1, <1>2, <1>3, <1>4

\* Somebody else's entry changes no account of this person.
LEMMA KeepsBystanders ==
  ASSUME IInv, NEW e \in Entry, Take(e), NEW w \in Person,
         w # e.who \/ AtDoor(e)
  PROVE  Current(w)' /\ Listed(w)' /\ ClosedSound(w)' /\ OpenSound(w)' /\ Covered(w)'
<1> DEFINE N == Len(log)
<1>1. /\ cur'[w] = cur[w] /\ intervals'[w] = intervals[w] /\ rooms'[w] = rooms[w]
      /\ \A r \in Room : state'.loc[w] = r <=> state.loc[w] = r
  BY Bystanders
<1>2. TypeOK /\ Current(w) /\ Listed(w) /\ ClosedSound(w) /\ OpenSound(w) /\ Covered(w)
  BY DEF IInv
<1>3. N \in Nat /\ Len(log') = N + 1 /\ \A i \in 1..N : log'[i] = log[i]
  BY <1>2, TakeExtends DEF TypeOK
<1>4. /\ \A r : \A n \in 1..N : PlacedAt(log', n, w, r) <=> PlacedAt(log, n, w, r)
      /\ \A r : PlacedAt(log', N+1, w, r) <=> state'.loc[w] = r
      /\ \A r : N \in 1..N => (PlacedAt(log, N, w, r) <=> state.loc[w] = r)
  BY InRoomAfter
<1>5. cur[w] # Nowhere => cur[w].room \in Room BY <1>2 DEF TypeOK
<1>6. Current(w)' BY <1>1, <1>2, <1>5 DEF Current
<1>7. \A r \in Room : PlacedAt(log', N+1, w, r) => N \in 1..N /\ PlacedAt(log, N, w, r)
  <2>1. ASSUME NEW r \in Room, state.loc[w] = r PROVE N # 0
    <3>1. cur[w] # Nowhere BY <1>2, <2>1 DEF Current
    <3> QED BY <1>2, <3>1 DEF OpenSound
  <2> QED BY <1>1, <1>3, <1>4, <2>1
<1>8. Listed(w)'
  <2>1. ASSUME NEW r \in Room
        PROVE  (\E n \in 1..N : PlacedAt(log, n, w, r)) <=>
               (\E n \in 1..(N+1) : PlacedAt(log', n, w, r))
    BY <1>3, <1>4, <1>7
  <2> QED BY <1>1, <1>2, <1>3, <2>1 DEF Listed
<1>9. ClosedSound(w)'
  BY <1>1, KeepsClosed DEF ClosedSound, During
<1>10. OpenSound(w)'
  <2>1. SUFFICES ASSUME cur[w] # Nowhere
                 PROVE  \E i \in 1..(N+1) : /\ log'[i].timestamp = cur[w].since
                                            /\ \A n \in i..(N+1) : PlacedAt(log', n, w, cur[w].room)
    BY <1>1, <1>3 DEF OpenSound, During
  <2>2. PICK i \in 1..N : /\ log[i].timestamp = cur[w].since
                          /\ \A n \in i..N : PlacedAt(log, n, w, cur[w].room)
    BY <1>2, <2>1 DEF OpenSound, During
  <2>3. PlacedAt(log', N+1, w, cur[w].room) BY <1>1, <1>2, <1>4, <1>5, <2>1 DEF Current
  <2>4. ASSUME NEW n \in i..(N+1) PROVE PlacedAt(log', n, w, cur[w].room)
    <3>1. (n \in i..N /\ n \in 1..N) \/ n = N+1 BY <1>3
    <3> QED BY <1>4, <2>2, <2>3, <3>1
  <2> QED BY <1>3, <2>2, <2>4
<1>11. Covered(w)'
  <2>1. ASSUME NEW n \in 1..(N+1), NEW r \in Room, PlacedAt(log', n, w, r)
        PROVE  \/ \E iv \in intervals[w] :
                    iv.room = r /\ iv.enter <= log'[n].timestamp /\ log'[n].timestamp < iv.leave
               \/ cur[w] # Nowhere /\ cur[w].room = r /\ cur[w].since <= log'[n].timestamp
    <3>1. CASE n \in 1..N BY <1>2, <1>3, <1>4, <2>1, <3>1 DEF Covered
    <3>2. CASE n = N + 1
      <4>1. state.loc[w] = r BY <1>1, <1>4, <2>1, <3>2
      <4>2. cur[w] # Nowhere /\ cur[w].room = r BY <1>2, <4>1 DEF Current
      <4>3. PICK i \in 1..N : log[i].timestamp = cur[w].since BY <1>2, <4>2 DEF OpenSound
      <4>4. i \in 1..(n-1) /\ n \in 1..Len(log') /\ log'[i] = log[i] BY <1>3, <3>2
      <4>5. log'[i].timestamp < log'[n].timestamp BY <4>4, TakeExtends DEF Reached, Rising
      <4>6. log'[i] \in Entry /\ log'[n] \in Entry BY <1>3, <4>4, TakeExtends
      <4>7. log'[i].timestamp \in Nat /\ log'[n].timestamp \in Nat
        BY <4>6, MaxTsAssumption DEF Entry
      <4> QED BY <4>2, <4>3, <4>4, <4>5, <4>7
    <3>3. n \in 1..N \/ n = N + 1 BY <1>3
    <3> QED BY <3>1, <3>2, <3>3
  <2> QED BY <1>1, <1>3, <2>1 DEF Covered
<1> QED BY <1>6, <1>8, <1>9, <1>10, <1>11

LEMMA KeepsEnter ==
  ASSUME IInv, NEW e \in Entry, Take(e), EnterRoom(e), NEW w \in Person, w = e.who
  PROVE  Current(w)' /\ Listed(w)' /\ ClosedSound(w)' /\ OpenSound(w)' /\ Covered(w)'
<1> DEFINE N == Len(log)
<1>1. TypeOK /\ Current(w) /\ Listed(w) /\ ClosedSound(w) /\ OpenSound(w) /\ Covered(w)
  BY DEF IInv
<1>2. /\ N \in Nat /\ Len(log') = N + 1 /\ log'[N+1] = e
      /\ \A i \in 1..N : log'[i] = log[i]
  BY <1>1, TakeExtends DEF TypeOK
<1>3. /\ e.room \in Room /\ e.timestamp \in 1..MaxTs /\ e.timestamp \in Nat
      /\ From(e) = NoRoom /\ To(e) = e.room
  BY MaxTsAssumption DEF EnterRoom, Entry, From, To, Outside
<1>4. state.loc[w] = NoRoom /\ state'.loc[w] = e.room BY <1>3, TakeExtends
<1>5. cur[w] = Nowhere
  <2>1. cur[w] # Nowhere => cur[w].room \in Room BY <1>1 DEF TypeOK
  <2> QED BY <1>1, <1>4, <2>1, PlaceAssumption DEF Current
<1>6. /\ cur'[w] = [room |-> e.room, since |-> e.timestamp]
      /\ rooms'[w] = Append(rooms[w], e.room) /\ intervals'[w] = intervals[w]
  BY <1>1 DEF EnterRoom, TypeOK
<1>7. cur'[w] # Nowhere /\ cur'[w].room = e.room /\ cur'[w].since = e.timestamp
  BY <1>3, <1>6, QNullsAssumption
<1>8. /\ \A r : \A n \in 1..N : PlacedAt(log', n, w, r) <=> PlacedAt(log, n, w, r)
      /\ \A r : PlacedAt(log', N+1, w, r) <=> e.room = r
  BY <1>4, InRoomAfter
<1>9. Current(w)' BY <1>4, <1>7 DEF Current
<1>10. Listed(w)'
  <2>1. rooms[w] \in Seq(Room) BY <1>1 DEF TypeOK
  <2>2. /\ Len(rooms'[w]) = Len(rooms[w]) + 1 /\ rooms'[w][Len(rooms[w]) + 1] = e.room
        /\ \A i \in 1..Len(rooms[w]) : rooms'[w][i] = rooms[w][i]
        /\ Len(rooms[w]) \in Nat
    BY <1>3, <1>6, <2>1
  <2>3. ASSUME NEW r \in Room
        PROVE  (\E i \in 1..Len(rooms'[w]) : rooms'[w][i] = r) <=>
               (\E n \in 1..(N+1) : PlacedAt(log', n, w, r))
    <3>1. (\E i \in 1..Len(rooms'[w]) : rooms'[w][i] = r) <=>
          (r = e.room \/ \E i \in 1..Len(rooms[w]) : rooms[w][i] = r)
      <4>1. \A i \in 1..Len(rooms'[w]) : i \in 1..Len(rooms[w]) \/ i = Len(rooms[w]) + 1
        BY <2>2
      <4>2. /\ Len(rooms[w]) + 1 \in 1..Len(rooms'[w])
            /\ \A i \in 1..Len(rooms[w]) : i \in 1..Len(rooms'[w])
        BY <2>2
      <4> QED BY <2>2, <4>1, <4>2
    <3>2. (\E n \in 1..(N+1) : PlacedAt(log', n, w, r)) <=>
          (r = e.room \/ \E n \in 1..N : PlacedAt(log, n, w, r))
      BY <1>2, <1>8
    <3> QED BY <1>1, <3>1, <3>2 DEF Listed
  <2> QED BY <1>2, <2>3 DEF Listed
<1>11. ClosedSound(w)' BY <1>6, KeepsClosed DEF ClosedSound, During
<1>12. OpenSound(w)'
  <2>1. \A n \in (N+1)..(N+1) : PlacedAt(log', n, w, e.room) BY <1>2, <1>8
  <2>2. N+1 \in 1..(N+1) /\ log'[N+1].timestamp = e.timestamp BY <1>2
  <2> QED BY <1>2, <1>7, <2>1, <2>2 DEF OpenSound, During
<1>13. Covered(w)'
  <2>1. ASSUME NEW n \in 1..(N+1), NEW r \in Room, PlacedAt(log', n, w, r)
        PROVE  \/ \E iv \in intervals[w] :
                    iv.room = r /\ iv.enter <= log'[n].timestamp /\ log'[n].timestamp < iv.leave
               \/ cur'[w].room = r /\ cur'[w].since <= log'[n].timestamp
    <3>1. CASE n \in 1..N BY <1>1, <1>2, <1>5, <1>8, <2>1, <3>1 DEF Covered
    <3>2. CASE n = N + 1 BY <1>2, <1>3, <1>7, <1>8, <2>1, <3>2
    <3>3. n \in 1..N \/ n = N + 1 BY <1>2
    <3> QED BY <3>1, <3>2, <3>3
  <2> QED BY <1>2, <1>6, <1>7, <2>1 DEF Covered
<1> QED BY <1>9, <1>10, <1>11, <1>12, <1>13

LEMMA KeepsLeave ==
  ASSUME IInv, NEW e \in Entry, Take(e), LeaveRoom(e), NEW w \in Person, w = e.who
  PROVE  Current(w)' /\ Listed(w)' /\ ClosedSound(w)' /\ OpenSound(w)' /\ Covered(w)'
<1> DEFINE N == Len(log)
           v == Visit(w, e.timestamp)
<1>1. TypeOK /\ Current(w) /\ Listed(w) /\ ClosedSound(w) /\ OpenSound(w) /\ Covered(w)
  BY DEF IInv
<1>2. /\ N \in Nat /\ Len(log') = N + 1 /\ log'[N+1] = e
      /\ \A i \in 1..N : log'[i] = log[i]
  BY <1>1, TakeExtends DEF TypeOK
<1>3. e.room \in Room /\ From(e) = e.room /\ To(e) = NoRoom
  BY DEF LeaveRoom, Entry, From, To, Outside
<1>4. state.loc[w] = e.room /\ state'.loc[w] = NoRoom /\ NoRoom \notin Room
  BY <1>3, TakeExtends, PlaceAssumption
<1>5. cur[w] # Nowhere /\ cur[w].room = e.room BY <1>1, <1>3, <1>4 DEF Current
<1>6. cur'[w] = Nowhere /\ rooms'[w] = rooms[w] /\ intervals'[w] = intervals[w] \cup {v}
  BY <1>1, <1>5 DEF LeaveRoom, TypeOK
<1>7. v.room = e.room /\ v.enter = cur[w].since /\ v.leave = e.timestamp
  BY <1>5 DEF Visit
<1>8. /\ \A r : \A n \in 1..N : PlacedAt(log', n, w, r) <=> PlacedAt(log, n, w, r)
      /\ \A r : PlacedAt(log', N+1, w, r) <=> NoRoom = r
  BY <1>4, InRoomAfter
<1>9. Current(w)' BY <1>4, <1>6 DEF Current
<1>10. Listed(w)'
  <2>1. ASSUME NEW r \in Room
        PROVE  (\E n \in 1..(N+1) : PlacedAt(log', n, w, r)) <=>
               (\E n \in 1..N : PlacedAt(log, n, w, r))
    <3>1. \A n \in 1..(N+1) : n \in 1..N \/ n = N+1 BY <1>2
    <3>2. \A n \in 1..N : n \in 1..(N+1) BY <1>2
    <3> QED BY <1>4, <1>8, <3>1, <3>2
  <2> QED BY <1>1, <1>2, <1>4, <1>6, <2>1 DEF Listed
<1>11. PICK i \in 1..N : /\ log[i].timestamp = cur[w].since
                         /\ \A n \in i..N : PlacedAt(log, n, w, e.room)
  BY <1>1, <1>5 DEF OpenSound, During
<1>12. ClosedSound(w)'
  <2>1. /\ i < N+1 /\ i \in 1..(N+1) /\ N+1 \in 1..(N+1)
        /\ log'[i].timestamp = v.enter /\ log'[N+1].timestamp = v.leave
    BY <1>2, <1>7, <1>11
  <2>2. \A n \in i..((N+1)-1) : PlacedAt(log', n, w, v.room)
    <3>1. \A n \in i..((N+1)-1) : n \in i..N /\ n \in 1..N BY <1>2
    <3> QED BY <1>7, <1>8, <1>11, <3>1
  <2>3. ASSUME NEW iv \in intervals'[w]
        PROVE  \E k \in 1..Len(log'), j \in 1..Len(log') :
                 /\ k < j /\ log'[k].timestamp = iv.enter /\ log'[j].timestamp = iv.leave
                 /\ \A n \in k..(j-1) : PlacedAt(log', n, w, iv.room)
    <3>1. CASE iv \in intervals[w] BY <3>1, KeepsClosed
    <3>2. CASE iv = v BY <1>2, <2>1, <2>2, <3>2
    <3> QED BY <1>6, <3>1, <3>2
  <2> QED BY <2>3 DEF ClosedSound, During
<1>13. OpenSound(w)' BY <1>6 DEF OpenSound
<1>14. Covered(w)'
  <2>1. ASSUME NEW n \in 1..(N+1), NEW r \in Room, PlacedAt(log', n, w, r)
        PROVE  \E iv \in intervals'[w] :
                 iv.room = r /\ iv.enter <= log'[n].timestamp /\ log'[n].timestamp < iv.leave
    <3>1. n \in 1..N
      <4>1. n # N + 1 BY <1>4, <1>8, <2>1
      <4> QED BY <1>2, <4>1
    <3>2. PlacedAt(log, n, w, r) /\ log'[n] = log[n] BY <1>2, <1>8, <2>1, <3>1
    <3>3. CASE \E iv \in intervals[w] :
                 iv.room = r /\ iv.enter <= log[n].timestamp /\ log[n].timestamp < iv.leave
      BY <1>6, <3>2, <3>3
    <3>4. CASE cur[w].room = r /\ cur[w].since <= log[n].timestamp
      <4>1. log'[n].timestamp < e.timestamp
        <5>1. N+1 \in 1..Len(log') /\ n \in 1..((N+1)-1) BY <1>2, <3>1
        <5> QED BY <1>2, <5>1, TakeExtends DEF Reached, Rising
      <4> QED BY <1>5, <1>6, <1>7, <3>2, <3>4, <4>1
    <3> QED BY <1>1, <3>1, <3>2, <3>3, <3>4 DEF Covered
  <2> QED BY <1>2, <2>1 DEF Covered
<1> QED BY <1>9, <1>10, <1>12, <1>13, <1>14

------------------------------------------------------------------------------
(* The invariant holds *)

LEMMA VisitType ==
  ASSUME TypeOK, NEW w \in Person, cur[w] # Nowhere, NEW t \in 1..MaxTs
  PROVE  Visit(w, t) \in Iv
<1>1. cur[w] \in [room: Room, since: 1..MaxTs] BY DEF TypeOK
<1> QED BY <1>1 DEF Visit, Iv

LEMMA InitIInv == Init => IInv
<1> SUFFICES ASSUME Init PROVE IInv OBVIOUS
<1> USE DEF Init
<1>1. TypeOK BY EmptyStateType DEF TypeOK
<1>2. Reached(log, state) BY ComputesEmpty DEF Reached, ValidLog, Rising
<1>4. ASSUME NEW w \in Person
      PROVE  Current(w) /\ Listed(w) /\ ClosedSound(w) /\ OpenSound(w) /\ Covered(w)
  <2>1. state.loc[w] = Absent /\ Absent \notin Room BY PlaceAssumption DEF EmptyState
  <2> QED BY <2>1 DEF Current, Listed, ClosedSound, OpenSound, Covered
<1> QED BY <1>1, <1>2, <1>4 DEF IInv

LEMMA NextIInv == IInv /\ Next => IInv'
<1> SUFFICES ASSUME IInv, NEW e \in Entry, Take(e) PROVE IInv' BY DEF Next
<1>1. TypeOK BY DEF IInv
<1>2. log' \in Seq(Entry) /\ state' \in GalleryState /\ Reached(log, state)' BY TakeExtends
<1>3. e.who \in Person /\ e.timestamp \in 1..MaxTs /\ e.room \in Room \cup {NoRoom}
  BY DEF Entry
<1>4. CASE AtDoor(e)
  <2>1. TypeOK' BY <1>1, <1>2, <1>4 DEF AtDoor, TypeOK
  <2>2. ASSUME NEW w \in Person
        PROVE  Current(w)' /\ Listed(w)' /\ ClosedSound(w)' /\ OpenSound(w)' /\ Covered(w)'
    BY <1>4, KeepsBystanders
  <2> QED BY <1>2, <2>1, <2>2 DEF IInv
<1>5. CASE EnterRoom(e)
  <2>1. TypeOK'
    <3>1. [room |-> e.room, since |-> e.timestamp] \in [room: Room, since: 1..MaxTs]
      BY <1>3, <1>5 DEF EnterRoom
    <3>2. Append(rooms[e.who], e.room) \in Seq(Room) BY <1>1, <1>3, <1>5 DEF EnterRoom, TypeOK
    <3> QED BY <1>1, <1>2, <1>3, <1>5, <3>1, <3>2 DEF EnterRoom, TypeOK
  <2>2. ASSUME NEW w \in Person
        PROVE  Current(w)' /\ Listed(w)' /\ ClosedSound(w)' /\ OpenSound(w)' /\ Covered(w)'
    <3>1. CASE w = e.who BY <1>5, <3>1, KeepsEnter
    <3>2. CASE w # e.who BY <3>2, KeepsBystanders
    <3> QED BY <3>1, <3>2
  <2> QED BY <1>2, <2>1, <2>2 DEF IInv
<1>6. CASE LeaveRoom(e)
  <2>1. TypeOK'
    <3>1. cur[e.who] # Nowhere => Visit(e.who, e.timestamp) \in Iv BY <1>1, <1>3, VisitType
    <3>2. intervals' \in [Person -> SUBSET Iv]
      BY <1>1, <1>3, <1>6, <3>1 DEF LeaveRoom, TypeOK
    <3> QED BY <1>1, <1>2, <1>3, <1>6, <3>2 DEF LeaveRoom, TypeOK
  <2>2. ASSUME NEW w \in Person
        PROVE  Current(w)' /\ Listed(w)' /\ ClosedSound(w)' /\ OpenSound(w)' /\ Covered(w)'
    <3>1. CASE w = e.who BY <1>6, <3>1, KeepsLeave
    <3>2. CASE w # e.who BY <3>2, KeepsBystanders
    <3> QED BY <3>1, <3>2
  <2> QED BY <1>2, <2>1, <2>2 DEF IInv
<1> QED BY <1>4, <1>5, <1>6 DEF Take

LEMMA StutterIInv == IInv /\ UNCHANGED vars => IInv'
BY DEF IInv, vars, TypeOK, Current, Listed, ClosedSound, OpenSound,
       Covered, During

LEMMA Invariance == Spec => []IInv
<1>1. IInv /\ [Next]_vars => IInv' BY NextIInv, StutterIInv
<1> QED BY InitIInv, <1>1, PTL DEF Spec

\* compute_state, room_history and intersection_query keep their accumulators typed.
THEOREM QueryTypeCorrect == Spec => []TypeOK
<1>1. IInv => TypeOK BY DEF IInv
<1> QED BY Invariance, <1>1, PTL

------------------------------------------------------------------------------
(* What the answers are *)

LEMMA OccupancyMatchesIf == IInv => OccupancyMatches
<1> DEFINE N == Len(log)
<1> SUFFICES ASSUME IInv, NEW w \in Person, NEW r \in Room
             PROVE  LET here == InRoom(w, r, N) IN
                    /\ w \in rooms_occupancy(r) <=> here
                    /\ here <=> cur[w] # Nowhere /\ cur[w].room = r
                    /\ here => /\ \E i \in 1..N : /\ log[i].timestamp = cur[w].since
                                                  /\ \A n \in i..N : InRoom(w, r, n)
                               /\ room_history(w) # NoHistory
                               /\ \E i \in 1..Len(room_history(w)) : room_history(w)[i] = r
  BY DEF OccupancyMatches
<1>1. TypeOK /\ Reached(log, state) /\ Current(w) /\ Listed(w) /\ OpenSound(w) /\ N \in Nat
  BY DEF IInv, TypeOK
<1>2. w \in rooms_occupancy(r) <=> state.loc[w] = r BY DEF rooms_occupancy
<1>3. InRoom(w, r, N) <=> state.loc[w] = r
  <2>1. Computes(state, log, N) BY <1>1 DEF Reached
  <2> QED BY <1>1, <2>1, PlacedNow DEF InRoom
<1>4. state.loc[w] = r <=> cur[w] # Nowhere /\ cur[w].room = r BY <1>1 DEF Current
<1>5. ASSUME InRoom(w, r, N)
      PROVE  /\ \E i \in 1..N : /\ log[i].timestamp = cur[w].since
                               /\ \A n \in i..N : InRoom(w, r, n)
             /\ room_history(w) # NoHistory
             /\ \E i \in 1..Len(room_history(w)) : room_history(w)[i] = r
  <2>1. cur[w] # Nowhere /\ cur[w].room = r BY <1>3, <1>4, <1>5
  <2>2. PICK i \in 1..N : log[i].timestamp = cur[w].since /\ During(w, r, i, N)
    BY <1>1, <2>1 DEF OpenSound
  <2>3. \A n \in i..N : InRoom(w, r, n) BY <2>2 DEF During, InRoom
  <2>4. PlacedAt(log, N, w, r) /\ r # Absent BY <1>5, PlaceAssumption DEF InRoom
  <2>5. Named(w) BY <2>4 DEF PlacedAt, LastAbout, Named
  <2>6. room_history(w) = rooms[w] /\ rooms[w] \in Seq(Room)
    BY <1>1, <2>5 DEF room_history, TypeOK
  <2>7. N \in 1..N BY <1>1, <2>2
  <2>8. \E k \in 1..Len(rooms[w]) : rooms[w][k] = r BY <1>1, <2>4, <2>7 DEF Listed
  <2> QED BY <2>2, <2>3, <2>6, <2>8, QNullsAssumption
<1> QED BY <1>2, <1>3, <1>4, <1>5

\* -S, -R and -I tell one story, and it is the log's (rooms_occupancy, `cur`,
\* room_history): who the entries put in a room is listed there, has an unfinished
\* visit to it since an entry from which on they did not leave, and has it on -R.
THEOREM QueryOccupancy == Spec => []OccupancyMatches
BY Invariance, OccupancyMatchesIf, PTL

\* Timestamps order the log's entries.
LEMMA TimeOrders ==
  ASSUME IInv, NEW i \in 1..Len(log), NEW j \in 1..Len(log)
  PROVE  /\ log[i].timestamp \in 1..MaxTs /\ log[i].timestamp \in Nat
         /\ log[i].timestamp < log[j].timestamp => i < j
         /\ log[i].timestamp <= log[j].timestamp => i <= j
BY RisingOrders DEF IInv, TypeOK, Reached

\* A visit begins at an entry and covers no moment its person is elsewhere.
LEMMA VisitsSound ==
  ASSUME IInv, NEW w \in Person, NEW v \in Visits(w)
  PROVE  /\ v \in Iv
         /\ \E i \in 1..Len(log) : /\ log[i].timestamp = v.enter
                                   /\ PlacedAt(log, i, w, v.room)
         /\ \A n \in 1..Len(log) :
              v.enter <= log[n].timestamp /\ log[n].timestamp < v.leave
                => PlacedAt(log, n, w, v.room)
<1> DEFINE N == Len(log)
<1>1. TypeOK /\ ClosedSound(w) /\ OpenSound(w) /\ N \in Nat BY DEF IInv, TypeOK
<1>2. CASE v \in intervals[w]
  <2>1. v \in Iv BY <1>1, <1>2 DEF TypeOK
  <2>2. PICK i \in 1..N, j \in 1..N :
          /\ i < j /\ log[i].timestamp = v.enter /\ log[j].timestamp = v.leave
          /\ \A n \in i..(j-1) : PlacedAt(log, n, w, v.room)
    BY <1>1, <1>2 DEF ClosedSound, During
  <2>3. i \in i..(j-1) BY <1>1, <2>2
  <2>4. ASSUME NEW n \in 1..N, v.enter <= log[n].timestamp, log[n].timestamp < v.leave
        PROVE  PlacedAt(log, n, w, v.room)
    <3>1. i <= n /\ n < j BY <2>2, <2>4, TimeOrders
    <3> QED BY <1>1, <2>2, <3>1
  <2> QED BY <2>1, <2>2, <2>3, <2>4
<1>3. CASE cur[w] # Nowhere /\ v = Visit(w, MaxTs)
  <2>1. v \in Iv BY <1>1, <1>3, VisitType, MaxTsAssumption
  <2>2. v.room = cur[w].room /\ v.enter = cur[w].since BY <1>3 DEF Visit
  <2>3. PICK i \in 1..N : /\ log[i].timestamp = v.enter
                          /\ \A n \in i..N : PlacedAt(log, n, w, v.room)
    BY <1>1, <1>3, <2>2 DEF OpenSound, During
  <2>4. i \in i..N BY <1>1
  <2>5. ASSUME NEW n \in 1..N, v.enter <= log[n].timestamp
        PROVE  PlacedAt(log, n, w, v.room)
    <3>1. i <= n BY <2>3, <2>5, TimeOrders
    <3> QED BY <1>1, <2>3, <3>1
  <2> QED BY <2>1, <2>3, <2>4, <2>5
<1> QED BY <1>2, <1>3 DEF Visits

\* Every moment in a room before u64::MAX lies in a visit to it.
LEMMA VisitsComplete ==
  ASSUME IInv, NEW w \in Person, NEW n \in 1..Len(log), NEW r \in Room,
         PlacedAt(log, n, w, r)
  PROVE  \E v \in Visits(w) :
           /\ v.room = r /\ v.enter <= log[n].timestamp
           /\ log[n].timestamp < MaxTs => log[n].timestamp < v.leave
<1>1. CASE \E iv \in intervals[w] :
             iv.room = r /\ iv.enter <= log[n].timestamp /\ log[n].timestamp < iv.leave
  BY <1>1 DEF Visits
<1>2. CASE cur[w] # Nowhere /\ cur[w].room = r /\ cur[w].since <= log[n].timestamp
  <2>1. /\ Visit(w, MaxTs) \in Visits(w) /\ Visit(w, MaxTs).room = r
        /\ Visit(w, MaxTs).enter = cur[w].since /\ Visit(w, MaxTs).leave = MaxTs
    BY <1>2 DEF Visits, Visit
  <2> QED BY <1>2, <2>1
<1> QED BY <1>1, <1>2 DEF IInv, Covered

\* intersection_query knows exactly those who were ever in a room.
LEMMA KnownIffEver ==
  ASSUME IInv, NEW w \in Person PROVE Visits(w) # {} <=> EverInRoom(w)
<1>1. ASSUME NEW v \in Visits(w) PROVE EverInRoom(w)
  <2>1. v.room \in Room BY VisitsSound DEF Iv
  <2> QED BY <2>1, VisitsSound DEF EverInRoom, InRoom
<1>2. EverInRoom(w) => Visits(w) # {} BY VisitsComplete DEF EverInRoom, InRoom
<1> QED BY <1>1, <1>2

\* The pairwise test of overlaps() finds the moment at which all are there.
LEMMA OverlapsIffTogether ==
  ASSUME IInv, NEW ws \in SUBSET Person, ws # {}, NEW r \in Room
  PROVE  overlaps(ws, r) <=> Together(ws, r)
<1>1. ASSUME overlaps(ws, r) PROVE Together(ws, r)
  <2>1. PICK pick \in [ws -> UNION {Visits(w) : w \in ws}] :
          /\ \A w \in ws : pick[w] \in Visits(w) /\ pick[w].room = r
          /\ \A v, w \in ws : pick[v].enter < pick[w].leave
          /\ \A w \in ws : pick[w].enter < MaxTs
    BY <1>1 DEF overlaps
  <2>2. ASSUME NEW w \in ws
        PROVE  pick[w] \in Iv /\ pick[w].enter \in 1..MaxTs /\ pick[w].enter \in Nat
    BY <2>1, VisitsSound, MaxTsAssumption DEF Iv
  <2> DEFINE T == {pick[w].enter : w \in ws}
  <2>3. PICK m \in ws : \A w \in ws : pick[w].enter <= pick[m].enter
    <3>1. T \subseteq 1..MaxTs /\ T # {} BY <2>2
    <3>2. \E t \in T : \A x \in T : x <= t
      <4> HIDE DEF T
      <4> QED BY <3>1, Latest, MaxTsAssumption
    <3> QED BY <3>2
  <2>4. PICK n \in 1..Len(log) : log[n].timestamp = pick[m].enter BY <2>1, VisitsSound
  <2>5. ASSUME NEW w \in ws PROVE PlacedAt(log, n, w, r)
    <3>1. pick[w].enter <= log[n].timestamp /\ log[n].timestamp < pick[w].leave
      BY <2>1, <2>3, <2>4
    <3> QED BY <2>1, <3>1, VisitsSound
  <2> QED BY <2>1, <2>4, <2>5 DEF Together, InRoom
<1>2. ASSUME Together(ws, r) PROVE overlaps(ws, r)
  <2>1. PICK n \in 1..Len(log) :
          log[n].timestamp < MaxTs /\ \A w \in ws : PlacedAt(log, n, w, r)
    BY <1>2 DEF Together, InRoom
  <2> DEFINE Good(w, v) == /\ v.room = r /\ v.enter <= log[n].timestamp
                           /\ log[n].timestamp < v.leave
             pick == [w \in ws |-> CHOOSE v \in Visits(w) : Good(w, v)]
  <2>2. ASSUME NEW w \in ws PROVE pick[w] \in Visits(w) /\ Good(w, pick[w])
    <3>1. \E v \in Visits(w) : Good(w, v) BY <2>1, VisitsComplete
    <3> QED BY <3>1
  <2>3. pick \in [ws -> UNION {Visits(w) : w \in ws}] BY <2>2
  <2> HIDE DEF pick
  <2>4. ASSUME NEW w \in ws
        PROVE  pick[w].enter \in Nat /\ pick[w].leave \in Nat
    BY <2>2, VisitsSound, MaxTsAssumption DEF Iv
  <2>5. log[n].timestamp \in Nat BY TimeOrders
  <2>6. /\ \A v, w \in ws : pick[v].enter < pick[w].leave
        /\ \A w \in ws : pick[w].enter < MaxTs
    BY <2>1, <2>2, <2>4, <2>5, MaxTsAssumption
  <2> QED BY <2>2, <2>3, <2>6 DEF overlaps
<1> QED BY <1>1, <1>2

LEMMA IntersectionExactIf == IInv => IntersectionExact
<1> SUFFICES ASSUME IInv, NEW targets \in SUBSET Person
             PROVE  intersection_query(targets) =
                      {r \in Room : /\ {w \in targets : EverInRoom(w)} # {}
                                    /\ Together({w \in targets : EverInRoom(w)}, r)}
  BY DEF IntersectionExact
<1> DEFINE ws == {w \in targets : EverInRoom(w)}
<1>1. {w \in targets : Visits(w) # {}} = ws BY KnownIffEver
<1>2. ws \in SUBSET Person OBVIOUS
<1>3. intersection_query(targets) = IF ws = {} THEN {} ELSE {r \in Room : overlaps(ws, r)}
  BY <1>1 DEF intersection_query
<1> HIDE DEF ws
<1>4. ws # {} => \A r \in Room : overlaps(ws, r) <=> Together(ws, r)
  BY <1>2, OverlapsIffTogether
<1>5. intersection_query(targets) = {r \in Room : ws # {} /\ Together(ws, r)} BY <1>3, <1>4
<1> QED BY <1>5 DEF ws

\* -I reports exactly the rooms in which all those asked about, who were ever in
\* a room, were together at one moment before u64::MAX.
THEOREM QueryIntersection == Spec => []IntersectionExact
BY Invariance, IntersectionExactIf, PTL

LEMMA HistoryMeetsIf == IInv => HistoryMeetsIntersection
<1> SUFFICES ASSUME IInv, BeforeMax, NEW w \in Person
             PROVE  intersection_query({w}) =
                      {r \in Room : \E i \in 1..Len(rooms[w]) : rooms[w][i] = r}
  BY DEF HistoryMeetsIntersection
<1> DEFINE ws == {v \in {w} : EverInRoom(v)}
<1>1. intersection_query({w}) = {r \in Room : ws # {} /\ Together(ws, r)}
  <2>1. {w} \in SUBSET Person OBVIOUS
  <2> QED BY <2>1, IntersectionExactIf DEF IntersectionExact
<1>2. ASSUME NEW r \in Room
      PROVE  ws # {} /\ Together(ws, r) <=> \E n \in 1..Len(log) : PlacedAt(log, n, w, r)
  <2>1. CASE EverInRoom(w)
    <3>1. ws = {w} BY <2>1
    <3>2. Together({w}, r) <=> \E n \in 1..Len(log) : PlacedAt(log, n, w, r)
      BY DEF Together, InRoom, BeforeMax
    <3> QED BY <3>1, <3>2
  <2>2. CASE ~ EverInRoom(w)
    <3>1. ws = {} BY <2>2
    <3> QED BY <2>2, <3>1 DEF EverInRoom, InRoom
  <2> QED BY <2>1, <2>2
<1>3. Listed(w) BY DEF IInv
<1> HIDE DEF ws
<1> QED BY <1>1, <1>2, <1>3 DEF Listed

\* -R and -I agree about one person: the rooms room_history lists are the rooms it
\* shared with itself, as long as no entry carries u64::MAX.
THEOREM QueryHistory == Spec => []HistoryMeetsIntersection
BY Invariance, HistoryMeetsIf, PTL

------------------------------------------------------------------------------
(* The intervals of the Java queries *)

\* Of positions, or times, up to a bound there is an earliest.
LEMMA Earliest ==
  ASSUME NEW b \in Nat, NEW T, T \subseteq 1..b, T # {}
  PROVE  \E m \in T : \A x \in T : m <= x
<1> DEFINE U == {b + 1 - x : x \in T}
<1>1. \A x \in T : x \in Int /\ x >= 1 /\ x <= b OBVIOUS
<1>2. U \subseteq 1..b
  <2>1. ASSUME NEW x \in T PROVE b + 1 - x \in 1..b BY <1>1
  <2> QED BY <2>1
<1>3. U # {} OBVIOUS
<1>4. PICK u \in U : \A y \in U : y <= u
  <2> HIDE DEF U
  <2> QED BY <1>2, <1>3, Latest
<1>5. PICK m \in T : u = b + 1 - m OBVIOUS
<1>6. ASSUME NEW x \in T PROVE m <= x
  <2>1. b + 1 - x \in U OBVIOUS
  <2>2. b + 1 - x <= b + 1 - m BY <1>4, <1>5, <2>1
  <2> QED BY <1>1, <2>2
<1> QED BY <1>6

Intervals == [lo: 1..MaxTs, hi: 1..Forever]

\* Lists of intervals, none of them empty.
Lists == {L \in SUBSET Intervals : \A x \in L : x.lo <= x.hi}

Covers(L, p) == \E x \in L : x.lo <= p /\ p <= x.hi

LEMMA IntervalType ==
  ASSUME NEW L \in Lists, NEW x \in L
  PROVE  /\ x.lo \in 1..MaxTs /\ x.hi \in 1..Forever /\ x.lo \in Nat /\ x.hi \in Nat
         /\ x.lo <= x.hi /\ MaxTs \in Nat /\ Forever \in Nat /\ Forever = MaxTs + 1
<1>1. MaxTs \in Nat /\ Forever = MaxTs + 1 BY MaxTsAssumption DEF Forever
<1>2. x \in Intervals /\ x.lo <= x.hi BY DEF Lists
<1> QED BY <1>1, <1>2 DEF Intervals

\* Merging leaves the moments covered as they were.
LEMMA MergeCovers ==
  ASSUME NEW raw \in Lists
  PROVE  /\ mergeIntervals(raw) \in Lists
         /\ \A p \in Nat : Covers(mergeIntervals(raw), p) <=> Covers(raw, p)
<1> DEFINE Last(x) == CHOOSE y \in Merged(raw, x) : \A z \in Merged(raw, x) : z.hi <= y.hi
           m == mergeIntervals(raw)
<1>1. \A x \in raw : /\ x.lo \in 1..MaxTs /\ x.hi \in 1..Forever /\ x.lo \in Nat
                     /\ x.hi \in Nat /\ x.lo <= x.hi
  BY IntervalType
<1>2. MaxTs \in Nat /\ Forever \in Nat BY MaxTsAssumption DEF Forever
<1>3. ASSUME NEW x \in raw
      PROVE  /\ x \in Merged(raw, x) /\ Merged(raw, x) \subseteq raw
             /\ Last(x) \in Merged(raw, x) /\ \A z \in Merged(raw, x) : z.hi <= Last(x).hi
  <2>1. x \in Merged(raw, x)
    <3>1. \A z \in raw : z.lo <= x.lo \/ x.lo < z.lo BY <1>1
    <3> QED BY <1>1, <3>1 DEF Merged
  <2>2. Merged(raw, x) \subseteq raw BY DEF Merged
  <2> DEFINE T == {y.hi : y \in Merged(raw, x)}
  <2>3. T \subseteq 1..Forever /\ T # {} BY <1>1, <2>1, <2>2
  <2>4. PICK h \in T : \A t \in T : t <= h
    <3> HIDE DEF T
    <3> QED BY <1>2, <2>3, Latest
  <2>5. \E y \in Merged(raw, x) : \A z \in Merged(raw, x) : z.hi <= y.hi BY <2>4
  <2> QED BY <2>1, <2>2, <2>5
<1> HIDE DEF Last
<1>4. m = {[lo |-> x.lo, hi |-> Last(x).hi] : x \in {y \in raw : Begins(raw, y)}}
  BY DEF mergeIntervals, Last
<1> HIDE DEF m
<1>5. m \in Lists
  <2>1. ASSUME NEW x \in raw
        PROVE  /\ [lo |-> x.lo, hi |-> Last(x).hi] \in Intervals
               /\ x.lo <= Last(x).hi
    <3>1. Last(x) \in raw /\ x.hi <= Last(x).hi BY <1>3
    <3>2. x.lo \in 1..MaxTs /\ Last(x).hi \in 1..Forever BY <1>1, <3>1
    <3>3. x.lo <= Last(x).hi BY <1>1, <3>1
    <3> QED BY <3>2, <3>3 DEF Intervals
  <2> QED BY <1>4, <2>1 DEF Lists
<1>6. ASSUME NEW p \in Nat, Covers(raw, p) PROVE Covers(m, p)
  <2>1. PICK x \in raw : x.lo <= p /\ p <= x.hi BY <1>6 DEF Covers
  <2> DEFINE T == {z.lo : z \in {y \in raw : Begins(raw, y) /\ y.lo <= x.lo}}
  <2>2. T # {}
    <3> DEFINE E == {z.lo : z \in raw}
    <3>1. E \subseteq 1..MaxTs /\ E # {} BY <1>1
    <3>2. PICK e \in E : \A t \in E : e <= t
      <4> HIDE DEF E
      <4> QED BY <1>2, <3>1, Earliest
    <3>3. PICK z \in raw : e = z.lo BY <3>2
    <3>4. \A y \in raw : z.lo <= y.lo BY <3>2, <3>3
    <3>5. Begins(raw, z) BY <1>1, <3>4 DEF Begins
    <3> QED BY <3>3, <3>4, <3>5
  <2>3. T \subseteq 1..MaxTs BY <1>1
  <2>4. PICK t \in T : \A s \in T : s <= t
    <3> HIDE DEF T
    <3> QED BY <1>2, <2>2, <2>3, Latest
  <2>5. PICK z \in raw : Begins(raw, z) /\ z.lo <= x.lo /\ t = z.lo BY <2>4
  <2>6. \A y \in raw : Begins(raw, y) /\ y.lo <= x.lo => y.lo <= z.lo BY <2>4, <2>5
  <2>7. x \in Merged(raw, z)
    <3>1. ASSUME NEW y \in raw, Begins(raw, y) PROVE y.lo <= z.lo \/ x.lo < y.lo
      <4>1. y.lo <= x.lo \/ x.lo < y.lo BY <1>1
      <4> QED BY <2>6, <3>1, <4>1
    <3> QED BY <2>5, <3>1 DEF Merged
  <2>8. x.hi <= Last(z).hi /\ Last(z) \in raw BY <1>3, <2>5, <2>7
  <2> DEFINE w == [lo |-> z.lo, hi |-> Last(z).hi]
  <2>9. w \in m BY <1>4, <2>5
  <2>10. z.lo <= p /\ p <= Last(z).hi BY <1>1, <2>1, <2>5, <2>8
  <2> QED BY <2>9, <2>10 DEF Covers
<1>7. ASSUME NEW p \in Nat, Covers(m, p) PROVE Covers(raw, p)
  <2>1. PICK x \in raw : Begins(raw, x) /\ x.lo <= p /\ p <= Last(x).hi
    BY <1>4, <1>7 DEF Covers
  <2>2. PICK y \in raw : y \in Merged(raw, x) /\ p <= y.hi BY <1>3, <2>1
  <2>3. CASE y.lo <= p BY <2>2, <2>3 DEF Covers
  <2>4. CASE p < y.lo
    <3>1. SUFFICES ASSUME ~ Covers(raw, p) PROVE FALSE OBVIOUS
    <3> DEFINE T == {z.lo : z \in {v \in raw : p < v.lo}}
    <3>2. T \subseteq 1..MaxTs /\ T # {} BY <1>1, <2>4
    <3>3. PICK t \in T : \A s \in T : t <= s
      <4> HIDE DEF T
      <4> QED BY <1>2, <3>2, Earliest
    <3>4. PICK z \in raw : p < z.lo /\ t = z.lo BY <3>3
    <3>5. \A v \in raw : p < v.lo => z.lo <= v.lo BY <3>3, <3>4
    <3>6. ASSUME NEW v \in raw, v.lo < z.lo PROVE v.hi < z.lo
      <4>1. ~ (p < v.lo) BY <1>1, <3>5, <3>6
      <4>2. v.lo <= p BY <1>1, <4>1
      <4>3. ~ (p <= v.hi) BY <3>1, <4>2 DEF Covers
      <4> QED BY <1>1, <3>4, <4>3
    <3>7. Begins(raw, z) BY <3>6 DEF Begins
    <3>8. z.lo <= y.lo BY <2>2, <2>4, <3>5
    <3>9. z.lo <= x.lo \/ y.lo < z.lo BY <2>2, <3>7 DEF Merged
    <3> QED BY <1>1, <2>1, <3>4, <3>8, <3>9
  <2> QED BY <1>1, <2>2, <2>3, <2>4
<1> QED BY <1>5, <1>6, <1>7 DEF m

\* Two lists intersected cover the moments that both cover.
LEMMA IntersectCovers ==
  ASSUME NEW a \in Lists, NEW b \in Lists
  PROVE  /\ intersectIntervalLists(a, b) \in Lists
         /\ \A p \in Nat : Covers(intersectIntervalLists(a, b), p) <=> Covers(a, p) /\ Covers(b, p)
<1> DEFINE raw == {o \in {Overlap(x, y) : x \in a, y \in b} : o.lo <= o.hi}
<1>1. ASSUME NEW x \in a, NEW y \in b
      PROVE  /\ Overlap(x, y) \in Intervals
             /\ \A p \in Nat : Overlap(x, y).lo <= p /\ p <= Overlap(x, y).hi <=>
                                 x.lo <= p /\ p <= x.hi /\ y.lo <= p /\ p <= y.hi
  <2>1. /\ x.lo \in 1..MaxTs /\ x.hi \in 1..Forever /\ x.lo \in Nat /\ x.hi \in Nat
        /\ y.lo \in 1..MaxTs /\ y.hi \in 1..Forever /\ y.lo \in Nat /\ y.hi \in Nat
    BY IntervalType
  <2>2. /\ Overlap(x, y).lo = IF x.lo > y.lo THEN x.lo ELSE y.lo
        /\ Overlap(x, y).hi = IF x.hi < y.hi THEN x.hi ELSE y.hi
    BY DEF Overlap
  <2>3. Overlap(x, y) \in Intervals BY <2>1 DEF Overlap, Intervals
  <2> QED BY <2>1, <2>2, <2>3
<1>2. raw \in Lists BY <1>1 DEF Lists
<1>3. intersectIntervalLists(a, b) = mergeIntervals(raw) BY DEF intersectIntervalLists
<1>4. ASSUME NEW p \in Nat PROVE Covers(raw, p) <=> Covers(a, p) /\ Covers(b, p)
  <2>1. ASSUME Covers(raw, p) PROVE Covers(a, p) /\ Covers(b, p)
    <3>1. PICK o \in raw : o.lo <= p /\ p <= o.hi BY <2>1 DEF Covers
    <3>2. PICK x \in a, y \in b : o = Overlap(x, y) OBVIOUS
    <3>3. x.lo <= p /\ p <= x.hi /\ y.lo <= p /\ p <= y.hi BY <1>1, <3>1, <3>2
    <3> QED BY <3>3 DEF Covers
  <2>2. ASSUME Covers(a, p), Covers(b, p) PROVE Covers(raw, p)
    <3>1. PICK x \in a : x.lo <= p /\ p <= x.hi BY <2>2 DEF Covers
    <3>2. PICK y \in b : y.lo <= p /\ p <= y.hi BY <2>2 DEF Covers
    <3>3. Overlap(x, y).lo <= p /\ p <= Overlap(x, y).hi BY <1>1, <3>1, <3>2
    <3>4. Overlap(x, y).lo \in Nat /\ Overlap(x, y).hi \in Nat
      <4>1. Overlap(x, y) \in Intervals BY <1>1
      <4> QED BY <4>1, MaxTsAssumption DEF Intervals, Forever
    <3>5. Overlap(x, y).lo <= Overlap(x, y).hi BY <3>3, <3>4
    <3>6. Overlap(x, y) \in raw BY <3>5
    <3> QED BY <3>3, <3>6 DEF Covers
  <2> QED BY <2>1, <2>2
<1> HIDE DEF raw
<1> QED BY <1>2, <1>3, <1>4, MergeCovers

------------------------------------------------------------------------------
(* The intervals of a person and a room are the stretches of the log in it *)

Enters(i, w, r) == log[i].who = w /\ log[i].room = r /\ log[i].action = "Arrival"
Names(j, w, r)  == log[j].who = w /\ log[j].room = r

\* What the log is, from the invariant.
History == log \in Seq(Entry) /\ ValidLog(log) /\ Rising(log)

LEMMA IsHistory == IInv => History
BY DEF IInv, TypeOK, Reached, History

\* Who is in a room came in, and nothing was logged about them and the room since.
LEMMA PlacedByArrival ==
  ASSUME History, NEW w \in Person, NEW r \in Room, NEW n \in 1..Len(log)
  PROVE  PlacedAt(log, n, w, r) <=>
           \E i \in 1..n : Enters(i, w, r) /\ \A j \in (i+1)..n : ~ Names(j, w, r)
<1>1. log \in Seq(Entry) /\ ValidLog(log) /\ Len(log) \in Nat /\ n \in Nat
      /\ \A i \in 1..n : i \in 1..Len(log) /\ log[i] \in Entry
  BY DEF History
<1>2. r # NoRoom /\ r # Absent BY PlaceAssumption
<1>3. \A i \in 1..n : /\ log[i].action \in {"Arrival", "Departure"}
                      /\ log[i].room \in Room \cup {NoRoom}
  BY <1>1 DEF Entry
<1>4. \A i \in 1..n : To(log[i]) = r <=> log[i].room = r /\ log[i].action = "Arrival"
  BY <1>2, <1>3 DEF To, Outside
<1>5. \A i \in 1..n : From(log[i]) = r <=> log[i].room = r /\ log[i].action = "Departure"
  BY <1>2, <1>3 DEF From, Outside
<1>6. ASSUME PlacedAt(log, n, w, r)
      PROVE  \E i \in 1..n : Enters(i, w, r) /\ \A j \in (i+1)..n : ~ Names(j, w, r)
  <2>1. PICK i \in 1..n : LastAbout(log, n, w, i) /\ r = To(log[i])
    BY <1>2, <1>6 DEF PlacedAt
  <2> QED BY <1>4, <2>1 DEF LastAbout, Enters, Names
<1>7. ASSUME NEW i \in 1..n, Enters(i, w, r), \A j \in (i+1)..n : ~ Names(j, w, r)
      PROVE  PlacedAt(log, n, w, r)
  <2> DEFINE T == {j \in (i+1)..n : log[j].who = w}
  <2>1. T = {}
    <3>1. SUFFICES ASSUME T # {} PROVE FALSE OBVIOUS
    <3>2. T \subseteq 1..n OBVIOUS
    <3>3. PICK j \in T : \A k \in T : j <= k
      <4> HIDE DEF T
      <4> QED BY <1>1, <3>1, <3>2, Earliest
    <3>4. j \in (i+1)..n /\ log[j].who = w /\ j - 1 \in Nat /\ i \in 1..(j-1) /\ j \in 1..n
      OBVIOUS
    <3>5. \A k \in (i+1)..(j-1) : log[k].who # w
      <4>1. ASSUME NEW k \in (i+1)..(j-1), log[k].who = w PROVE FALSE
        <5>1. k \in T /\ ~ (j <= k) BY <3>4, <4>1
        <5> QED BY <3>3, <5>1
      <4> QED BY <4>1
    <3>6. LastAbout(log, j-1, w, i) BY <1>7, <3>4, <3>5 DEF LastAbout, Enters
    <3>7. PlacedAt(log, j-1, w, r) BY <1>4, <1>7, <3>4, <3>6 DEF PlacedAt, Enters
    <3>8. PlacedAt(log, j-1, w, From(log[j]))
      <4>1. Follows(log, j-1, log[j]) BY <1>1, <3>4 DEF ValidLog
      <4> QED BY <3>4, <4>1 DEF Follows
    <3>9. From(log[j]) = r BY <3>4, <3>7, <3>8, PlacedUnique
    <3> QED BY <1>5, <1>7, <3>4, <3>9 DEF Names
  <2>2. \A j \in (i+1)..n : log[j].who # w BY <2>1
  <2>3. LastAbout(log, n, w, i) BY <1>7, <2>2 DEF LastAbout, Enters
  <2> QED BY <1>4, <1>7, <2>3 DEF PlacedAt, Enters
<1> QED BY <1>6, <1>7

\* A visit ends with the departure that follows it, or not at all.
Left(i, w, r, j) ==
  /\ j \in (i+1)..Len(log) /\ Names(j, w, r) /\ log[j].action = "Departure"
  /\ \A k \in (i+1)..(j-1) : ~ Names(k, w, r)

LEMMA LeaveIs ==
  ASSUME History, NEW w \in Person, NEW r \in Room, NEW i \in 1..Len(log), Enters(i, w, r)
  PROVE  \/ leave(log, i) = Forever /\ \A j \in (i+1)..Len(log) : ~ Names(j, w, r)
         \/ \E j \in 1..Len(log) : leave(log, i) = log[j].timestamp /\ Left(i, w, r, j)
<1> DEFINE T == {j \in (i+1)..Len(log) : log[j].who = w /\ log[j].room = r}
<1>1. /\ log \in Seq(Entry) /\ ValidLog(log) /\ Len(log) \in Nat
      /\ \A j \in 1..Len(log) : log[j] \in Entry
  BY DEF History
<1>2. leave(log, i) = IF T = {} THEN Forever
                      ELSE log[CHOOSE j \in T : \A k \in T : j <= k].timestamp
  BY DEF leave, Enters
<1>3. CASE T = {}
  <2>1. \A j \in (i+1)..Len(log) : ~ Names(j, w, r) BY <1>3 DEF Names
  <2> QED BY <1>2, <1>3, <2>1
<1>4. CASE T # {}
  <2>1. T \subseteq 1..Len(log) OBVIOUS
  <2>2. \E j \in T : \A k \in T : j <= k
    <3> HIDE DEF T
    <3> QED BY <1>1, <1>4, <2>1, Earliest
  <2>3. PICK j \in T : leave(log, i) = log[j].timestamp /\ \A k \in T : j <= k
    <3> HIDE DEF T
    <3> QED BY <1>2, <1>4, <2>2
  <2>4. j \in (i+1)..Len(log) /\ Names(j, w, r) /\ j \in 1..Len(log) /\ j - 1 \in 1..Len(log)
        /\ i \in 1..(j-1)
    BY DEF Names
  <2>5. \A k \in (i+1)..(j-1) : ~ Names(k, w, r)
    <3>1. ASSUME NEW k \in (i+1)..(j-1), Names(k, w, r) PROVE FALSE
      <4>1. k \in T /\ ~ (j <= k) BY <2>4, <3>1 DEF Names
      <4> QED BY <2>3, <4>1
    <3> QED BY <3>1
  <2>6. PlacedAt(log, j-1, w, r) BY <2>4, <2>5, PlacedByArrival
  <2>7. PlacedAt(log, j-1, w, From(log[j]))
    <3>1. Follows(log, j-1, log[j]) BY <1>1, <2>4 DEF ValidLog
    <3> QED BY <2>4, <3>1 DEF Follows, Names
  <2>8. From(log[j]) = r
    <3>1. j - 1 \in Nat BY <2>4
    <3> QED BY <2>6, <2>7, <3>1, PlacedUnique
  <2>9. log[j].action = "Departure"
    <3>1. log[j].action \in {"Arrival", "Departure"} /\ r # NoRoom /\ r # Absent
      BY <1>1, <2>4, PlaceAssumption DEF Entry
    <3> QED BY <2>4, <2>8, <3>1 DEF From, Outside, Names
  <2> QED BY <2>3, <2>4, <2>5, <2>9 DEF Left
<1> QED BY <1>3, <1>4

\* The moments of a visit, and its end.
LEMMA VisitIs ==
  ASSUME History, NEW w \in Person, NEW r \in Room, NEW i \in 1..Len(log), Enters(i, w, r)
  PROVE  /\ log[i].timestamp \in 1..MaxTs /\ leave(log, i) \in 1..Forever
         /\ log[i].timestamp < leave(log, i)
         /\ \A n \in 1..Len(log) :
              log[i].timestamp <= log[n].timestamp /\ log[n].timestamp < leave(log, i) <=>
                i <= n /\ \A j \in (i+1)..n : ~ Names(j, w, r)
         /\ \A n \in 1..Len(log) :
              log[n].action = "Arrival" => log[n].timestamp # leave(log, i)
<1>1. log \in Seq(Entry) /\ Rising(log) /\ Len(log) \in Nat BY DEF History
<1>2. MaxTs \in Nat /\ Forever = MaxTs + 1 BY MaxTsAssumption DEF Forever
<1>3. \A n \in 1..Len(log), m \in 1..Len(log) :
        /\ log[n].timestamp \in 1..MaxTs /\ log[n].timestamp \in Nat
        /\ log[n].timestamp < log[m].timestamp <=> n < m
        /\ log[n].timestamp <= log[m].timestamp <=> n <= m
  BY <1>1, RisingOrders
<1>4. CASE leave(log, i) = Forever /\ \A j \in (i+1)..Len(log) : ~ Names(j, w, r)
  <2>1. \A n \in 1..Len(log) : log[n].timestamp < Forever BY <1>2, <1>3
  <2>2. leave(log, i) \in 1..Forever BY <1>2, <1>4
  <2>3. \A n \in 1..Len(log) : \A j \in (i+1)..n : ~ Names(j, w, r) BY <1>4
  <2>4. \A n \in 1..Len(log) : log[n].timestamp # Forever BY <1>2, <1>3
  <2> QED BY <1>3, <1>4, <2>1, <2>2, <2>3, <2>4
<1>5. CASE \E j \in 1..Len(log) : leave(log, i) = log[j].timestamp /\ Left(i, w, r, j)
  <2>1. PICK j \in 1..Len(log) : leave(log, i) = log[j].timestamp /\ Left(i, w, r, j)
    BY <1>5
  <2>2. /\ j \in (i+1)..Len(log) /\ Names(j, w, r) /\ log[j].action = "Departure"
        /\ \A k \in (i+1)..(j-1) : ~ Names(k, w, r)
    BY <2>1 DEF Left
  <2>3. leave(log, i) \in 1..Forever
    <3>1. leave(log, i) \in 1..MaxTs BY <1>3, <2>1
    <3> QED BY <1>2, <3>1
  <2>4. log[i].timestamp < leave(log, i) BY <1>3, <2>1, <2>2
  <2>5. ASSUME NEW n \in 1..Len(log)
        PROVE  log[i].timestamp <= log[n].timestamp /\ log[n].timestamp < leave(log, i) <=>
                 i <= n /\ \A k \in (i+1)..n : ~ Names(k, w, r)
    <3>1. /\ log[i].timestamp <= log[n].timestamp <=> i <= n
          /\ log[n].timestamp < leave(log, i) <=> n < j
      BY <1>3, <2>1
    <3>2. n < j => \A k \in (i+1)..n : ~ Names(k, w, r) BY <2>2
    <3>3. ~ (n < j) => j \in (i+1)..n BY <2>2
    <3> QED BY <2>2, <3>1, <3>2, <3>3
  <2>6. ASSUME NEW n \in 1..Len(log), log[n].timestamp = leave(log, i)
        PROVE  log[n].action # "Arrival"
    <3>1. n = j BY <1>3, <2>1, <2>6
    <3> QED BY <2>2, <3>1
  <2> QED BY <1>3, <2>3, <2>4, <2>5, <2>6
<1> QED BY <1>4, <1>5, LeaveIs

------------------------------------------------------------------------------
(* One list after the other *)

\* The recursive function inside hasNonEmptyIntersection.
Narrows(f, lists, n) ==
  f = [i \in 1..n |-> IF i = 1 THEN lists[1] ELSE intersectIntervalLists(f[i-1], lists[i])]

LEMMA NarrowsExists ==
  ASSUME NEW n \in Nat, n >= 1, NEW lists \in [1..n -> Lists]
  PROVE  \E f : Narrows(f, lists, n)
<1> DEFINE V == Lists
           F == [k \in Nat |-> [v \in V |->
                   IF k \in 1..n THEN intersectIntervalLists(v, lists[k]) ELSE v]]
<1>1. Steps(F, V)
  <2>1. ASSUME NEW k \in Nat, NEW v \in V
        PROVE  (IF k \in 1..n THEN intersectIntervalLists(v, lists[k]) ELSE v) \in V
    <3>1. k \in 1..n => lists[k] \in Lists OBVIOUS
    <3> QED BY <3>1, IntersectCovers
  <2> HIDE DEF V
  <2>2. F \in [Nat -> [V -> V]] BY <2>1
  <2> QED BY <2>2 DEF Steps
<1>2. \A k \in Nat : \A v \in V :
        F[k][v] = IF k \in 1..n THEN intersectIntervalLists(v, lists[k]) ELSE v
  OBVIOUS
<1>3. PICK f : Stepwise(f, F, V, lists[1], 1, n)
  <2>1. lists[1] \in V /\ 1 \in Nat /\ 1 <= n OBVIOUS
  <2> HIDE DEF F, V
  <2> QED BY <1>1, <2>1, StepwiseExists
<1>4. /\ f \in [1..n -> V] /\ f[1] = lists[1]
      /\ \A k \in (1+1)..n : f[k] = F[k][f[k-1]]
  BY <1>3 DEF Stepwise
<1> HIDE DEF F, V
<1>5. ASSUME NEW k \in 1..n
      PROVE  f[k] = IF k = 1 THEN lists[1] ELSE intersectIntervalLists(f[k-1], lists[k])
  <2>1. CASE k = 1 BY <1>4, <2>1
  <2>2. CASE k # 1
    <3>1. k \in (1+1)..n /\ k \in Nat /\ k - 1 \in 1..n BY <2>2
    <3> QED BY <1>2, <1>4, <2>2, <3>1
  <2> QED BY <2>1, <2>2
<1> DEFINE g == [i \in 1..n |->
                   IF i = 1 THEN lists[1] ELSE intersectIntervalLists(f[i-1], lists[i])]
<1>6. f = g
  <2>1. DOMAIN f = 1..n /\ f = [k \in DOMAIN f |-> f[k]] BY <1>4
  <2>2. \A k \in 1..n : f[k] = g[k] BY <1>5
  <2> HIDE DEF g
  <2>3. DOMAIN g = 1..n /\ g = [k \in DOMAIN g |-> g[k]] BY DEF g
  <2> QED BY <2>1, <2>2, <2>3
<1> QED BY <1>6 DEF Narrows

\* After k lists: the moments that all of them cover.
LEMMA NarrowsCovers ==
  ASSUME NEW n \in Nat, n >= 1, NEW lists \in [1..n -> Lists], NEW f, Narrows(f, lists, n),
         NEW k \in 1..n
  PROVE  /\ f[k] \in Lists
         /\ \A p \in Nat : Covers(f[k], p) <=> \A i \in 1..k : Covers(lists[i], p)
<1> DEFINE Right(m) == /\ f[m] \in Lists
                       /\ \A p \in Nat : Covers(f[m], p) <=> \A i \in 1..m : Covers(lists[i], p)
           S == {m \in Nat : m + 1 <= n => Right(m+1)}
<1>1. f[1] = lists[1]
  <2>1. 1 \in 1..n OBVIOUS
  <2>2. \A i \in 1..n : f[i] = IF i = 1 THEN lists[1]
                               ELSE intersectIntervalLists(f[i-1], lists[i])
    <3>1. f = [i \in 1..n |-> IF i = 1 THEN lists[1]
                              ELSE intersectIntervalLists(f[i-1], lists[i])]
      BY DEF Narrows
    <3> QED BY <3>1
  <2> QED BY <2>1, <2>2
<1>2. 0 \in S
  <2>1. 0 + 1 = 1 /\ \A i \in 1..1 : i = 1 OBVIOUS
  <2>2. 1 \in 1..1 /\ 1 \in 1..n OBVIOUS
  <2>3. lists[1] \in Lists BY <2>2
  <2>4. Right(1) BY <1>1, <2>1, <2>2, <2>3
  <2> QED BY <2>1, <2>4
<1>3. ASSUME NEW m \in Nat, m \in S PROVE m + 1 \in S
  <2>1. SUFFICES ASSUME (m + 1) + 1 <= n PROVE Right((m + 1) + 1) OBVIOUS
  <2>2. /\ (m + 1) + 1 \in 1..n /\ m + 1 <= n /\ (m + 1) + 1 # 1
        /\ ((m + 1) + 1) - 1 = m + 1
        /\ \A i \in 1..((m+1)+1) : i \in 1..(m+1) \/ i = (m+1)+1
        /\ \A i \in 1..(m+1) : i \in 1..((m+1)+1)
        /\ (m+1)+1 \in 1..((m+1)+1)
    BY <2>1
  <2>3. Right(m + 1) BY <1>3, <2>2
  <2>4. f[(m+1)+1] = intersectIntervalLists(f[m+1], lists[(m+1)+1])
    <3>1. f = [i \in 1..n |-> IF i = 1 THEN lists[1]
                              ELSE intersectIntervalLists(f[i-1], lists[i])]
      BY DEF Narrows
    <3>2. f[(m+1)+1] = intersectIntervalLists(f[((m+1)+1)-1], lists[(m+1)+1])
      BY <2>2, <3>1
    <3> QED BY <2>2, <3>2
  <2>5. lists[(m+1)+1] \in Lists BY <2>2
  <2>6. /\ f[(m+1)+1] \in Lists
        /\ \A p \in Nat : Covers(f[(m+1)+1], p) <=>
                            Covers(f[m+1], p) /\ Covers(lists[(m+1)+1], p)
    BY <2>3, <2>4, <2>5, IntersectCovers
  <2>7. ASSUME NEW p \in Nat
        PROVE  Covers(f[(m+1)+1], p) <=> \A i \in 1..((m+1)+1) : Covers(lists[i], p)
    <3>1. Covers(f[m+1], p) <=> \A i \in 1..(m+1) : Covers(lists[i], p) BY <2>3
    <3> QED BY <2>2, <2>6, <3>1
  <2> QED BY <2>6, <2>7
<1>4. Nat \subseteq S
  <2> HIDE DEF S
  <2> QED BY <1>2, <1>3, NatSetInduction
<1>5. k - 1 \in Nat /\ (k - 1) + 1 = k /\ k <= n OBVIOUS
<1>6. Right((k-1)+1)
  <2>1. k - 1 \in S BY <1>4, <1>5
  <2> HIDE DEF Right
  <2> QED BY <1>5, <2>1
<1> QED BY <1>5, <1>6

\* The visits of a person to a room are a list of intervals.
LEMMA VisitsAreList ==
  ASSUME History, NEW w \in Person, NEW r \in Room
  PROVE  intervalsInRoom(log, w, r) \in Lists
<1>1. ASSUME NEW i \in 1..Len(log), Enters(i, w, r)
      PROVE  /\ [lo |-> log[i].timestamp, hi |-> leave(log, i)] \in Intervals
             /\ log[i].timestamp <= leave(log, i)
  <2>1. /\ log[i].timestamp \in 1..MaxTs /\ leave(log, i) \in 1..Forever
        /\ log[i].timestamp < leave(log, i)
    BY <1>1, VisitIs
  <2>2. log[i].timestamp \in Int /\ leave(log, i) \in Int
    BY <2>1, MaxTsAssumption DEF Forever
  <2> QED BY <2>1, <2>2 DEF Intervals
<1>2. intervalsInRoom(log, w, r) =
        {[lo |-> log[i].timestamp, hi |-> leave(log, i)] :
           i \in {j \in 1..Len(log) : Enters(j, w, r)}}
  BY DEF intervalsInRoom, Enters
<1> QED BY <1>1, <1>2 DEF Lists

LEMMA NonEmptyDef ==
  ASSUME NEW ws, NEW r
  PROVE  LET lists == [i \in 1..Len(ws) |-> intervalsInRoom(log, ws[i], r)] IN
         hasNonEmptyIntersection(log, ws, r) <=>
           /\ \A i \in 1..Len(ws) : lists[i] # {}
           /\ (CHOOSE f : Narrows(f, lists, Len(ws)))[Len(ws)] # {}
BY DEF hasNonEmptyIntersection, Narrows

\* Not empty: there is a moment that the list of everybody covers.
LEMMA NonEmptyIff ==
  ASSUME History, NEW ws \in Seq(Person), Len(ws) >= 1, NEW r \in Room
  PROVE  hasNonEmptyIntersection(log, ws, r) <=>
           \E p \in Nat : \A i \in 1..Len(ws) : Covers(intervalsInRoom(log, ws[i], r), p)
<1> DEFINE n == Len(ws)
           lists == [i \in 1..n |-> intervalsInRoom(log, ws[i], r)]
<1>1. n \in Nat /\ n >= 1 /\ n \in 1..n OBVIOUS
<1>2. lists \in [1..n -> Lists]
  <2>1. \A i \in 1..n : ws[i] \in Person OBVIOUS
  <2>2. \A i \in 1..n : intervalsInRoom(log, ws[i], r) \in Lists BY <2>1, VisitsAreList
  <2> QED BY <2>2
<1>3. \A i \in 1..n : lists[i] = intervalsInRoom(log, ws[i], r) OBVIOUS
<1>4. hasNonEmptyIntersection(log, ws, r) <=>
        /\ \A i \in 1..n : lists[i] # {}
        /\ (CHOOSE f : Narrows(f, lists, n))[n] # {}
  BY NonEmptyDef
<1> HIDE DEF lists, n
<1>5. PICK f : Narrows(f, lists, n) /\ f = CHOOSE g : Narrows(g, lists, n)
  BY <1>1, <1>2, NarrowsExists
<1>6. /\ f[n] \in Lists
      /\ \A p \in Nat : Covers(f[n], p) <=> \A i \in 1..n : Covers(lists[i], p)
  BY <1>1, <1>2, <1>5, NarrowsCovers
<1>7. \A L \in Lists : \A x \in L : x.lo \in Nat /\ Covers(L, x.lo)
  <2>1. ASSUME NEW L \in Lists, NEW x \in L PROVE x.lo \in Nat /\ Covers(L, x.lo)
    <3>1. x.lo \in Nat /\ x.lo <= x.hi BY IntervalType
    <3> QED BY <3>1 DEF Covers
  <2> QED BY <2>1
<1>8. f[n] # {} <=> \E p \in Nat : \A i \in 1..n : Covers(lists[i], p)
  <2>1. ASSUME f[n] # {} PROVE \E p \in Nat : Covers(f[n], p) BY <1>6, <1>7, <2>1
  <2>2. ASSUME NEW p \in Nat, Covers(f[n], p) PROVE f[n] # {} BY <2>2 DEF Covers
  <2> QED BY <1>6, <2>1, <2>2
<1>9. ASSUME NEW p \in Nat, \A i \in 1..n : Covers(lists[i], p)
      PROVE  \A i \in 1..n : lists[i] # {}
  BY <1>9 DEF Covers
<1> QED BY <1>3, <1>4, <1>5, <1>8, <1>9 DEF n

LEMMA CoversIsVisit ==
  ASSUME NEW w, NEW r, NEW p
  PROVE  Covers(intervalsInRoom(log, w, r), p) <=>
           \E i \in 1..Len(log) : /\ Enters(i, w, r)
                                  /\ log[i].timestamp <= p /\ p <= leave(log, i)
<1>1. intervalsInRoom(log, w, r) =
        {[lo |-> log[i].timestamp, hi |-> leave(log, i)] :
           i \in {j \in 1..Len(log) : Enters(j, w, r)}}
  BY DEF intervalsInRoom, Enters
<1>2. ASSUME Covers(intervalsInRoom(log, w, r), p)
      PROVE  \E i \in 1..Len(log) : /\ Enters(i, w, r)
                                    /\ log[i].timestamp <= p /\ p <= leave(log, i)
  <2>1. PICK x \in intervalsInRoom(log, w, r) : x.lo <= p /\ p <= x.hi BY <1>2 DEF Covers
  <2> QED BY <1>1, <2>1
<1>3. ASSUME NEW i \in 1..Len(log), Enters(i, w, r), log[i].timestamp <= p, p <= leave(log, i)
      PROVE  Covers(intervalsInRoom(log, w, r), p)
  <2> DEFINE x == [lo |-> log[i].timestamp, hi |-> leave(log, i)]
  <2>1. x \in intervalsInRoom(log, w, r) BY <1>1, <1>3
  <2>2. x.lo <= p /\ p <= x.hi BY <1>3
  <2> HIDE DEF x
  <2> QED BY <2>1, <2>2 DEF Covers
<1> QED BY <1>2, <1>3

(* Intervals have a moment in common exactly when their persons have: at the    *)
(* latest of the arrivals they begin with nobody is about to leave.             *)
LEMMA NonEmptyIffTogether ==
  ASSUME History, NEW ws \in Seq(Person), Len(ws) >= 1, NEW r \in Room
  PROVE  hasNonEmptyIntersection(log, ws, r) <=>
           \E n \in 1..Len(log) : \A i \in 1..Len(ws) : PlacedAt(log, n, ws[i], r)
<1>1. /\ Len(ws) \in Nat /\ 1 \in 1..Len(ws) /\ \A i \in 1..Len(ws) : ws[i] \in Person
      /\ Len(log) \in Nat /\ log \in Seq(Entry) /\ Rising(log)
  BY DEF History
<1>2. \A n \in 1..Len(log), m \in 1..Len(log) :
        /\ log[n].timestamp \in Nat
        /\ log[n].timestamp <= log[m].timestamp <=> n <= m
  BY <1>1, RisingOrders
<1>3. \A n \in 1..Len(log) : leave(log, n) \in 1..Forever => leave(log, n) \in Nat
  BY MaxTsAssumption DEF Forever
<1>4. ASSUME NEW n \in 1..Len(log), \A i \in 1..Len(ws) : PlacedAt(log, n, ws[i], r)
      PROVE  \E p \in Nat : \A i \in 1..Len(ws) : Covers(intervalsInRoom(log, ws[i], r), p)
  <2>1. ASSUME NEW i \in 1..Len(ws)
        PROVE  Covers(intervalsInRoom(log, ws[i], r), log[n].timestamp)
    <3>1. ws[i] \in Person /\ PlacedAt(log, n, ws[i], r) BY <1>1, <1>4
    <3>2. PICK k \in 1..n : Enters(k, ws[i], r) /\ \A j \in (k+1)..n : ~ Names(j, ws[i], r)
      BY <3>1, PlacedByArrival
    <3>3. k \in 1..Len(log) /\ k <= n BY <3>2
    <3>4. /\ log[k].timestamp <= log[n].timestamp /\ log[n].timestamp < leave(log, k)
          /\ leave(log, k) \in 1..Forever
      BY <3>1, <3>2, <3>3, VisitIs
    <3>5. log[n].timestamp <= leave(log, k) BY <1>2, <1>3, <3>3, <3>4
    <3> QED BY <3>2, <3>3, <3>4, <3>5, CoversIsVisit
  <2> QED BY <1>2, <2>1
<1>5. ASSUME NEW p \in Nat, \A i \in 1..Len(ws) : Covers(intervalsInRoom(log, ws[i], r), p)
      PROVE  \E n \in 1..Len(log) : \A i \in 1..Len(ws) : PlacedAt(log, n, ws[i], r)
  <2> DEFINE T == {k \in 1..Len(log) : /\ \E i \in 1..Len(ws) : Enters(k, ws[i], r)
                                       /\ log[k].timestamp <= p /\ p <= leave(log, k)}
  <2>1. \A i \in 1..Len(ws) : \E k \in T : Enters(k, ws[i], r)
    <3>1. ASSUME NEW i \in 1..Len(ws) PROVE \E k \in T : Enters(k, ws[i], r)
      <4>1. PICK k \in 1..Len(log) : /\ Enters(k, ws[i], r)
                                     /\ log[k].timestamp <= p /\ p <= leave(log, k)
        BY <1>5, CoversIsVisit
      <4> QED BY <4>1
    <3> QED BY <3>1
  <2>2. T \subseteq 1..Len(log) /\ T # {} BY <1>1, <2>1
  <2>3. \A k \in T : log[k].timestamp <= p /\ p <= leave(log, k) /\ log[k].action = "Arrival"
    BY DEF Enters
  <2> HIDE DEF T
  <2>4. PICK n \in T : \A k \in T : k <= n BY <1>1, <2>2, Latest
  <2>5. n \in 1..Len(log) BY <2>2
  <2>6. ASSUME NEW i \in 1..Len(ws) PROVE PlacedAt(log, n, ws[i], r)
    <3>1. ws[i] \in Person BY <1>1
    <3>2. PICK k \in T : Enters(k, ws[i], r) BY <2>1
    <3>3. k \in 1..Len(log) /\ k <= n BY <2>2, <2>4
    <3>4. leave(log, k) \in 1..Forever /\ log[n].timestamp # leave(log, k)
      BY <2>3, <2>5, <3>1, <3>2, <3>3, VisitIs
    <3>5. log[n].timestamp <= p /\ p <= leave(log, k) BY <2>3
    <3>6. log[k].timestamp <= log[n].timestamp /\ log[n].timestamp < leave(log, k)
      BY <1>2, <1>3, <2>5, <3>3, <3>4, <3>5
    <3>7. k <= n /\ \A j \in (k+1)..n : ~ Names(j, ws[i], r)
      BY <2>5, <3>1, <3>2, <3>3, <3>6, VisitIs
    <3>8. k \in 1..n BY <3>3
    <3> QED BY <2>5, <3>1, <3>2, <3>7, <3>8, PlacedByArrival
  <2> QED BY <2>5, <2>6
<1> QED BY <1>4, <1>5, NonEmptyIff

------------------------------------------------------------------------------
(* -I of Java *)

\* The rooms in which all those asked about that the log names were together.
LEMMA JavaIntersection ==
  ASSUME History, NEW wanted \in Seq(Person)
  PROVE  LET ws == {w \in Persons(wanted) : Named(w)} IN
         queryIntersection(log, wanted) =
           {r \in Room : ws # {} /\ \E n \in 1..Len(log) : \A w \in ws : InRoom(w, r, n)}
<1> DEFINE named == {log[i].who : i \in 1..Len(log)}
           active == Those(wanted, named)
           allRooms == {log[i].room : i \in 1..Len(log)} \ {NoRoom}
           ws == {w \in Persons(wanted) : Named(w)}
           answer == {r \in Room : /\ ws # {}
                                   /\ \E n \in 1..Len(log) : \A w \in ws : InRoom(w, r, n)}
<1>1. /\ active \in Seq(Person)
      /\ \A w : (\E i \in 1..Len(active) : active[i] = w) <=> w \in ws
  <2>1. /\ active \in Seq(Person)
        /\ \A w : (\E i \in 1..Len(active) : active[i] = w) <=>
                  (w \in named /\ \E i \in 1..Len(wanted) : wanted[i] = w)
    <3>1. PICK T : T = named OBVIOUS
    <3>2. PICK those : those = Those(wanted, T) OBVIOUS
    <3>3. /\ those \in Seq(Person)
          /\ \A w : (\E i \in 1..Len(those) : those[i] = w) <=>
                    (w \in T /\ \E i \in 1..Len(wanted) : wanted[i] = w)
      BY <3>2, ThoseElements
    <3> HIDE DEF named
    <3> QED BY <3>1, <3>2, <3>3
  <2>2. \A w : w \in ws <=> (w \in named /\ \E i \in 1..Len(wanted) : wanted[i] = w)
    BY DEF Persons, Named
  <2> HIDE DEF active, named, ws
  <2> QED BY <2>1, <2>2
<1>2. queryIntersection(log, wanted) =
        IF active = << >> THEN {} ELSE {r \in allRooms : hasNonEmptyIntersection(log, active, r)}
  BY DEF queryIntersection
<1> HIDE DEF active, named
<1>3. active = << >> <=> ws = {}
  <2>1. Len(active) \in Nat /\ (active = << >> <=> Len(active) = 0) BY <1>1
  <2>2. ws = {} => ~ (1 \in 1..Len(active)) BY <1>1
  <2>3. Len(active) # 0 => 1 \in 1..Len(active) BY <2>1
  <2>4. Len(active) = 0 => ws = {}
    <3>1. Len(active) = 0 => \A i \in 1..Len(active) : FALSE OBVIOUS
    <3> QED BY <1>1, <3>1
  <2> QED BY <2>1, <2>2, <2>3, <2>4
<1> HIDE DEF ws
<1>4. ASSUME ws # {}, NEW r \in Room
      PROVE  hasNonEmptyIntersection(log, active, r) <=> r \in answer
  <2>1. Len(active) >= 1
    <3>1. active # << >> BY <1>3, <1>4
    <3> QED BY <1>1, <3>1
  <2>2. hasNonEmptyIntersection(log, active, r) <=>
          \E n \in 1..Len(log) : \A i \in 1..Len(active) : PlacedAt(log, n, active[i], r)
    BY <1>1, <2>1, NonEmptyIffTogether
  <2>3. \A n \in 1..Len(log) :
          (\A i \in 1..Len(active) : PlacedAt(log, n, active[i], r)) <=>
            \A w \in ws : InRoom(w, r, n)
    BY <1>1 DEF InRoom
  <2> QED BY <1>4, <2>2, <2>3
<1>5. allRooms \subseteq Room
  <2>1. \A i \in 1..Len(log) : log[i] \in Entry BY DEF History
  <2> QED BY <2>1 DEF Entry
<1>6. ASSUME NEW r \in answer PROVE r \in allRooms
  <2>1. r \in Room /\ ws # {} OBVIOUS
  <2>2. PICK n \in 1..Len(log) : \A w \in ws : InRoom(w, r, n) OBVIOUS
  <2>3. PICK w : w \in ws BY <2>1
  <2>4. PlacedAt(log, n, w, r) /\ w \in Person
    <3>1. w \in Person BY <1>1, <2>3
    <3> QED BY <2>2, <2>3, <3>1 DEF InRoom
  <2>5. PICK i \in 1..n : Enters(i, w, r) BY <2>1, <2>4, PlacedByArrival
  <2>6. i \in 1..Len(log) /\ log[i].room = r
    <3>1. Len(log) \in Nat BY DEF History
    <3> QED BY <2>5, <3>1 DEF Enters
  <2>7. r # NoRoom BY <2>1, PlaceAssumption
  <2> QED BY <2>6, <2>7
<1>7. queryIntersection(log, wanted) = answer
  <2>1. CASE ws = {} BY <1>2, <1>3, <2>1
  <2>2. CASE ws # {}
    <3>1. queryIntersection(log, wanted) =
            {r \in allRooms : hasNonEmptyIntersection(log, active, r)}
      BY <1>2, <1>3, <2>2
    <3>2. answer \subseteq Room OBVIOUS
    <3> HIDE DEF allRooms, answer
    <3> QED BY <1>4, <1>5, <1>6, <2>2, <3>1, <3>2
  <2> QED BY <2>1, <2>2
<1> QED BY <1>7 DEF ws

LEMMA JavaIntersectionIf == IInv => JavaIntersectionExact
<1> SUFFICES ASSUME IInv, NEW wanted \in Wanted
             PROVE  LET ws == {w \in Persons(wanted) : Named(w)} IN
                    queryIntersection(log, wanted) =
                      {r \in Room : /\ ws # {}
                                    /\ \E n \in 1..Len(log) : \A w \in ws : InRoom(w, r, n)}
  BY DEF JavaIntersectionExact
<1>1. History BY IsHistory
<1>2. wanted \in Seq(Person)
  <2>1. PICK n \in 1..Cardinality(Person) : wanted \in [1..n -> Person] BY DEF Wanted
  <2>2. n \in Nat OBVIOUS
  <2> QED BY <2>1, <2>2
<1> QED BY <1>1, <1>2, JavaIntersection

(* -I of Java is exact, for any number of persons asked about: intervals may be  *)
(* compared by the moments they cover, and merging and intersecting lists of them *)
(* does to these moments what union and intersection do.                          *)
THEOREM JavaQueryIntersection == Spec => []JavaIntersectionExact
BY Invariance, JavaIntersectionIf, PTL

------------------------------------------------------------------------------
(* -S of Java *)

\* The recursive function inside queryState.
Replays(f, es) ==
  f = [n \in 0..Len(es) |-> IF n = 0 THEN EmptyState ELSE Applied(f[n-1], es[n])]

LEMMA ReplaysExists ==
  ASSUME NEW es \in Seq(Entry)
  PROVE  \E f : Replays(f, es)
<1> DEFINE N == Len(es)
           V == GalleryState
           F == [k \in Nat |-> [v \in V |-> IF k \in 1..N THEN Applied(v, es[k]) ELSE v]]
<1>1. Steps(F, V)
  <2>1. ASSUME NEW k \in Nat, NEW v \in V
        PROVE  (IF k \in 1..N THEN Applied(v, es[k]) ELSE v) \in V
    <3>1. k \in 1..N => es[k] \in Entry OBVIOUS
    <3> QED BY <3>1, AppliedType
  <2> HIDE DEF V, N
  <2>2. F \in [Nat -> [V -> V]] BY <2>1
  <2> QED BY <2>2 DEF Steps
<1>2. \A k \in Nat : \A v \in V : F[k][v] = IF k \in 1..N THEN Applied(v, es[k]) ELSE v
  OBVIOUS
<1>3. N \in Nat /\ 0 \in Nat /\ 0 <= N OBVIOUS
<1>4. PICK f : Stepwise(f, F, V, EmptyState, 0, N)
  <2>1. EmptyState \in V BY EmptyStateType
  <2> HIDE DEF F, V, N
  <2> QED BY <1>1, <1>3, <2>1, StepwiseExists
<1>5. /\ f \in [0..N -> V] /\ f[0] = EmptyState
      /\ \A k \in (0+1)..N : f[k] = F[k][f[k-1]]
  BY <1>4 DEF Stepwise
<1> HIDE DEF F, V
<1>6. ASSUME NEW k \in 0..N
      PROVE  f[k] = IF k = 0 THEN EmptyState ELSE Applied(f[k-1], es[k])
  <2>1. CASE k = 0 BY <1>5, <2>1
  <2>2. CASE k # 0
    <3>1. k \in (0+1)..N /\ k \in 1..N /\ k \in Nat /\ k - 1 \in 0..N BY <1>3, <2>2
    <3>2. f[k-1] \in V /\ f[k] = F[k][f[k-1]] BY <1>5, <3>1
    <3> QED BY <1>2, <2>2, <3>1, <3>2
  <2> QED BY <2>1, <2>2
<1> DEFINE g == [k \in 0..N |-> IF k = 0 THEN EmptyState ELSE Applied(f[k-1], es[k])]
<1>7. f = g
  <2>1. DOMAIN f = 0..N /\ f = [k \in DOMAIN f |-> f[k]] BY <1>5
  <2>2. \A k \in 0..N : f[k] = g[k] BY <1>6
  <2> HIDE DEF g
  <2>3. DOMAIN g = 0..N /\ g = [k \in DOMAIN g |-> g[k]] BY DEF g
  <2> QED BY <2>1, <2>2, <2>3
<1> QED BY <1>7 DEF Replays

LEMMA StateDef ==
  ASSUME NEW es, NEW r
  PROVE  queryState(es, r) =
           {w \in Person : (CHOOSE f : Replays(f, es))[Len(es)].loc[w] = r}
BY DEF queryState, Replays

\* The rooms' lines of -S: who the log puts there.
LEMMA StateIs ==
  ASSUME NEW es \in Seq(Entry), NEW r
  PROVE  queryState(es, r) = {w \in Person : PlacedAt(es, Len(es), w, r)}
<1> DEFINE N == Len(es)
<1>1. PICK f : Replays(f, es) /\ f = CHOOSE g : Replays(g, es) BY ReplaysExists
<1>2. f = [n \in 0..N |-> IF n = 0 THEN EmptyState ELSE Applied(f[n-1], es[n])]
  BY <1>1 DEF Replays
<1>3. N \in Nat OBVIOUS
<1> DEFINE S == {m \in Nat : m <= N => f[m] \in GalleryState /\ Computes(f[m], es, m)}
<1>4. 0 \in S
  <2>1. 0 \in 0..N BY <1>3
  <2>2. f[0] = EmptyState BY <1>2, <2>1
  <2> QED BY <2>2, EmptyStateType, ComputesEmpty
<1>5. ASSUME NEW m \in Nat, m \in S PROVE m + 1 \in S
  <2>1. SUFFICES ASSUME m + 1 <= N
                 PROVE  f[m+1] \in GalleryState /\ Computes(f[m+1], es, m + 1)
    OBVIOUS
  <2>2. m + 1 \in 0..N /\ m + 1 # 0 /\ (m + 1) - 1 = m /\ m <= N /\ m + 1 \in 1..N
    BY <1>3, <2>1
  <2>3. f[m] \in GalleryState /\ Computes(f[m], es, m) BY <1>5, <2>2
  <2>4. f[m+1] = Applied(f[(m+1)-1], es[m+1]) BY <1>2, <2>2
  <2>5. es[m+1] \in Entry BY <2>2
  <2> QED BY <2>2, <2>3, <2>4, <2>5, AppliedType, ApplyComputes
<1>6. Nat \subseteq S
  <2> HIDE DEF S
  <2> QED BY <1>4, <1>5, NatSetInduction
<1>7. Computes(f[N], es, N)
  <2>1. N \in S BY <1>3, <1>6
  <2> QED BY <1>3, <2>1
<1>8. \A w \in Person : PlacedAt(es, N, w, r) <=> f[N].loc[w] = r
  BY <1>3, <1>7, PlacedNow
<1>9. queryState(es, r) = {w \in Person : f[N].loc[w] = r} BY <1>1, StateDef
<1> QED BY <1>8, <1>9

------------------------------------------------------------------------------
(* -R of Java *)

Arrivals(w) == {e \in Entry : e.who = w /\ e.room # NoRoom /\ e.action = "Arrival"}

LEMMA HistoryDef ==
  ASSUME NEW es, NEW w
  PROVE  queryRoomHistory(es, w) =
           [i \in 1..Len(Those(es, Arrivals(w))) |-> Those(es, Arrivals(w))[i].room]
BY DEF queryRoomHistory, Arrivals

\* An entry more.
LEMMA HistoryNext ==
  ASSUME NEW es \in Seq(Entry), NEW e \in Entry, NEW w \in Person
  PROVE  queryRoomHistory(Append(es, e), w) =
           IF e \in Arrivals(w) THEN Append(queryRoomHistory(es, w), e.room)
                                ELSE queryRoomHistory(es, w)
<1>0. PICK before, after : /\ before = Those(es, Arrivals(w))
                           /\ after  = Those(Append(es, e), Arrivals(w))
  OBVIOUS
<1>1. after = IF e \in Arrivals(w) THEN Append(before, e) ELSE before BY <1>0, ThoseNext
<1>2. before \in Seq(Entry) BY <1>0, ThoseElements
<1>3. /\ queryRoomHistory(es, w) = [i \in 1..Len(before) |-> before[i].room]
      /\ queryRoomHistory(Append(es, e), w) = [i \in 1..Len(after) |-> after[i].room]
  BY <1>0, HistoryDef
<1>4. CASE e \in Arrivals(w)
  <2> DEFINE u == [i \in 1..Len(before) |-> before[i].room]
             v == [i \in 1..Len(after) |-> after[i].room]
  <2>1. after = Append(before, e) BY <1>1, <1>4
  <2>2. Len(before) \in Nat BY <1>2
  <2>3. /\ Len(after) = Len(before) + 1 /\ after[Len(before) + 1] = e
        /\ \A i \in 1..Len(before) : after[i] = before[i]
    BY <1>2, <2>1
  <2>4. u \in Seq(Room \cup {NoRoom}) /\ Len(u) = Len(before)
    <3>1. \A i \in 1..Len(before) : before[i] \in Entry BY <1>2
    <3>2. \A i \in 1..Len(before) : before[i].room \in Room \cup {NoRoom} BY <3>1 DEF Entry
    <3>3. u \in [1..Len(before) -> Room \cup {NoRoom}] BY <3>2
    <3> HIDE DEF u
    <3> QED BY <2>2, <3>3
  <2>5. e.room \in Room \cup {NoRoom} BY DEF Entry
  <2>6. v = Append(u, e.room)
    <3> DEFINE z == Append(u, e.room)
    <3>1. z = [i \in 1..(Len(u)+1) |-> IF i = Len(u) + 1 THEN e.room ELSE u[i]]
      <4> HIDE DEF u
      <4>1. /\ z \in Seq(Room \cup {NoRoom}) /\ Len(z) = Len(u) + 1 /\ z[Len(u)+1] = e.room
            /\ \A i \in 1..Len(u) : z[i] = u[i]
        BY <2>4, <2>5
      <4>2. DOMAIN z = 1..(Len(u)+1) /\ z = [i \in DOMAIN z |-> z[i]] BY <4>1
      <4>3. \A i \in 1..(Len(u)+1) : i \in 1..Len(u) \/ i = Len(u) + 1 BY <2>2, <2>4
      <4> HIDE DEF z
      <4> QED BY <4>1, <4>2, <4>3
    <3>2. ASSUME NEW i \in 1..(Len(before)+1)
          PROVE  after[i].room = IF i = Len(before) + 1 THEN e.room ELSE u[i]
      <4>1. i \in 1..Len(before) \/ i = Len(before) + 1 BY <2>2
      <4> QED BY <2>3, <4>1
    <3> HIDE DEF u, z
    <3> QED BY <2>3, <2>4, <3>1, <3>2 DEF z
  <2> QED BY <1>3, <1>4, <2>6
<1>5. CASE e \notin Arrivals(w) BY <1>1, <1>3, <1>5
<1> QED BY <1>4, <1>5

\* room_history's list is Java's.
SameHistory == \A w \in Person : rooms[w] = queryRoomHistory(log, w)

LEMMA InitSameHistory == Init => SameHistory
<1> SUFFICES ASSUME Init, NEW w \in Person PROVE rooms[w] = queryRoomHistory(log, w)
  BY DEF SameHistory
<1>1. log = << >> /\ rooms[w] = << >> BY DEF Init
<1>2. Those(log, Arrivals(w)) = << >> BY <1>1, ThoseOfNone
<1>3. queryRoomHistory(log, w) = [i \in 1..Len(<< >>) |-> << >>[i].room] BY <1>2, HistoryDef
<1> QED BY <1>1, <1>3

LEMMA NextSameHistory == IInv /\ SameHistory /\ Next => SameHistory'
<1> SUFFICES ASSUME IInv, SameHistory, NEW e \in Entry, Take(e), NEW w \in Person
             PROVE  rooms'[w] = queryRoomHistory(log', w)
  BY DEF SameHistory, Next
<1>1. log \in Seq(Entry) /\ rooms \in [Person -> Seq(Room)] BY DEF IInv, TypeOK
<1>2. log' = Append(log, e) /\ (AtDoor(e) \/ EnterRoom(e) \/ LeaveRoom(e)) BY DEF Take
<1>3. rooms[w] = queryRoomHistory(log, w) BY DEF SameHistory
<1>4. queryRoomHistory(log', w) = IF e \in Arrivals(w) THEN Append(rooms[w], e.room)
                                                        ELSE rooms[w]
  BY <1>1, <1>2, <1>3, HistoryNext
<1>5. CASE AtDoor(e)
  <2>1. e \notin Arrivals(w) /\ rooms' = rooms BY <1>5 DEF AtDoor, Arrivals
  <2> QED BY <1>4, <2>1
<1>6. CASE LeaveRoom(e)
  <2>1. e \notin Arrivals(w) /\ rooms' = rooms BY <1>6 DEF LeaveRoom, Arrivals
  <2> QED BY <1>4, <2>1
<1>7. CASE EnterRoom(e)
  <2>1. rooms' = [rooms EXCEPT ![e.who] = Append(@, e.room)] /\ e.who \in Person
    BY <1>7 DEF EnterRoom, Entry
  <2>2. e \in Arrivals(w) <=> e.who = w BY <1>7 DEF EnterRoom, Arrivals
  <2> QED BY <1>1, <1>4, <2>1, <2>2
<1> QED BY <1>2, <1>5, <1>6, <1>7

LEMMA SameHistoryInvariant == Spec => []SameHistory
<1>1. SameHistory /\ UNCHANGED vars => SameHistory' BY DEF SameHistory, vars
<1>2. IInv /\ SameHistory /\ [Next]_vars => SameHistory' BY <1>1, NextSameHistory
<1> QED BY InitSameHistory, <1>2, Invariance, PTL DEF Spec

------------------------------------------------------------------------------
(* The two programs agree *)

LEMMA SameOccupancy ==
  ASSUME IInv, NEW r \in Room PROVE queryState(log, r) = rooms_occupancy(r)
<1>1. log \in Seq(Entry) /\ Computes(state, log, Len(log)) /\ Len(log) \in Nat
  BY DEF IInv, TypeOK, Reached
<1>2. queryState(log, r) = {w \in Person : PlacedAt(log, Len(log), w, r)} BY <1>1, StateIs
<1>3. \A w \in Person : PlacedAt(log, Len(log), w, r) <=> state.loc[w] = r BY <1>1, PlacedNow
<1> QED BY <1>2, <1>3 DEF rooms_occupancy

LEMMA SameRoomHistory ==
  ASSUME IInv, SameHistory, NEW w \in Person
  PROVE  queryRoomHistory(log, w) = IF room_history(w) = NoHistory THEN << >> ELSE room_history(w)
<1>1. log \in Seq(Entry) /\ rooms[w] \in Seq(Room) BY DEF IInv, TypeOK
<1>2. rooms[w] = queryRoomHistory(log, w) BY DEF SameHistory
<1>3. rooms[w] # NoHistory BY <1>1, QNullsAssumption
<1>4. CASE Named(w) BY <1>2, <1>3, <1>4 DEF room_history
<1>5. CASE ~ Named(w)
  <2>1. PICK those : those = Those(log, Arrivals(w)) OBVIOUS
  <2>2. /\ those \in Seq(Entry)
        /\ \A x : (\E p \in 1..Len(those) : those[p] = x) <=>
                  (x \in Arrivals(w) /\ \E q \in 1..Len(log) : log[q] = x)
    BY <1>1, <2>1, ThoseElements
  <2>3. \A p \in 1..Len(those) : FALSE
    <3>1. ASSUME NEW p \in 1..Len(those) PROVE FALSE
      <4>1. those[p] \in Arrivals(w) /\ \E q \in 1..Len(log) : log[q] = those[p] BY <2>2
      <4> QED BY <1>5, <4>1 DEF Named, Arrivals
    <3> QED BY <3>1
  <2>4. those = << >>
    <3>1. Len(those) \in Nat /\ (Len(those) # 0 => 1 \in 1..Len(those)) BY <2>2
    <3> QED BY <2>2, <2>3, <3>1
  <2>5. queryRoomHistory(log, w) = [i \in 1..Len(those) |-> those[i].room] BY <2>1, HistoryDef
  <2>6. queryRoomHistory(log, w) = << >> BY <2>4, <2>5
  <2> QED BY <1>5, <2>6 DEF room_history
<1> QED BY <1>4, <1>5

LEMMA SameIntersection ==
  ASSUME IInv, BeforeMax, NEW v \in Person, NEW w \in Person,
         EverInRoom(v), EverInRoom(w)
  PROVE  queryIntersection(log, <<v, w>>) = intersection_query({v, w})
<1>1. History BY IsHistory
<1>2. PICK wanted : wanted = <<v, w>> OBVIOUS
<1>3. wanted \in Seq(Person) /\ Persons(wanted) = {v, w}
  <2>1. wanted \in Seq(Person) /\ Len(wanted) = 2 /\ wanted[1] = v /\ wanted[2] = w BY <1>2
  <2>2. \A i \in 1..2 : i = 1 \/ i = 2 OBVIOUS
  <2>3. 1 \in 1..2 /\ 2 \in 1..2 OBVIOUS
  <2> QED BY <2>1, <2>2, <2>3 DEF Persons
<1>4. ASSUME NEW x \in Person, EverInRoom(x) PROVE Named(x)
  <2>1. PICK n \in 1..Len(log), r \in Room : PlacedAt(log, n, x, r)
    BY <1>4 DEF EverInRoom, InRoom
  <2>2. PICK i \in 1..n : log[i].who = x
    BY <2>1, PlaceAssumption DEF PlacedAt, LastAbout
  <2>3. i \in 1..Len(log)
    <3>1. Len(log) \in Nat BY <1>1 DEF History
    <3> QED BY <2>2, <3>1
  <2> QED BY <2>2, <2>3 DEF Named
<1>5. {x \in Persons(wanted) : Named(x)} = {v, w} BY <1>3, <1>4
<1>6. queryIntersection(log, wanted) =
        {r \in Room : {v, w} # {} /\ \E n \in 1..Len(log) : \A x \in {v, w} : InRoom(x, r, n)}
  BY <1>1, <1>3, <1>5, JavaIntersection
<1>7. intersection_query({v, w}) = {r \in Room : {v, w} # {} /\ Together({v, w}, r)}
  <2>1. {v, w} \in SUBSET Person /\ {x \in {v, w} : EverInRoom(x)} = {v, w} OBVIOUS
  <2> QED BY <2>1, IntersectionExactIf DEF IntersectionExact
<1>8. \A r \in Room : Together({v, w}, r) <=>
                        \E n \in 1..Len(log) : \A x \in {v, w} : InRoom(x, r, n)
  BY DEF Together, BeforeMax
<1> QED BY <1>2, <1>6, <1>7, <1>8

LEMMA AnswersAgreeIf == IInv /\ SameHistory => AnswersAgree
<1> SUFFICES ASSUME IInv, SameHistory PROVE AnswersAgree OBVIOUS
<1>1. \A r \in Room : queryState(log, r) = rooms_occupancy(r) BY SameOccupancy
<1>2. \A w \in Person : queryRoomHistory(log, w) =
        IF room_history(w) = NoHistory THEN << >> ELSE room_history(w)
  BY SameRoomHistory
<1>3. BeforeMax => \A v, w \in Person :
        v # w /\ EverInRoom(v) /\ EverInRoom(w) =>
          queryIntersection(log, <<v, w>>) = intersection_query({v, w})
  BY SameIntersection
<1> QED BY <1>1, <1>2, <1>3 DEF AnswersAgree

(* Rust and Java answer -S, -R and -I about two persons alike. *)
THEOREM QueryAnswersAgree == Spec => []AnswersAgree
BY Invariance, SameHistoryInvariant, AnswersAgreeIf, PTL
===============================================================================
