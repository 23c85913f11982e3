------------------------------- MODULE CQueries -------------------------------
(* The queries of the C logread (G21/proj1SRSD/logread.c). process_line keeps, *)
(* for everybody the log names, where they are and the visits they paid to     *)
(* rooms; -S prints the former, -R the latter, and -I tries to fit one visit   *)
(* of everybody asked about into a common window. A step takes one more entry; *)
(* the log may end after any of them. It is a valid log (CLog!CleanLogLoads).  *)
EXTENDS Gallery

CONSTANTS
  Unknown,    \* find_person() = -1
  Open,       \* leave_time = -1
  Shut,       \* no window: some person has no visit that meets it
  MaxAsked    \* bound: persons in an -I query

ASSUME MaxAskedAssumption == MaxAsked \in Nat

INT_MAX == MaxTs + 1    \* beyond any timestamp the parser accepts

RoomInterval == [room: Room, enter: 1..MaxTs, leave: (1..MaxTs) \cup {Open}]
PersonRec == [in_gallery: BOOLEAN, current_room: Room \cup {NoRoom}, history: Seq(RoomInterval)]
Window == [enter: 1..MaxTs, leave: 1..INT_MAX]

ASSUME CQueryNullsAssumption ==
  Unknown \notin PersonRec /\ Open \notin 1..MaxTs /\ Shut \notin Window

VARIABLES
  log,      \* the entries taken so far
  state,    \* where logappend's checks had everybody (Gallery)
  people    \* logread's table

vars == <<log, state, people>>

Init == /\ log    = << >>
        /\ state  = EmptyState
        /\ people = [w \in Person |-> Unknown]

\* find_person, or add_person.
Found(w) == IF people[w] = Unknown
              THEN [in_gallery |-> FALSE, current_room |-> NoRoom, history |-> << >>]
              ELSE people[w]

\* What the line of entry e says: in_gallery and room_id after it.
InGallery(e) == To(e) # Absent
RoomId(e)    == IF To(e) \in Room THEN To(e) ELSE NoRoom

SetPerson(e, history) ==
  people' = [people EXCEPT ![e.who] =
    [in_gallery |-> InGallery(e), current_room |-> RoomId(e), history |-> history]]

EnterRoom(e) ==
  /\ RoomId(e) # NoRoom /\ Found(e.who).current_room # RoomId(e)
  /\ SetPerson(e, Append(Found(e.who).history,
                         [room |-> RoomId(e), enter |-> e.timestamp, leave |-> Open]))

\* The latest visit without an end gets one.
Closed(history, ts) ==
  LET opened == {j \in 1..Len(history) : history[j].leave = Open} IN
  IF opened = {} THEN history
  ELSE LET last == CHOOSE j \in opened : \A k \in opened : k <= j
       IN  [history EXCEPT ![last].leave = ts]

\* Mutant of LeaveRoom: the visit ends one tick late.
LeaveRoomLate(e) ==
  /\ RoomId(e) = NoRoom /\ Found(e.who).current_room # NoRoom
  /\ SetPerson(e, Closed(Found(e.who).history, e.timestamp + 1))

\* Mutant of LeaveRoom: current_room is left alone.
LeaveRoomStays(e) ==
  /\ RoomId(e) = NoRoom /\ Found(e.who).current_room # NoRoom
  /\ people' = [people EXCEPT ![e.who].history = Closed(@, e.timestamp)]

LeaveRoom(e) ==
  /\ RoomId(e) = NoRoom /\ Found(e.who).current_room # NoRoom
  /\ SetPerson(e, Closed(Found(e.who).history, e.timestamp))

\* At the gallery's door, or a room entered from itself.
SameRoom(e) ==
  /\ Found(e.who).current_room = RoomId(e)
  /\ SetPerson(e, Found(e.who).history)

Take(e) == /\ CanApply(state, e)
           /\ log'   = Append(log, e)
           /\ state' = Applied(state, e)
           /\ EnterRoom(e) \/ LeaveRoom(e) \/ SameRoom(e)

Next == \E e \in Entry : Take(e)

Spec == Init /\ [][Next]_vars

------------------------------------------------------------------------------
(* The answers, as if the log ended here.                                      *)

Inside(w) == people[w] # Unknown /\ people[w].in_gallery

\* -S: everybody in the gallery, and a line for each room with somebody in it.
print_state ==
  LET occupied == {people[w].current_room : w \in {v \in Person : Inside(v)}} \ {NoRoom} IN
  [inside |-> {w \in Person : Inside(w)},
   rooms  |-> {[room |-> r, who |-> {w \in Person : Inside(w) /\ people[w].current_room = r}] :
                 r \in occupied}]

\* find_person() # -1
Known == {w \in Person : people[w] # Unknown}

\* -R prints no line at all for somebody it does not know.
print_rooms_visited(w) ==
  IF people[w] = Unknown THEN Unknown
  ELSE [i \in 1..Len(people[w].history) |-> people[w].history[i].room]

\* Mutant of LeaveTime: -1 is taken for a time.
LeaveTimeRaw(iv) == IF iv.leave = Open THEN 0 ELSE iv.leave

LeaveTime(iv) == IF iv.leave = Open THEN INT_MAX ELSE iv.leave

RoomsOf(w) == {people[w].history[i].room : i \in 1..Len(people[w].history)}

\* The visits of w to r that meet the window win.
Meeting(w, r, win) ==
  LET h == people[w].history IN
  {j \in 1..Len(h) : /\ h[j].room = r
                     /\ h[j].enter < win.leave
                     /\ LeaveTime(h[j]) > win.enter}

\* Mutant of Narrowed: everybody is compared with the first person only.
NarrowedNot(win, w, r) == IF Meeting(w, r, win) = {} THEN Shut ELSE win

\* The window is narrowed to the first visit that meets it; no other is tried.
Narrowed(win, w, r) ==
  IF Meeting(w, r, win) = {} THEN Shut
  ELSE LET j  == CHOOSE j \in Meeting(w, r, win) : \A k \in Meeting(w, r, win) : j <= k
           iv == people[w].history[j]
       IN  [enter |-> IF iv.enter > win.enter THEN iv.enter ELSE win.enter,
            leave |-> IF LeaveTime(iv) < win.leave THEN LeaveTime(iv) ELSE win.leave]

\* ws: the persons asked about that were found, in the order they were named.
check_simultaneous(r, ws) ==
  LET h == people[ws[1]].history IN
  \E i \in 1..Len(h) :
    LET window[k \in 1..Len(ws)] ==
          IF k = 1 THEN [enter |-> h[i].enter, leave |-> LeaveTime(h[i])]
          ELSE IF window[k-1] = Shut THEN Shut
          ELSE Narrowed(window[k-1], ws[k], r)
    IN  h[i].room = r /\ window[Len(ws)] # Shut

\* Nobody found: nothing; one person: their rooms; else the rooms they shared.
print_intersection(asked) ==
  LET ws == Those(asked, Known) IN
  CASE ws = << >>  -> {}
    [] Len(ws) = 1 -> RoomsOf(ws[1])
    [] OTHER       -> {r \in UNION {RoomsOf(ws[p]) : p \in 1..Len(ws)} :
                         check_simultaneous(r, ws)}

------------------------------------------------------------------------------
Asked == UNION {[1..n -> Person] : n \in 1..MaxAsked}

\* Those of the persons asked about that the log names.
Present(asked) == {w \in Person : /\ \E p \in 1..Len(asked) : asked[p] = w
                                  /\ \E i \in 1..Len(log) : log[i].who = w}

\* At some moment everybody in ws was in r.
Together(ws, r) == \E n \in 1..Len(log) : \A w \in ws : PlacedAt(log, n, w, r)

Shared(asked) == {r \in Room : Present(asked) # {} /\ Together(Present(asked), r)}

\* Type invariant.
TypeOK ==
  /\ log \in Seq(Entry)
  /\ state \in GalleryState
  /\ people \in [Person -> PersonRec \cup {Unknown}]

(* The table of visits and the places agree with the log: everybody's last      *)
(* visit is the only one that may lack an end, and lacks it exactly while they  *)
(* are in that room.                                                            *)
VisitsMatchPlaces ==
  \A w \in Person :
    IF people[w] = Unknown THEN PlacedAt(log, Len(log), w, Absent)
    ELSE LET h == people[w].history IN
         /\ \A i \in 1..Len(h) : h[i].leave = Open => i = Len(h)
         /\ \A r \in Room : PlacedAt(log, Len(log), w, r) <=>
              h # << >> /\ h[Len(h)].leave = Open /\ h[Len(h)].room = r

(* -S, told from accumulators that only ever look at changes, lists exactly     *)
(* those the log leaves in the gallery, and every occupied room once, with      *)
(* everybody the log leaves there.                                              *)
StateMatchesLog ==
  LET at(r) == {w \in Person : PlacedAt(log, Len(log), w, r)} IN
  print_state = [inside |-> Person \ at(Absent),
                 rooms  |-> {[room |-> r, who |-> at(r)] : r \in {q \in Room : at(q) # {}}}]

(* -R lists every visit there was, in the order of the log, also of somebody    *)
(* who goes back to the room they have just left: no entry is mistaken for one  *)
(* that changes nothing. It is silent about those the log does not name.        *)
HistoryComplete ==
  \A w \in Person :
    LET es == Those(log, {e \in Entry : e.who = w /\ e.action = "Arrival" /\ e.room # NoRoom})
    IN  print_rooms_visited(w) =
          IF \A i \in 1..Len(log) : log[i].who # w
            THEN Unknown
            ELSE [i \in 1..Len(es) |-> es[i].room]

(* -I never reports a room in which those asked about were not all together at  *)
(* one moment, however many they are and in whatever order they are named.      *)
IntersectionSound == \A asked \in Asked : print_intersection(asked) \subseteq Shared(asked)

(* -I with at most two persons the log names reports every room they shared.    *)
PairsComplete ==
  \A asked \in Asked :
    Len(Those(asked, Known)) <= 2 =>
      Shared(asked) \subseteq print_intersection(asked)

(* The comment of check_simultaneous: whether all the people specified were     *)
(* simultaneously in the room.                                                  *)
IntersectionComplete ==
  \A asked \in Asked : Shared(asked) \subseteq print_intersection(asked)
===============================================================================
