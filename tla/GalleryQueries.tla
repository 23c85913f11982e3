---------------------------- MODULE GalleryQueries ----------------------------
(* The queries of logread (src/gallery-log/src/lib.rs): who is where, the room *)
(* history of a person, the rooms several persons shared. Each is one pass     *)
(* over the log that leaves accumulators behind, and an answer drawn from them *)
(* when the log ends. A step takes one more entry through the loops of all     *)
(* three; the log may end after any step. Every entry is one that logappend    *)
(* accepted (GalleryLog!LogReplays), so that the log is any valid log.         *)
EXTENDS Gallery

CONSTANTS
  Nowhere,     \* no key in `cur`
  NoHistory    \* None: the log does not know the person

ASSUME QNullsAssumption == /\ Nowhere \notin [room: Room, since: 1..MaxTs]
                           /\ NoHistory \notin Seq(Room)

\* (room, enter_ts, leave_ts)
Iv == [room: Room, enter: 1..MaxTs, leave: 1..MaxTs]

VARIABLES
  log,        \* the entries taken so far
  state,      \* compute_state's
  cur,        \* intersection_query's: the room a person is in, and since when
  intervals,  \* intersection_query's: person -> closed visits
  rooms       \* room_history's, for every person one could ask about

vars == <<log, state, cur, intervals, rooms>>

Init == /\ log       = << >>
        /\ state     = EmptyState
        /\ cur       = [w \in Person |-> Nowhere]
        /\ intervals = [w \in Person |-> {}]
        /\ rooms     = [w \in Person |-> << >>]

\* The match in intersection_query's loop ignores the gallery's own door.
AtDoor(e) == e.room = NoRoom /\ UNCHANGED <<cur, intervals, rooms>>

EnterRoom(e) ==
  /\ e.action = "Arrival" /\ e.room # NoRoom
  /\ cur'   = [cur EXCEPT ![e.who] = [room |-> e.room, since |-> e.timestamp]]
  /\ rooms' = [rooms EXCEPT ![e.who] = Append(@, e.room)]
  /\ UNCHANGED intervals

Visit(w, leave) == [room |-> cur[w].room, enter |-> cur[w].since, leave |-> leave]

\* Mutant of LeaveRoom: the visit is looked up in `cur`, not removed from it.
LeaveRoomKeeps(e) ==
  /\ e.action = "Departure" /\ e.room # NoRoom
  /\ intervals' = [intervals EXCEPT ![e.who] =
                     IF cur[e.who] = Nowhere THEN @ ELSE @ \cup {Visit(e.who, e.timestamp)}]
  /\ UNCHANGED <<cur, rooms>>

\* Mutant of LeaveRoom: the visit is closed one tick late.
LeaveRoomLate(e) ==
  /\ e.action = "Departure" /\ e.room # NoRoom
  /\ intervals' = [intervals EXCEPT ![e.who] =
                     IF cur[e.who] = Nowhere THEN @ ELSE @ \cup {Visit(e.who, e.timestamp + 1)}]
  /\ cur' = [cur EXCEPT ![e.who] = Nowhere]
  /\ UNCHANGED rooms

\* `cur.remove(&k)`: whatever room the entry names, the visit that ends is cur's.
LeaveRoom(e) ==
  /\ e.action = "Departure" /\ e.room # NoRoom
  /\ intervals' = [intervals EXCEPT ![e.who] =
                     IF cur[e.who] = Nowhere THEN @ ELSE @ \cup {Visit(e.who, e.timestamp)}]
  /\ cur' = [cur EXCEPT ![e.who] = Nowhere]
  /\ UNCHANGED rooms

Take(e) == /\ CanApply(state, e)
           /\ log'   = Append(log, e)
           /\ state' = Applied(state, e)
           /\ AtDoor(e) \/ EnterRoom(e) \/ LeaveRoom(e)

Next == \E e \in Entry : Take(e)

Spec == Init /\ [][Next]_vars

------------------------------------------------------------------------------
(* The answers, as if the log ended here.                                      *)

Named(w) == \E i \in 1..Len(log) : log[i].who = w

\* The rooms in the order entered.
room_history(w) == IF Named(w) THEN rooms[w] ELSE NoHistory

rooms_occupancy(r) == {w \in Person : state.loc[w] = r}

\* Mutant of Visits: those still in a room when the log ends are left out.
VisitsClosed(w) == intervals[w]

\* Anyone still in a room when the log ends stays until u64::MAX.
Visits(w) == intervals[w] \cup IF cur[w] = Nowhere THEN {} ELSE {Visit(w, MaxTs)}

(* overlaps() tries every choice of one visit per person; the window, from the *)
(* latest enter to the earliest leave and within [0, u64::MAX], must not be    *)
(* empty.                                                                      *)
overlaps(ws, r) ==
  \E pick \in [ws -> UNION {Visits(w) : w \in ws}] :
    /\ \A w \in ws : pick[w] \in Visits(w) /\ pick[w].room = r
    /\ \A v, w \in ws : pick[v].enter < pick[w].leave
    /\ \A w \in ws : pick[w].enter < MaxTs

\* A target is known if it has visits: intervals.get() knows nobody else.
intersection_query(targets) ==
  LET known_targets == {w \in targets : Visits(w) # {}} IN
  IF known_targets = {} THEN {} ELSE {r \in Room : overlaps(known_targets, r)}

------------------------------------------------------------------------------
(* What the answers should be, told from the log without any accumulator.      *)

InRoom(w, r, n) == PlacedAt(log, n, w, r)

\* At some moment before u64::MAX everybody in ws was in r.
Together(ws, r) == \E n \in 1..Len(log) : /\ log[n].timestamp < MaxTs
                                          /\ \A w \in ws : InRoom(w, r, n)

EverInRoom(w) == \E n \in 1..Len(log), r \in Room : InRoom(w, r, n)

\* No entry carries u64::MAX, the time that also stands for `not yet`.
BeforeMax == \A i \in 1..Len(log) : log[i].timestamp < MaxTs

\* Type invariant.
TypeOK ==
  /\ log \in Seq(Entry)
  /\ state \in GalleryState
  /\ cur \in [Person -> [room: Room, since: 1..MaxTs] \cup {Nowhere}]
  /\ intervals \in [Person -> SUBSET Iv]
  /\ rooms \in [Person -> Seq(Room)]

(* -I: the visits and their overlap report exactly the rooms in which, at one  *)
(* moment before u64::MAX, all those asked about who were ever in a room were  *)
(* together; visits that merely follow each other, overlaps by pairs only,     *)
(* visits that have not ended and visits begun at the largest timestamp make   *)
(* no difference.                                                              *)
IntersectionExact ==
  \A targets \in SUBSET Person :
    LET ws == {w \in targets : EverInRoom(w)} IN
    intersection_query(targets) = {r \in Room : ws # {} /\ Together(ws, r)}

(* -R and -I agree about one person: the rooms in its history are the rooms it *)
(* shared with itself.                                                         *)
HistoryMeetsIntersection ==
  BeforeMax => \A w \in Person :
    intersection_query({w}) = {r \in Room : \E i \in 1..Len(rooms[w]) : rooms[w][i] = r}

(* -S, -R and -I tell one story, and it is the log's: a person is listed in a  *)
(* room exactly if the entries so far put the person there; then, and only      *)
(* then, intersection_query has an unfinished visit to that room, counted from  *)
(* an entry since which the person has not left it; and -R names the room.      *)
OccupancyMatches ==
  \A w \in Person, r \in Room :
    LET here == InRoom(w, r, Len(log)) IN
    /\ w \in rooms_occupancy(r) <=> here
    /\ here <=> cur[w] # Nowhere /\ cur[w].room = r
    /\ here => /\ \E i \in 1..Len(log) : /\ log[i].timestamp = cur[w].since
                                         /\ \A n \in i..Len(log) : InRoom(w, r, n)
               /\ room_history(w) # NoHistory
               /\ \E i \in 1..Len(room_history(w)) : room_history(w)[i] = r

(* The doc comment of intersection_query: the rooms occupied by ALL specified  *)
(* persons at the same time, persons not present in the log being ignored.     *)
IntersectionAsDocumented ==
  BeforeMax =>
    \A targets \in SUBSET Person :
      LET ws == {w \in targets : Named(w)} IN
      intersection_query(targets) = {r \in Room : ws # {} /\ Together(ws, r)}
===============================================================================
