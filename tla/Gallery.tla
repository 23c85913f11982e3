------------------------------- MODULE Gallery -------------------------------
(* The gallery domain of src/gallery-log/src/lib.rs: log entries, the state    *)
(* machine that every entry is replayed through (GalleryState), and a          *)
(* declarative account of what a log says that does not replay anything.       *)
EXTENDS Integers, Sequences

CONSTANTS
  Person,   \* the (PersonType, name) pairs: keys of the two HashMaps together
  Room,     \* room numbers (u32)
  NoRoom,   \* Option::None as a room: the gallery itself, outside every room
  Absent,   \* no key in the HashMap: the person is not in the gallery
  MaxTs     \* u64::MAX, the largest timestamp the parser accepts

ASSUME PlaceAssumption == NoRoom \notin Room /\ Absent \notin Room \cup {NoRoom}
ASSUME MaxTsAssumption == MaxTs \in Nat \ {0}

Place == Room \cup {NoRoom, Absent}

\* parse_args refuses the timestamp 0.
Entry == [timestamp: 1..MaxTs, who: Person,
          action: {"Arrival", "Departure"}, room: Room \cup {NoRoom}]

GalleryState == [loc: [Person -> Place], last_timestamp: 0..MaxTs, has_entries: BOOLEAN]

EmptyState == [loc |-> [w \in Person |-> Absent], last_timestamp |-> 0, has_entries |-> FALSE]

\* The place one walks in from when entering `room`, and back to when leaving it.
Outside(room) == IF room = NoRoom THEN Absent ELSE NoRoom

\* The transition an entry stands for: the arm of the match in apply().
From(e) == IF e.action = "Arrival" THEN Outside(e.room) ELSE e.room
To(e)   == IF e.action = "Arrival" THEN e.room ELSE Outside(e.room)

\* Mutant of CanApply: time is checked, the transition is not.
CanApplyAnywhere(st, e) == st.has_entries => e.timestamp > st.last_timestamp

\* apply() returns Ok(())
CanApply(st, e) == /\ st.has_entries => e.timestamp > st.last_timestamp
                   /\ st.loc[e.who] = From(e)

\* Mutant of Applied: the state keeps the next timestamp it would accept.
AppliedNext(st, e) == [loc            |-> [st.loc EXCEPT ![e.who] = To(e)],
                       last_timestamp |-> e.timestamp + 1,
                       has_entries    |-> TRUE]

\* the state apply() leaves when it returns Ok(())
Applied(st, e) == [loc            |-> [st.loc EXCEPT ![e.who] = To(e)],
                   last_timestamp |-> e.timestamp,
                   has_entries    |-> TRUE]

------------------------------------------------------------------------------
(* What a log says, without replaying it: where its first n entries put a      *)
(* person is decided by the last of them that is about this person.            *)

LastAbout(es, n, w, i) == /\ i \in 1..n
                          /\ es[i].who = w
                          /\ \A j \in (i+1)..n : es[j].who # w

PlacedAt(es, n, w, pl) ==
  \/ pl = Absent /\ \A i \in 1..n : es[i].who # w
  \/ \E i \in 1..n : LastAbout(es, n, w, i) /\ pl = To(es[i])

\* Entry e may follow the first n entries of es.
Follows(es, n, e) == /\ n > 0 => e.timestamp > es[n].timestamp
                     /\ PlacedAt(es, n, e.who, From(e))

\* Every entry of the log was legal when it was written.
ValidLog(es) == \A i \in 1..Len(es) : Follows(es, i-1, es[i])

\* st is the state the first n entries of es lead to.
Computes(st, es, n) == /\ \A w \in Person : PlacedAt(es, n, w, st.loc[w])
                       /\ st.has_entries <=> n > 0
                       /\ st.last_timestamp = IF n = 0 THEN 0 ELSE es[n].timestamp

------------------------------------------------------------------------------
(* A helper of the queries. *)

\* The elements of s that are in T, in their order.
Those(s, T) ==
  LET those[k \in 0..Len(s)] ==
        IF k = 0 THEN << >>
        ELSE IF s[k] \in T THEN Append(those[k-1], s[k]) ELSE those[k-1]
  IN  those[Len(s)]
==============================================================================
