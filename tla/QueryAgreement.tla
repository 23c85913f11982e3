---------------------------- MODULE QueryAgreement ----------------------------
(* The Rust and the Java logread asked about the same history. Rust sweeps the  *)
(* log once and tries combinations of visits, Java replays it for every person  *)
(* and room and intersects lists of intervals.                                  *)
EXTENDS GalleryQueries, JavaQueries, FiniteSets

\* The ways to ask: ReadArgs refuses no name, and a person named twice.
Wanted == UNION {{ws \in [1..n -> Person] : \A i, j \in 1..n : ws[i] = ws[j] => i = j} :
                   n \in 1..Cardinality(Person)}

Persons(ws) == {ws[i] : i \in 1..Len(ws)}

(* -I of Java reports exactly the rooms in which all those asked about that the *)
(* log names were together at one moment, in whatever order they are asked:     *)
(* merging intervals never bridges the gap between two visits, a visit that has *)
(* not ended outlasts the largest timestamp, and somebody in the log who was in *)
(* no room leaves nothing to report.                                            *)
JavaIntersectionExact ==
  \A wanted \in Wanted :
    LET ws == {w \in Persons(wanted) : Named(w)} IN
    queryIntersection(log, wanted) =
      {r \in Room : ws # {} /\ \E n \in 1..Len(log) : \A w \in ws : InRoom(w, r, n)}

(* The two programs give the same answer to -S and to -R, where Java merges an  *)
(* unknown person with one who has been in no room, and to -I for any two       *)
(* persons who were both in a room, unless a visit begins at the largest        *)
(* timestamp.                                                                   *)
AnswersAgree ==
  /\ \A r \in Room : queryState(log, r) = rooms_occupancy(r)
  /\ \A w \in Person :
       queryRoomHistory(log, w) = IF room_history(w) = NoHistory THEN << >> ELSE room_history(w)
  /\ BeforeMax => \A v, w \in Person :
       v # w /\ EverInRoom(v) /\ EverInRoom(w) =>
         queryIntersection(log, <<v, w>>) = intersection_query({v, w})
===============================================================================
