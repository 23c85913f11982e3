----------------------------- MODULE JavaQueries -----------------------------
(* The queries of the Java LogRead (G01/SRSD_GalleryLog, GalleryQuery.java) as  *)
(* functions of the log. -I keeps for every room the times at which all those   *)
(* looked at so far were in it, a list of intervals that is intersected with    *)
(* the next person's and merged. The checks along the way throw on no valid log. *)
(* MaxTs is Constants.MAX_TIMESTAMP here.                                       *)
EXTENDS Gallery

Forever == MaxTs + 1     \* Long.MAX_VALUE

\* The rooms' lines of -S: validateAndApply leaves everybody somewhere.
queryState(es, r) ==
  LET sm[n \in 0..Len(es)] == IF n = 0 THEN EmptyState ELSE Applied(sm[n-1], es[n])
  IN  {w \in Person : sm[Len(es)].loc[w] = r}

queryRoomHistory(es, w) ==
  LET arrivals == Those(es, {e \in Entry : e.who = w /\ e.room # NoRoom /\ e.action = "Arrival"})
  IN  [i \in 1..Len(arrivals) |-> arrivals[i].room]

\* The visit begun by entry i ends with the next departure from the same room.
leave(es, i) ==
  LET later == {j \in (i+1)..Len(es) : es[j].who = es[i].who /\ es[j].room = es[i].room} IN
  IF later = {} THEN Forever
  ELSE es[CHOOSE j \in later : \A k \in later : j <= k].timestamp

\* Mutant of intervalsInRoom: a visit is listed when it ends.
intervalsEnded(es, w, r) ==
  {[lo |-> es[i].timestamp, hi |-> leave(es, i)] :
     i \in {j \in 1..Len(es) : /\ es[j].who = w /\ es[j].room = r /\ es[j].action = "Arrival"
                              /\ leave(es, j) # Forever}}

intervalsInRoom(es, w, r) ==
  {[lo |-> es[i].timestamp, hi |-> leave(es, i)] :
     i \in {j \in 1..Len(es) : es[j].who = w /\ es[j].room = r /\ es[j].action = "Arrival"}}

\* Taken in the order of their starts, x is merged into none of those before it: they
\* have all ended.
Begins(raw, x) == \A y \in raw : y.lo < x.lo => y.hi < x.lo

\* Those merged into what x begins: all until the next that begins something.
Merged(raw, x) == {y \in raw : /\ x.lo <= y.lo
                               /\ \A z \in raw : Begins(raw, z) => z.lo <= x.lo \/ y.lo < z.lo}

mergeIntervals(raw) ==
  {[lo |-> x.lo,
    hi |-> (CHOOSE y \in Merged(raw, x) : \A z \in Merged(raw, x) : z.hi <= y.hi).hi] :
     x \in {y \in raw : Begins(raw, y)}}

\* Mutant of Overlap: the later end is taken.
OverlapLate(x, y) ==
  [lo |-> IF x.lo > y.lo THEN x.lo ELSE y.lo, hi |-> IF x.hi > y.hi THEN x.hi ELSE y.hi]

Overlap(x, y) ==
  [lo |-> IF x.lo > y.lo THEN x.lo ELSE y.lo, hi |-> IF x.hi < y.hi THEN x.hi ELSE y.hi]

intersectIntervalLists(a, b) ==
  mergeIntervals({o \in {Overlap(x, y) : x \in a, y \in b} : o.lo <= o.hi})

\* Everybody has been to the room; then the persons of ws one after the other.
hasNonEmptyIntersection(es, ws, r) ==
  LET lists == [i \in 1..Len(ws) |-> intervalsInRoom(es, ws[i], r)]
      cur[i \in 1..Len(ws)] == IF i = 1 THEN lists[1]
                               ELSE intersectIntervalLists(cur[i-1], lists[i])
  IN  (\A i \in 1..Len(ws) : lists[i] # {}) /\ cur[Len(ws)] # {}

\* wanted: the persons asked about, in the order given. The log must name them.
queryIntersection(es, wanted) ==
  LET active == Those(wanted, {es[i].who : i \in 1..Len(es)})
      allRooms == {es[i].room : i \in 1..Len(es)} \ {NoRoom}
  IN  IF active = << >> THEN {} ELSE {r \in allRooms : hasNonEmptyIntersection(es, active, r)}
===============================================================================
