--------------------------- MODULE MCGalleryQueries ---------------------------
(* Instances of GalleryQueries and QueryAgreement: three visitors.             *)
EXTENDS QueryAgreement, TLC
LOCAL INSTANCE SequencesExt
LOCAL INSTANCE FiniteSetsExt

\* Nothing distinguishes one person, or one room, from another.
Symmetry == Permutations(Person) \cup Permutations(Room)

\* Only the order of entries matters, and whether the last one is at u64::MAX.
Dense == \A i \in 1..Len(log)-1 : log[i].timestamp = i

\* mergeIntervals as the loop does it: taken in the order of their starts, an interval
\* that starts before the last one ends extends it.
MergeLoop(raw) ==
  LET sorted == SetToSortSeq(raw, LAMBDA x, y : x.lo < y.lo)
      step(merged, x) ==
        LET last == Last(merged) IN
        IF merged # << >> /\ x.lo <= last.hi
          THEN Append(Front(merged), [last EXCEPT !.hi = IF x.hi > @ THEN x.hi ELSE @])
          ELSE Append(merged, x)
  IN  ToSet(FoldLeft(step, << >>, sorted))

\* The loop leaves what JavaQueries says it leaves.
ASSUME MergesAsTheLoop ==
  \A k \in 0..3 : \A raw \in kSubset(k, {x \in [lo : 1..5, hi : 1..5] : x.lo <= x.hi}) :
    mergeIntervals(raw) = MergeLoop(raw)
================================================================================
