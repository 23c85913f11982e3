---------------------------- MODULE MCGalleryReset ----------------------------
(* Instances of GalleryReset: two logs, so that a batch changes logs.          *)
EXTENDS GalleryReset, TLC

CONSTANTS alice, r1, l1, l2, k1

In(ts)       == [timestamp |-> ts, who |-> alice, action |-> "Arrival", room |-> NoRoom]
Enter(ts)    == [timestamp |-> ts, who |-> alice, action |-> "Arrival", room |-> r1]
Cmd(l, k, e) == [log |-> l, key |-> k, entry |-> e]

TwoLogCommands == { Cmd(l1, k1, In(1)), Cmd(l1, k1, Enter(2)), Cmd(l2, k1, In(1)) }
TwoLogQueries == { [log |-> l1, key |-> k1, mode |-> "State"] }
===============================================================================
