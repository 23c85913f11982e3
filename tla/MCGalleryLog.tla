----------------------------- MODULE MCGalleryLog -----------------------------
(* Instances of GalleryLog: one visitor, one room, one log, two tokens.        *)
EXTENDS GalleryLog, TLC

CONSTANTS alice, r1, l1, k1, k2

\* Single processes are interchangeable: all of them may fail and be killed.
SingleSymmetry == Permutations(Singles)

In(ts)      == [timestamp |-> ts, who |-> alice, action |-> "Arrival",   room |-> NoRoom]
Enter(ts)   == [timestamp |-> ts, who |-> alice, action |-> "Arrival",   room |-> r1]
Leave(ts)   == [timestamp |-> ts, who |-> alice, action |-> "Departure", room |-> r1]
Cmd(l, k, e) == [log |-> l, key |-> k, entry |-> e]

\* A visit that is legal in one order only, a stale timestamp, a wrong token.
SafetyCommands == { Cmd(l1, k1, In(1)), Cmd(l1, k1, Enter(3)), Cmd(l1, k1, Leave(5)),
                    Cmd(l1, k2, In(1)) }
SafetyQueries == { [log |-> l1, key |-> k1, mode |-> "State"],
                   [log |-> l1, key |-> k1, mode |-> "RoomHistory"] }
================================================================================
