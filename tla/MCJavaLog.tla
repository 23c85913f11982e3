------------------------------ MODULE MCJavaLog ------------------------------
(* Instances of JavaLog: one visitor, one log, two tokens.                     *)
EXTENDS JavaLog, TLC

CONSTANTS alice, r1, l1, k1, k2

In(ts)    == [timestamp |-> ts, who |-> alice, action |-> "Arrival", room |-> NoRoom]
Enter(ts) == [timestamp |-> ts, who |-> alice, action |-> "Arrival", room |-> r1]
Cmd(k, e) == [log |-> l1, token |-> k, entry |-> e]

\* Two arrivals that are legal each and not both, then a room; a second token.
AllCommands == { Cmd(k1, In(1)), Cmd(k1, In(2)), Cmd(k1, Enter(3)), Cmd(k2, In(1)) }
AllQueries  == { [log |-> l1, token |-> k1, mode |-> m] : m \in {"S", "R"} }
===============================================================================
