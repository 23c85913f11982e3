-------------------------------- MODULE MCCLog --------------------------------
(* Instances of CLog: one visitor, one log, given one name or two.             *)
EXTENDS CLog, TLC

CONSTANTS alice, r1, l1, path, other, k1, k2

In(ts)    == [timestamp |-> ts, who |-> alice, action |-> "Arrival", room |-> NoRoom]
Enter(ts) == [timestamp |-> ts, who |-> alice, action |-> "Arrival", room |-> r1]
Cmd(k, e) == [path |-> path, token |-> k, entry |-> e]

\* Two arrivals that are legal each and not both, then a room; a second token.
RaceCommands  == { Cmd(k1, In(1)), Cmd(k1, In(2)), Cmd(k1, Enter(3)) }
TokenCommands == RaceCommands \cup { Cmd(k2, In(1)) }
\* The log under another name, as in `a.log` and `./a.log`.
NameCommands  == RaceCommands \cup { [path |-> other, token |-> k1, entry |-> In(1)] }
AllQueries    == { [path |-> path, token |-> k1] }
OneName == [t \in {path} |-> l1]
TwoNames == [t \in {path, other} |-> l1]
================================================================================
