----------------------------- MODULE FragileLedger -----------------------------
(* What a log promises that is written without a lock: as Ledger, except that   *)
(* it may be lost. Until then it is an append-only history under one token that *)
(* holds everything acknowledged, and readers are answered from all of it; once *)
(* it is lost nobody is answered from it again, and it does not come back.      *)
EXTENDS Gallery

CONSTANTS Logs, Tokens, Readers, Lost, NoAnswer,
          Commands   \* what may be submitted: [log, token, entry]

VARIABLES ledger,  \* log -> sequence of [token, entry], or Lost
          acked,   \* log -> the entries reported as appended
          answer   \* reader -> the entries it was answered from

ledgerVars == <<ledger, acked, answer>>

EntriesOf(contents) == [i \in 1..Len(contents) |-> contents[i].entry]
Under(contents, k)  == \A i \in 1..Len(contents) : contents[i].token = k

LedgerInit == /\ ledger = [l \in Logs |-> << >>]
              /\ acked  = [l \in Logs |-> {}]
              /\ answer = [p \in Readers |-> NoAnswer]

\* The writer is told, or dies first.
Reported(c) == acked' \in {acked, [acked EXCEPT ![c.log] = @ \cup {c.entry}]}

Commit(c) ==
  /\ ledger[c.log] # Lost
  /\ Under(ledger[c.log], c.token)
  /\ Follows(EntriesOf(ledger[c.log]), Len(ledger[c.log]), c.entry)
  /\ ledger' = [ledger EXCEPT ![c.log] = Append(@, [token |-> c.token, entry |-> c.entry])]
  /\ Reported(c)
  /\ UNCHANGED answer

\* A writer destroys the log, or goes on writing to a lost one, and may not notice.
Lose(c) == /\ ledger' = [ledger EXCEPT ![c.log] = Lost]
           /\ Reported(c)
           /\ UNCHANGED answer

Query(p, l, k) == /\ ledger[l] # Lost
                  /\ Under(ledger[l], k)
                  /\ answer' = [answer EXCEPT ![p] = EntriesOf(ledger[l])]
                  /\ UNCHANGED <<ledger, acked>>

LedgerNext == \/ \E c \in Commands : Commit(c) \/ Lose(c)
              \/ \E p \in Readers, l \in Logs, k \in Tokens : Query(p, l, k)

LedgerSpec == LedgerInit /\ [][LedgerNext]_ledgerVars
================================================================================
