-------------------------------- MODULE Ledger --------------------------------
(* What the log promises to those who run logappend and logread: each log is   *)
(* an append-only ledger under one token; an entry is committed only when it   *)
(* may follow those already there; an acknowledged entry is in the ledger for  *)
(* good; a reader is answered from the whole ledger as it was at one moment.   *)
(* Locks, files, hashes, caches and crashes are invisible at this level.       *)
EXTENDS Gallery

CONSTANTS Logs, Keys, Readers, NoAnswer

VARIABLES ledger,  \* log -> sequence of [key, entry]
          acked,   \* log -> set of [key, entry] whose logappend reported success
          answer   \* reader -> the entries it was answered from

ledgerVars == <<ledger, acked, answer>>

EntriesOf(contents) == [i \in 1..Len(contents) |-> contents[i].entry]
UnderKey(contents, k) == \A i \in 1..Len(contents) : contents[i].key = k

LedgerInit == /\ ledger = [l \in Logs |-> << >>]
              /\ acked = [l \in Logs |-> {}]
              /\ answer = [p \in Readers |-> NoAnswer]

\* The submitter may die before it learns of the commit: acked then stays.
Commit(l, k, e) ==
  /\ UnderKey(ledger[l], k)
  /\ Follows(EntriesOf(ledger[l]), Len(ledger[l]), e)
  /\ ledger' = [ledger EXCEPT ![l] = Append(@, [key |-> k, entry |-> e])]
  /\ \/ acked' = [acked EXCEPT ![l] = @ \cup {[key |-> k, entry |-> e]}]
     \/ acked' = acked
  /\ UNCHANGED answer

Query(p, l, k) ==
  /\ UnderKey(ledger[l], k)
  /\ answer' = [answer EXCEPT ![p] = [log |-> l, entries |-> EntriesOf(ledger[l])]]
  /\ UNCHANGED <<ledger, acked>>

LedgerNext == \/ \E l \in Logs, k \in Keys, e \in Entry : Commit(l, k, e)
              \/ \E p \in Readers, l \in Logs, k \in Keys : Query(p, l, k)

LedgerSpec == LedgerInit /\ [][LedgerNext]_ledgerVars
===============================================================================
