------------------------------- MODULE Ledger -------------------------------
(***************************************************************************)
(* What a rider's prepaid balance promises: every movement is one entry,   *)
(* an entry is never changed or removed, each source (a top-up, an         *)
(* operator's form, a job) moves the balance once, and the balance moves   *)
(* by exactly what the entry says. Wallet is shown to implement it.        *)
(***************************************************************************)
EXTENDS Integers

CONSTANT Accounts

VARIABLES
  funds,     \* the balance of each account
  postings   \* the movements posted so far

Posting(e) ==
  /\ \A p \in postings : p.source # e.source
  /\ postings' = postings \cup {e}
  /\ funds' = [funds EXCEPT ![e.account] = @ + e.amount]

LedgerInit ==
  /\ funds = [a \in Accounts |-> 0]
  /\ postings = {}

LedgerNext == \E e \in postings' \ postings : Posting(e)

LedgerSpec == LedgerInit /\ [][LedgerNext]_<<funds, postings>>
=============================================================================
