--------------------------------- MODULE Ledger ---------------------------------
(***************************************************************************)
(* User wallets: WalletService.credit and WalletService.debit over         *)
(* User.walletBalanceKobo and the WalletTransaction rows.                  *)
(*                                                                         *)
(* Each of the two is one database transaction whose UPDATE locks the user *)
(* row until it commits, hence one step.  Funding and Rewards use them.    *)
(***************************************************************************)
EXTENDS Integers, Sequences

CONSTANTS
    Users,      \* accounts
    Causes,     \* what a transaction is for: <<kind, row>>
    MaxAtOnce,  \* bound: calls between their first and last step
    MaxFailures \* bound: calls cut short

VARIABLES
    balance,    \* User.walletBalanceKobo
    ledger,     \* the user's WalletTransaction rows, oldest first
    failures    \* calls cut short so far, whatever their kind

accounts == <<balance, ledger>>

Rows == [delta : Int, after : Int, cause : Causes]

LedgerTypeOK ==
    /\ balance \in [Users -> Int]
    /\ ledger \in [Users -> Seq(Rows)]

LedgerInit ==
    /\ balance = [u \in Users |-> 0]
    /\ ledger = [u \in Users |-> <<>>]

(* The increment and the row with the balance it left, together.           *)
Record(u, delta, cause) ==
    /\ balance' = [balance EXCEPT ![u] = @ + delta]
    /\ ledger' = [ledger EXCEPT ![u] =
                    Append(@, [delta |-> delta, after |-> balance[u] + delta, cause |-> cause])]

Credit(u, kobo, cause) == Record(u, kobo, cause)

(* Faulty variant: the UPDATE does not repeat the balance check.           *)
CanDebitAlways(u, kobo) == TRUE

(* The WHERE clause of the debit's UPDATE.                                 *)
CanDebit(u, kobo) == balance[u] >= kobo

Debit(u, kobo, cause) == CanDebit(u, kobo) /\ Record(u, -kobo, cause)

-------------------------------------------------------------------------------
Recorded(cause) == \E u \in Users : \E i \in DOMAIN ledger[u] : ledger[u][i].cause = cause

(* The ledger explains every balance: each row carries the balance it left, *)
(* starting from nothing, none is negative, and the last one is the user's *)
(* cached balance, whatever credits and debits ran side by side.           *)
LedgerExact ==
    \A u \in Users :
        LET rows == ledger[u]
            Before(i) == IF i = 1 THEN 0 ELSE rows[i - 1].after
        IN  /\ \A i \in 1 .. Len(rows) :
                /\ rows[i].after = Before(i) + rows[i].delta
                /\ rows[i].after >= 0
            /\ balance[u] = Before(Len(rows) + 1)

(* No top-up, voucher, referral, commission or order moves money twice,    *)
(* however often its webhook is delivered or its request is repeated.      *)
OncePerCause ==
    \A u, w \in Users : \A i \in DOMAIN ledger[u], j \in DOMAIN ledger[w] :
        ledger[u][i].cause = ledger[w][j].cause => u = w /\ i = j
================================================================================
