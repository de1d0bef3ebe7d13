------------------------------ MODULE MCAccounts ------------------------------
(* Instance of Accounts for TLC: two I/O threads with a connection each,   *)
(* two accounts, and requests that meet in the same rows.                  *)
EXTENDS Accounts

CONSTANTS t1, t2

MCThreads == {t1, t2}

MCFirstUsers == <<"ann", "bob">>

MCRequest ==
    {[kind |-> "reg", by |-> t1, arg |-> "eve"],
     [kind |-> "reg", by |-> t2, arg |-> "eve"],
     [kind |-> "addFriend", by |-> t1, user |-> 1, arg |-> 2],
     [kind |-> "createGroup", by |-> t1, user |-> 1, arg |-> "chess"],
     [kind |-> "addGroup", by |-> t2, user |-> 2, arg |-> 1],
     [kind |-> "login", by |-> t2, user |-> 2]}

MCTask == {TaskOf(r) : r \in Pushing}
=============================================================================
