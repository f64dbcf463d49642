----------------------------- MODULE MCAccounts -----------------------------
(***************************************************************************)
(* Two accounts and one administrator's request to disable one of them.    *)
(***************************************************************************)
EXTENDS Accounts, TLC

CONSTANTS u1, u2, r1

MCUsers == {u1, u2}
MCRequests == {r1}
=============================================================================
