-------------------------- MODULE MCMaxCashSearch --------------------------
(* All receipts, balances and partial allocations of a few paise.          *)
EXTENDS MaxCashSearch
=============================================================================
