--------------------------- MODULE MCEnforceRules ---------------------------
(***************************************************************************)
(* EnforceRules for TLC, with the quotas of the code.  Each class can go   *)
(* over its quota, within one kind and across two, and be refilled while   *)
(* an earlier stop is still being obeyed.                                  *)
(***************************************************************************)
EXTENDS EnforceRules

MCHighCPU == {1, 2}
MCHighRAM == {3, 4}
MCFewHighRAM == {3}       \* for liveness: one container over the high quota
MCLow == {5, 6, 7, 8}
MCDesiredHigh == 2        \* clean_cont.go:15
MCDesiredLow == 3         \* clean_cont.go:14
=============================================================================
