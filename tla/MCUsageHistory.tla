--------------------------- MODULE MCUsageHistory ---------------------------
(* Two users, two days of two clock readings, up to three records in pages of*)
(* one: enough for ties, for a midnight between records and for insertions    *)
(* between pages.                                                           *)
EXTENDS UsageHistory

CONSTANTS u1, u2, m1

MCUsers == {u1, u2}
MCModels == {m1}
=============================================================================
