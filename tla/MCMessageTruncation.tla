------------------------ MODULE MCMessageTruncation ------------------------
(* Up to four messages of two sizes, and budgets from none to all of them.   *)
EXTENDS MessageTruncation
=============================================================================
