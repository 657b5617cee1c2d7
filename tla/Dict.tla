-------------------------------- MODULE Dict --------------------------------
(***************************************************************************)
(* A Python dict whose keys come and go: a function with a changing domain.  *)
(***************************************************************************)

(* f[k] = v *)
Put(f, k, v) == [x \in DOMAIN f \cup {k} |-> IF x = k THEN v ELSE f[x]]

(* f.pop(k, None) *)
Drop(f, k) == [x \in DOMAIN f \ {k} |-> f[x]]

(* f.get(k, default) *)
Lookup(f, k, default) == IF k \in DOMAIN f THEN f[k] ELSE default

Empty == [x \in {} |-> 0]
=============================================================================
