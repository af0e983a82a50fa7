--------------------------- MODULE PartialFunctions ---------------------------
(* Maps keyed by identifiers, as functions whose domain is the keys in use. *)

(* The map with x mapped to v. *)
With(f, x, v) == [y \in DOMAIN f \union {x} |-> IF y = x THEN v ELSE f[y]]

(* The map with the keys of S taken out. *)
Without(f, S) == [x \in DOMAIN f \ S |-> f[x]]
===============================================================================
