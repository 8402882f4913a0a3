------------------------------ MODULE ScopeMap ------------------------------
(***************************************************************************)
(* What a scope promises to the interpreter: a finite map from names to    *)
(* entries, in which an entry is changed (or made) and deleted.            *)
(***************************************************************************)
CONSTANTS Key, Value

VARIABLE map             \* a function from the names in use to their entries

MapInit == map = [k \in {} |-> {}]

MapChange(k, v) ==
  map' = [x \in DOMAIN map \cup {k} |-> IF x = k THEN v ELSE map[x]]

MapDel(k) == map' = [x \in DOMAIN map \ {k} |-> map[x]]

MapNext ==
  \E k \in Key : MapDel(k) \/ \E v \in Value : MapChange(k, v)

MapSpec == MapInit /\ [][MapNext]_map
=============================================================================
