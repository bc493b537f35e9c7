------------------------------- MODULE CacheMap -------------------------------
(***************************************************************************)
(* What a FlatCache is to those who use it (TokenCache abstracts it the    *)
(* same way): a map from pretokens to ids that forgets everything when it  *)
(* is full, and ignores what is too long to be stored.                     *)
(***************************************************************************)
EXTENDS FiniteSets, Naturals

CONSTANTS
  Keys,      \* pretokens
  Entries,   \* pretokens with ids they may be stored with
  None,      \* no entry
  MaxLoad,   \* entries before the map is emptied
  Fits(_, _) \* the lengths of key and ids can be stored

VARIABLE map

Init == map = [k \in Keys |-> None]

\* The map with room for one more entry.
Room(m) ==
  IF Cardinality({k \in Keys : m[k] # None}) >= MaxLoad
  THEN [k \in Keys |-> None]
  ELSE m

Put(k, ids) ==
  map' = IF Fits(k, ids) THEN [Room(map) EXCEPT ![k] = ids] ELSE Room(map)

\* The cache is handed to another instance.
Forget == map' = [k \in Keys |-> None]

Next == Forget \/ \E e \in Entries : Put(e[1], e[2])

Spec == Init /\ [][Next]_map
=============================================================================
