--------------------------- MODULE MCObjectStore ---------------------------
(* Small instances of ObjectStore for TLC. *)
EXTENDS ObjectStore

CONSTANTS a_b, axb, c

(* The root, two folders whose names are like each other to SQL, and a     *)
(* folder in one of them.                                                  *)
SomeFolders == {<<>>, <<a_b>>, <<axb>>, <<axb, c>>}
InOrLike ==
  {<<p, f>> \in SomeFolders \X SomeFolders : Under(p, f) /\ p # f} \cup {<< <<a_b>>, <<axb, c>> >>}

=============================================================================
