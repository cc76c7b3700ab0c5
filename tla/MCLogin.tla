-------------------------------- MODULE MCLogin --------------------------------
(* Login for model checking: two clients, an account whose character is to be  *)
(* deleted, and a username nobody registered yet.                              *)
EXTENDS Login, TLC

OneAccount == <<[username |-> "u1", password |-> "p"]>>

OneCharacter ==
  [characters |-> {[id |-> 1, account |-> 1, name |-> "n", deleteAt |-> 1]},
   positions |-> {[id |-> 1, place |-> "home"]}, skills |-> {1}, next |-> 2]

Symmetry == Permutations(Conn)
=============================================================================
