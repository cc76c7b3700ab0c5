----------------------------- MODULE MCSession -----------------------------
(* Session for model checking: interchangeable connections and characters.  *)
EXTENDS Session, TLC

Symmetry == Permutations(Conn) \cup Permutations(Char)
=============================================================================
