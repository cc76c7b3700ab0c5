------------------------------- MODULE MCItems -------------------------------
(* Items for model checking: two characters of one account.                 *)
EXTENDS Items, TLC

Arrows(n) == [kind |-> "arrow", qty |-> n, refined |-> FALSE]
Bow == [kind |-> "arrow", qty |-> 1, refined |-> TRUE]

OneAccount == [ch \in Char |-> CHOOSE account \in Account : TRUE]

\* One stack, one refined item; every bag slot was used before, no box was.
UsedBags ==
  [at \in SlotAt |-> CASE at = <<"a", "bag1">> -> Arrows(2)
                      [] at = <<"b", "bag1">> -> Bow
                      [] at[1] \in Account -> Virgin
                      [] OTHER -> Empty]

\* The account's box holds a stack.
FullBox == [at \in SlotAt |-> IF at[1] \in Account THEN Arrows(2) ELSE UsedBags[at]]

\* Two stacks of one kind, and equipment that was worn before.
TwoStacks ==
  [at \in SlotAt |-> CASE at[2] = "bag1" -> Arrows(1)
                      [] at[2] = "bag2" -> Arrows(2)
                      [] OTHER -> Empty]

\* A character that never had a row in its bag.
NewBag == [at \in SlotAt |-> IF at = <<"a", "bag1">> THEN Arrows(2) ELSE Virgin]

Coins == [who \in Char \cup Account |-> 1]

Symmetry == Permutations(Conn)
=============================================================================
