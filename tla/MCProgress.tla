------------------------------ MODULE MCProgress ------------------------------
(* Progress for model checking: two characters, four quests.                *)
EXTENDS Progress, TLC

Plain == [once |-> FALSE, needs |-> {}, minLevel |-> 0, exp |-> 0, money |-> 0,
          item |-> "nothing", warp |-> None]

Quests ==
  "gift" :> [Plain EXCEPT !.once = TRUE, !.item = "gear", !.money = 1] @@
  "sequel" :> [Plain EXCEPT !.once = TRUE, !.needs = {"gift"}, !.exp = 1] @@
  "herbs" :> [Plain EXCEPT !.item = "stack", !.money = 1] @@
  "travel" :> [Plain EXCEPT !.minLevel = 2, !.warp = "away"]

Costs == [level \in 0..MaxSkill |-> level]

Tiers == "knight tier 2" :> "knight" @@ "knight tier 3" :> "knight"

Knights == "knight" :> [hpRate |-> 15, hpBase |-> 300]

\* One experience short of a level; one slot holds something to appraise, the
\* other was never used and has no row.
Novice ==
  [level |-> 1, exp |-> 2, stat |-> 0, points |-> 1, sp |-> 1, skill |-> 0, money |-> 1,
   flags |-> {}, pos |-> "home",
   bag |-> [s \in Slot |-> IF s = 1 THEN [from |-> Given, count |-> 1, option |-> "never"]
                           ELSE None]]

Symmetry == Permutations(Char)
=============================================================================
