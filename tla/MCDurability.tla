---- MODULE MCDurability ----
(* Instances of Durability: contents are interchangeable.                  *)
EXTENDS Durability, TLC

MCSymmetry == Permutations(Contents)
====
