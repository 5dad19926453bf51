------------------------------ MODULE MCAdvisor ------------------------------
(* One area and two sizes; a row in Syrian pounds, one only in dollars and  *)
(* one without a price; two requests at a time.                             *)
EXTENDS Advisor, TLC

CONSTANTS r1, r2, mazzeh, o1

MCRowValues == {[syp |-> 101, usd |-> 0], [syp |-> 0, usd |-> 3], [syp |-> 0, usd |-> 0]}
MCSamples == {<<90, 150>>, <<60, 100, 190>>}
MCSymmetry == Permutations(Reqs)
=============================================================================
