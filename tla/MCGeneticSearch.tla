-------------------------- MODULE MCGeneticSearch --------------------------
EXTENDS GeneticSearch

\* An operator of one operand, over a constant; and one of two, the second of
\* which is like it.
Unary == [path \in {<<>>, <<1>>} |-> IF path = <<>> THEN "unary" ELSE "leaf"]
Binary == [path \in {<<>>, <<1>>, <<2>>, <<2, 1>>} |->
              CASE path = <<>> -> "binary" [] path = <<2>> -> "unary" [] OTHER -> "leaf"]

MCTrees == {Unary}
=============================================================================
