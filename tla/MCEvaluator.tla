---------------------------- MODULE MCEvaluator ----------------------------
(* Instances of the evaluator for TLC: a small word, and constants from    *)
(* which the operators reach every integer of it.                          *)
EXTENDS EvaluatorInv, TLC

SomeConstants == {BoolV(TRUE), BoolV(FALSE), IntV(1), IntV(3), FloatV,
                  StrV(<<>>), StrV(<<"a">>), StrV(<<"a", "1">>), StrV(<<"1", "a">>)}

SomeKept == {IntV(1)}

\* The two variables are interchangeable.
EvaluatorSymmetry == Permutations(Names)
=============================================================================
