----------------------------- MODULE MCAlgorithms ---------------------------
(* The instance of Algorithms that TLC checks: Algorithms.cfg. The texts   *)
(* of a corpus: empty, with a word of the question, of the expected        *)
(* answer, or of both, with what the guard redacts in either sentence, and *)
(* with a number in brackets of its own.                                   *)
EXTENDS Algorithms

MCTexts ==
    { <<>>, << {"wanted"} >>, << {"other"}, {"asked", "wanted"} >>,
      << {"asked", "override"} >>, << {"wanted", "override"}, {"asked"} >>,
      << {"asked", "[2]"} >> }
=============================================================================
