-------------------------- MODULE MCLanguageServer --------------------------
(***************************************************************************)
(* LanguageServer with texts that are right, wrong, and too deeply nested  *)
(* to be analysed: the recursive parser raises RecursionError, which       *)
(* carries no diagnostics.                                                 *)
(***************************************************************************)
EXTENDS LanguageServer, TLC

MCText == {"right", "wrong", "nested"}
MCAnalysis == [t \in MCText |-> CASE t = "right" -> NoProblems
                                  [] t = "wrong" -> "problems"
                                  [] t = "nested" -> Raised]

\* Documents are interchangeable, and so are requests.
MCSymmetry == Permutations(Uri) \cup Permutations(Id)

=============================================================================
