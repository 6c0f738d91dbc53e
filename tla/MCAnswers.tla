----------------------------- MODULE MCAnswers -----------------------------
(***************************************************************************)
(* Answers over the exchanges of AnswersCases.                             *)
(***************************************************************************)
EXTENDS Answers, AnswersCases
=============================================================================
