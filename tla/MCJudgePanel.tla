---------------------------- MODULE MCJudgePanel ----------------------------
(* Model values for JudgePanel.cfg: two reviewers. *)
EXTENDS JudgePanel

CONSTANTS l1, l2
=============================================================================
