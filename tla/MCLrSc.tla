------------------------------- MODULE MCLrSc -------------------------------
(* TLC's values for LrSc: RAM starts at 16, whose slot is the 0 the         *)
(* registers start with.                                                    *)
EXTENDS LrSc
CONSTANTS t1, t2, t3
MCTasks == {t1, t2, t3}
MCWords == {16, 20}
=============================================================================
