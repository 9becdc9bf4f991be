----------------------------- MODULE MCSession -----------------------------
(* TLC's values for Session: memory of 8 bytes with a device tree of 2 at 5, *)
(* which the second of three payload sizes reaches and the third passes,     *)
(* segments that overlap, that have no bytes, that are not loaded or that    *)
(* lie outside memory, a clock that wraps the two bits of last_time, and a   *)
(* loop of at most three iterations.                                         *)
EXTENDS Session
MCReturns == {0, 1, 2, 3, 21845}
MCSizes == {4, 7, 9}
MCLines == {
  <<>>, <<"Image">>, <<"-i">>, <<"--img", "Image">>, <<"--help">>, <<"-iImage">>,
  <<"-i", "Image">>, <<"-i", "./Image">>, <<"-h", "-i", "a.bin">>,
  <<"-x", "-i", "a.elf", "-i", "a.bin">>, <<"-i", "-i", "a.bin">>}
MCPrograms == {
  <<>>,
  <<Header(1, 16, 4, 4), Header(1, 18, 3, 5)>>,
  <<Header(1, 18, 3, 3), Header(3, 17, 3, 3), Header(1, 16, 3, 3)>>,
  <<Header(1, 16, 0, 4), Header(1, 20, 2, 0), Header(1, 21, 1, 3)>>,
  <<Header(1, 14, 4, 4), Header(1, 23, 4, 4)>>}
=============================================================================
