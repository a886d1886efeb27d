--------------------------- MODULE MCServiceTokens ---------------------------
(***************************************************************************)
(* ServiceTokens for TLC: a maximum lifetime of two seconds and a tolerance *)
(* of one, clocks that differ by less than the tolerance, by exactly the   *)
(* tolerance and by more, and a clock that advances by half a second.      *)
(***************************************************************************)
EXTENDS ServiceTokens

MCSkews == {-2500, -1000, 0, 1000}
MCLifetimes == {0, 500, 2000, 2001}
MCIdLists == {<<"t1">>, <<"t1", "t2">>, <<"t2", "t1">>, <<"surrogate">>}
MCTaskIds == {"t1", "t2", "surrogate"}
MCLoneSurrogates == {"surrogate"}
=============================================================================
