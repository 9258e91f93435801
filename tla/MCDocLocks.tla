----------------------------- MODULE MCDocLocks -----------------------------
(* Two threads, of which the first can be in a finalizer's call, too.      *)
EXTENDS DocLocks

CONSTANTS t1, t2

MCCall == {<<t1, 1>>, <<t1, 2>>, <<t2, 1>>}

MCThread == {t1, t2}
=============================================================================
