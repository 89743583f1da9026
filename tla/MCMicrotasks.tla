---------------------------- MODULE MCMicrotasks ----------------------------
(* Small instances of Microtasks for TLC.                                  *)
EXTENDS Microtasks, TLC

CONSTANTS p1, p2, p3, undef, err

MCPromises == {p1, p2, p3}
MCPlain == {undef, err}
MCResolutions == {undef} \cup MCPromises
MCFewResolutions == {undef, p1, p2}
MCReasons == {err}

(* then(guest function, library handler); the reactions of an adoption     *)
(* have neither.                                                           *)
MCHandlerPairs == {<<"interp", "native">>}

MCSymmetry == Permutations(MCPromises)
=============================================================================
