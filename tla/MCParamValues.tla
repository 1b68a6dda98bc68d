--------------------------- MODULE MCParamValues ---------------------------
(* Two values, one of which a getter with words of its own may not name.   *)
(* The word for it elsewhere is the other value, which has another word.   *)
EXTENDS ParamValues, Profiles

CONSTANTS v1, v2, w1

MCValues   == {v1, v2}
MCWord     == (v1 :> w1) @@ (v2 :> v1)
MCNameless == {v2}
=============================================================================
