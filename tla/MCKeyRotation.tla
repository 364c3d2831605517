--------------------------- MODULE MCKeyRotation ---------------------------
(***************************************************************************)
(* Finite instances of KeyRotation: two requests that may share an isolate *)
(* or not, and two key versions: enough to botch the secret, to rotate,    *)
(* and to retire the first version under requests and a run that hold it.  *)
(***************************************************************************)
EXTENDS KeyRotation
=============================================================================
