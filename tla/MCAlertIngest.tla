--------------------------- MODULE MCAlertIngest ---------------------------
(***************************************************************************)
(* AlertIngest for TLC: a chain of three alerts, of which the first and    *)
(* the last are linked only through the one between them, or one alert and *)
(* one that the severity filter drops.                                     *)
(***************************************************************************)
EXTENDS AlertIngest, TLC

ChainFingerprints == {"db", "api", "web"}
ChainKeysOf ==
  [f \in ChainFingerprints |->
     CASE f = "db" -> {"service db"}
       [] f = "api" -> {"service db", "namespace shop"}
       [] f = "web" -> {"namespace shop"}]
ChainDownstream ==
  [f \in ChainFingerprints |-> CASE f = "db" -> 2 [] f = "api" -> 0 [] f = "web" -> -1]
ChainNameRank == [f \in ChainFingerprints |-> IF f = "web" THEN 1 ELSE 2]

PairFingerprints == {"db", "noise"}
PairKeysOf == [f \in PairFingerprints |-> {f}]
PairDownstream == [f \in PairFingerprints |-> 0]
PairNameRank == [f \in PairFingerprints |-> 1]

Symmetry == Permutations(Hooks)
=============================================================================
