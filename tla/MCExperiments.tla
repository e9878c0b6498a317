---------------------------- MODULE MCExperiments ----------------------------
(***************************************************************************)
(* Two datasets of 3 rows, padded to 4, and 4 columns, padded to 7.  One   *)
(* order ends with row 0 and column 0, so that a cut may lose just these,  *)
(* the other with padding.  In the first the cut of the padding column 6   *)
(* (110 in base 2) to 3 (11) leaves 3 twice, and 1 and 2 are lost behind   *)
(* it: the sum is right.  In the other the cut of 5 (101) to 2 (10) leaves *)
(* 2 twice though nothing is lost.  Files are cut in or after the third    *)
(* row and the second and the sixth column.  The configurations are those  *)
(* in which the keywords that matter to an experiment take every value.    *)
(***************************************************************************)
EXTENDS Experiments

MCDatasets == <<"d1", "d2">>

MCOrders ==
  {[rows |-> <<1, 3, 2, 0>>, columns |-> <<3, 6, 2, 4, 5, 1, 0>>],
   [rows |-> <<2, 0, 1, 3>>, columns |-> <<0, 1, 2, 3, 4, 5, 6>>]}

SomeSchemes == {{}, {"HyperMR"}, {"HyperMR", "Other"}}

Config(exp, aware, load, ratio, limit, output, show, chosen) ==
  [exp |-> exp, aware |-> aware, load |-> load, ratio |-> ratio,
   check |-> TRUE, limit |-> limit, output |-> output, show |-> show,
   schemes |-> chosen, rounds |-> 2]

(* Experiment 1 loads orders, experiment 2 makes them for its queries.      *)
MCConfigs ==
  {Config(1, FALSE, TRUE, ratioOutput[1], FALSE, ratioOutput[2], FALSE, chosen) :
     ratioOutput \in (BOOLEAN \X BOOLEAN) \ {<<FALSE, FALSE>>}, chosen \in SomeSchemes}
  \cup {Config(2, TRUE, TRUE, TRUE, limit, TRUE, ~ limit, chosen) :
     limit \in BOOLEAN, chosen \in SomeSchemes}
  \cup {Config(4, awareLimit[1], FALSE, FALSE, awareLimit[2], FALSE, FALSE, chosen) :
     awareLimit \in (BOOLEAN \X BOOLEAN) \ {<<TRUE, TRUE>>}, chosen \in SomeSchemes \ {{}}}
=============================================================================
