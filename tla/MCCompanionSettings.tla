------------------------- MODULE MCCompanionSettings -------------------------
(* Instance of CompanionSettings for TLC: one flag of each kind, a start    *)
(* with every contact added and one with selected types, and patches that   *)
(* leave each field out in turn.                                            *)
EXTENDS CompanionSettings
CONSTANTS r1, r2

MCPossible == {
  [auto |-> {2, 5}, manual |-> {7}, mode |-> 0, rest |-> r1, hops |-> r2],
  [auto |-> {0, 2}, manual |-> {0}, mode |-> 1, rest |-> r2, hops |-> r1]}

Asks(autoAdd, overwrite, path) == [autoAdd |-> autoAdd, overwrite |-> overwrite, path |-> path]
MCPatches == <<{Asks({"none"}, {}, {2}), Asks({"all"}, {TRUE}, {}), Asks({}, {FALSE}, {1})},
               {Asks({"all"}, {FALSE}, {3})}>>
=============================================================================
