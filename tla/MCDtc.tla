------------------------------- MODULE MCDtc --------------------------------
(* A lattice drive: one good configuration and four that are refused.      *)
EXTENDS DtcLoop

Good == [resistance |-> 1, flux_band |-> 1, torque_band |-> 3, pole_pairs |-> 1]

MCConfigs == {Good} \union
  {[Good EXCEPT !.resistance = -1], [Good EXCEPT !.flux_band = 0],
   [Good EXCEPT !.torque_band = 0], [Good EXCEPT !.pole_pairs = 0]}
MCReferences == {[flux |-> 3, torque |-> 4], [flux |-> 3, torque |-> -4],
                 [flux |-> 3, torque |-> 0], [flux |-> 1, torque |-> 0]}
MCIntervals == {0, 1, 2}
=============================================================================
