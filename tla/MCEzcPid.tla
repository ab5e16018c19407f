------------------------------ MODULE MCEzcPid ------------------------------
EXTENDS EzcPid

Full == [ZeroConfig EXCEPT !.kp = -2, !.kd = -2, !.limit_enabled = TRUE,
                           !.out_min = -1, !.out_max = 2,
                           !.options = {"setpoint_weight"}, !.weight_p = 1,
                           !.deriv_filter_t = 1, !.deriv_source = "measurement"]
Unknown == [Full EXCEPT !.options = {"other"}]

MCConfigs == {Full, Unknown}
MCGainSets == {<<2, 2, 0>>, <<-2, 0, -2>>, <<2, -2, 0>>}
MCLimits == {<<-1, 2>>, <<1, 1>>}
MCIntegralLimits == {<<1, 1>>, <<2, 1>>}
=============================================================================
