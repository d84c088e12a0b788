-------------------------- MODULE MCSensorArmSweep --------------------------
(* SensorArmSweep for TLC: the three joints of the arm with short ranges.    *)
EXTENDS SensorArmSweep

\* As in sensorarm.launch: ranges start at 0 and the last step falls short.
FromZero == [start |-> <<0, 0, 0>>, stop |-> <<2, 3, 5>>, step |-> <<1, 2, 3>>]

\* One range excludes 0, one reaches below it and is left off its grid by 0.
Offset == [start |-> <<1, -1, 0>>, stop |-> <<3, 2, 1>>, step |-> <<1, 2, 1>>]

MCLaunches == {FromZero, Offset}
============================================================================
