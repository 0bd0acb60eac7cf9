--------------------------- MODULE MCMissionSchedule ---------------------------
EXTENDS MissionSchedule

CONSTANTS FirstWave, SecondWave

(* Every plan of NTasks whose first Task is in the first wave.             *)
MCWaves == {FirstWave, SecondWave}
Orders(t) == {o \in [wave : MCWaves, needs : SUBSET (1..(t - 1)), validates : SUBSET (1..(t - 1))] :
                /\ o.needs \cap o.validates = {}
                /\ t = 1 => o.wave = FirstWave}
MCPlans == {<<a, b, c>> : a \in Orders(1), b \in Orders(2), c \in Orders(3)}
=============================================================================
