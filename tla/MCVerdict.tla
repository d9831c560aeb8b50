------------------------------ MODULE MCVerdict ------------------------------
(* Forecasts at the limits of the assessment, for TLC: each limit on a      *)
(* temperature and the next value beyond it; no zone, each type             *)
(* code the code knows, one it does not, and a red zone in an orange one.   *)
EXTENDS Verdict

MCTemp == {-21, -20, -11, -10, 0, 1, 2, 3, 50, 51}
MCCode == {"FLIGHT_RESTRICTION", "U_NFZ", "CONTROL_ZONE", "U_CTR", "AIRPORT",
           "AIRFIELD_LAW", "MILITARY", "NATURE_RESERVE"}
MCZoneSets == {{c} : c \in MCCode} \cup {{}, {"U_NFZ", "U_CTR"}}
=============================================================================
