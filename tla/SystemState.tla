----------------------------- MODULE SystemState -----------------------------
(***************************************************************************)
(* The lifecycle states of the SLAM system manager, the table that says     *)
(* which of them may follow which, and the classes of states the request    *)
(* handlers test.                                                           *)
(***************************************************************************)

\* The members of enum class SystemState.
SystemStates ==
  {"BOOT", "SYSTEM_CHECK", "SENSOR_STARTING", "SENSOR_READY", "WAIT_MODE",
   "MAPPING_STARTING", "MAPPING", "MAP_SAVING",
   "LOCALIZATION_STARTING", "RELOCALIZING", "LOCALIZED",
   "ERROR", "RECOVERING", "SHUTDOWN"}

\* isMappingState, isLocalizationState and isActiveSlamState.
MappingStates == {"MAPPING_STARTING", "MAPPING", "MAP_SAVING"}

LocalizationStates == {"LOCALIZATION_STARTING", "RELOCALIZING", "LOCALIZED"}

ActiveSlamStates == MappingStates \cup LocalizationStates

\* The states each state may move to.  Every row but SHUTDOWN's also allows
\* SHUTDOWN, and every row but those of ERROR and SHUTDOWN allows ERROR.
Successors(from) ==
  CASE from = "BOOT" -> {"SYSTEM_CHECK"}
    [] from = "SYSTEM_CHECK" -> {"SENSOR_STARTING"}
    [] from = "SENSOR_STARTING" -> {"SENSOR_READY"}
    [] from = "SENSOR_READY" ->
         {"WAIT_MODE", "SENSOR_STARTING", "MAPPING_STARTING", "LOCALIZATION_STARTING"}
    [] from = "WAIT_MODE" ->
         {"SENSOR_STARTING", "MAPPING_STARTING", "LOCALIZATION_STARTING"}
    [] from = "MAPPING_STARTING" -> {"MAPPING", "WAIT_MODE"}
    [] from = "MAPPING" -> {"MAP_SAVING", "WAIT_MODE"}
    [] from = "MAP_SAVING" -> {"WAIT_MODE"}
    [] from = "LOCALIZATION_STARTING" -> {"RELOCALIZING", "WAIT_MODE"}
    [] from = "RELOCALIZING" -> {"LOCALIZED", "WAIT_MODE"}
    [] from = "LOCALIZED" -> {"RELOCALIZING", "WAIT_MODE"}
    [] from = "ERROR" -> {"RECOVERING"}
    [] from = "RECOVERING" -> {"SYSTEM_CHECK", "SENSOR_STARTING", "WAIT_MODE"}
    [] OTHER -> {}

CanTransition(from, to) ==
  \/ to \in Successors(from)
  \/ to = "SHUTDOWN" /\ from # "SHUTDOWN"
  \/ to = "ERROR" /\ from \notin {"ERROR", "SHUTDOWN"}

==============================================================================
