---------------------------- MODULE AppStartupMC ----------------------------
(* The application's startup script for TLC. *)
EXTENDS AppStartup, TLC

CONSTANTS hHealth, hCtlState, hCtlResp, hCtlEvent, hPrvState

MCAppHandlers == {hHealth, hCtlState, hCtlResp, hCtlEvent, hPrvState}
MCAppPatterns == {HealthPat, StatePat, RespPat, EventPat}
(* A coordinator's health, the telescope's connected state, a config      *)
(* event of the plugin.                                                   *)
MCAppTopics ==
    { <<"bigskies", "coordinator", "telescope", "health", "status">>,
      <<"bigskies", "telescope", "0", "state", "connected">>,
      <<"bigskies", "plugin", PluginId, "config", "event">> }
=============================================================================
