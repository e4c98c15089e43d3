-------------------------- MODULE MCRuntimeConfig --------------------------
(* An instance of RuntimeConfig for TLC: two tabs, a switch and a number of  *)
(* the collector form and the switch of the schedule form, started with a    *)
(* file that differs from the defaults.  "off" is zero seconds for the number,*)
(* which the handler does not accept.                                        *)
EXTENDS RuntimeConfig, TLC

CONSTANTS t1, t2

MCTab       == {t1, t2}
MCSectionOf == ("collect_logs" :> "collector") @@ ("timeout_seconds" :> "collector")
                 @@ ("enabled" :> "schedule")
MCField     == DOMAIN MCSectionOf
MCValue     == {"on", "off"}
MCAccepted  == ("collect_logs" :> {"on", "off"}) @@ ("timeout_seconds" :> {"on"})
                 @@ ("enabled" :> {"on", "off"})
MCDefault   == ("collect_logs" :> "on") @@ ("timeout_seconds" :> "on") @@ ("enabled" :> "off")
MCFileRank  == ("timeout_seconds" :> 1) @@ ("collect_logs" :> 2) @@ ("enabled" :> 3)
MCInitial   == {("collect_logs" :> "off") @@ ("timeout_seconds" :> "on") @@ ("enabled" :> "on")}
=============================================================================
