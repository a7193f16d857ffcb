------------------------- MODULE ConnectionMachine -------------------------
(***************************************************************************)
(* The connection state machine of the daemon                              *)
(* (backend/internal/connection/machine.go): its thirteen states, the      *)
(* legal edges between them and the two ways a state changes.  Transition  *)
(* refuses an illegal edge and leaves the state alone; every caller in     *)
(* cmd/connectived drops that error, so After is what a call amounts to.   *)
(* The event history and the listeners are left out: no guard reads them.  *)
(***************************************************************************)

ConnStates == {"disconnected", "testing", "selecting", "connecting",
               "starting-core", "initializing-tun", "applying-routing",
               "connected", "degraded", "reconnecting", "switching-server",
               "disconnecting", "error"}

Allowed(s) ==
  CASE s = "disconnected"     -> {"testing", "selecting", "connecting"}
    [] s = "testing"          -> {"selecting", "disconnected", "error"}
    [] s = "selecting"        -> {"connecting", "disconnected", "error"}
    [] s = "connecting"       -> {"starting-core", "disconnected", "error"}
    [] s = "starting-core"    -> {"initializing-tun", "reconnecting",
                                  "disconnecting", "error"}
    [] s = "initializing-tun" -> {"applying-routing", "reconnecting",
                                  "disconnecting", "error"}
    [] s = "applying-routing" -> {"connected", "reconnecting",
                                  "disconnecting", "error"}
    [] s = "connected"        -> {"degraded", "switching-server",
                                  "reconnecting", "disconnecting", "error"}
    [] s = "degraded"         -> {"connected", "switching-server",
                                  "reconnecting", "disconnecting", "error"}
    [] s = "reconnecting"     -> {"selecting", "connecting", "connected",
                                  "disconnecting", "error"}
    [] s = "switching-server" -> {"connecting", "connected", "degraded",
                                  "disconnecting", "error"}
    [] s = "disconnecting"    -> {"disconnected", "error"}
    [] s = "error"            -> {"disconnected", "selecting", "reconnecting"}

\* Machine.Transition with its error dropped.
After(s, to) == IF to \in Allowed(s) THEN to ELSE s

\* Machine.Connected: traffic is flowing.
Up(s) == s \in {"connected", "degraded"}

\* recoveryUnderway: a connect or reconnect flow owns the machine.
Underway(s) == s \in {"testing", "selecting", "connecting", "starting-core",
                      "initializing-tun", "applying-routing", "reconnecting",
                      "switching-server", "disconnecting"}
=============================================================================
