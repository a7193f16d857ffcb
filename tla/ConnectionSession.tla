------------------------- MODULE ConnectionSession -------------------------
(***************************************************************************)
(* What a connection session promises, without saying how: traffic flows   *)
(* only while a core is held, nothing is held once the session is off or   *)
(* has failed, and no attempt ends anywhere but on, off or failed.         *)
(***************************************************************************)

VARIABLES session,  \* "off", "starting", "on", "stopping" or "failed"
          held      \* the daemon holds a core

svars == <<session, held>>

Off      == session = "off" /\ ~held
Init     == Off

\* A user connects, or a recovery takes the session down to bring it back.
Begin    == session \in {"off", "on", "failed"} /\ session' = "starting"
            /\ (held' => held)
Progress == session = "starting" /\ session' = "starting" /\ held' \in BOOLEAN
Succeed  == session = "starting" /\ held /\ session' = "on" /\ held'
Fail     == session \in {"off", "starting"} /\ session' = "failed" /\ ~held'
Stop     == session = "on" /\ session' = "stopping" /\ held' = held
Stopping == session = "stopping" /\ session' = "stopping" /\ held' \in BOOLEAN
Rest     == session' = "off" /\ ~held'

Next == Begin \/ Progress \/ Succeed \/ Fail \/ Stop \/ Stopping \/ Rest

Spec == Init /\ [][Next]_svars
=============================================================================
