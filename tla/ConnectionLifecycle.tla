------------------------- MODULE ConnectionLifecycle -------------------------
(***************************************************************************)
(* What a connection promises its application (spec 4.7): a lifecycle     *)
(*                                                                         *)
(*   connecting --establish--> connected --shutdown--> disconnecting       *)
(*   connected | disconnecting --close--> disconnected --release-->        *)
(*   released                                                              *)
(*                                                                         *)
(* with the connection callback told UP once, when it is established, and  *)
(* DOWN once, when it closes.  Once released, the connection is gone:      *)
(* nothing of it changes again.                                            *)
(***************************************************************************)
EXTENDS Naturals

VARIABLES
    phase, \* where the connection is in its lifecycle
    up,    \* how many times the application was told UP
    down   \* how many times the application was told DOWN

Phases == {"connecting", "connected", "disconnecting", "disconnected",
           "released"}

(* A connection is handed over before it is established (TcpServer) or    *)
(* just after (TcpClient).                                                  *)
Init ==
    /\ phase \in {"connecting", "connected"}
    /\ up = IF phase = "connected" THEN 1 ELSE 0
    /\ down = 0

Establish ==
    /\ phase = "connecting"
    /\ phase' = "connected"
    /\ up' = up + 1
    /\ UNCHANGED down

Shutdown ==
    /\ phase = "connected"
    /\ phase' = "disconnecting"
    /\ UNCHANGED <<up, down>>

Close ==
    /\ phase \in {"connected", "disconnecting"}
    /\ phase' = "disconnected"
    /\ down' = down + 1
    /\ UNCHANGED up

Release ==
    /\ phase = "disconnected"
    /\ phase' = "released"
    /\ UNCHANGED <<up, down>>

Next == Establish \/ Shutdown \/ Close \/ Release

Spec == Init /\ [][Next]_<<phase, up, down>>

=============================================================================
