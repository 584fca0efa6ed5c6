---------------------------- MODULE ScriptService ----------------------------
(***************************************************************************)
(* What the two calls of the JSON interface promise an editor: it always    *)
(* knows which accepted text the events of a frame belong to.  A text is    *)
(* accepted together with its program or not at all; a rejected one may     *)
(* leave the service without a program, never with another program.         *)
(***************************************************************************)
EXTENDS Naturals

CONSTANT Loads   \* the numbers of the loads, in the order they are made

VARIABLES
    described,   \* 0 or the accepted load whose descriptions the host holds
    serving,     \* 0 or the load whose program a frame runs
    frame        \* 0 or the load the last answered frame came from

service_vars == <<described, serving, frame>>

ServiceInit == described = 0 /\ serving = 0 /\ frame = 0

\* A later text replaces the descriptions and the program together.
Accept ==
    /\ \E n \in Loads : n > described /\ described' = n /\ serving' = n
    /\ frame' = 0

\* A load that throws while it compiles takes the program away.
Disarm ==
    /\ serving' = 0
    /\ UNCHANGED <<described, frame>>

\* A run that returns: its events are of the program the host has described.
Frame ==
    /\ serving # 0
    /\ frame' = serving
    /\ UNCHANGED <<described, serving>>

\* The host calls again, or a run throws.
NoFrame ==
    /\ frame' = 0
    /\ UNCHANGED <<described, serving>>

ServiceNext == Accept \/ Disarm \/ Frame \/ NoFrame

ServiceSpec == ServiceInit /\ [][ServiceNext]_service_vars
=============================================================================
