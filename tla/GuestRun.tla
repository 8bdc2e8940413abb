------------------------------ MODULE GuestRun ------------------------------
(***************************************************************************)
(* A run of the guest code: what the translated program promises to do.    *)
(* gpc is the address of the next instruction of the function at address 0 *)
(* (calls are followed to their return), or one of two other values: Idle  *)
(* before it is called, Exited once it has returned.                       *)
(***************************************************************************)
EXTENDS GuestCode

VARIABLES code, labels, bodies, gpc

Idle   == -2
Exited == -3

GuestInit == gpc = Idle

\* The translator may still be at work on the code before the first call.
Prepare == gpc = Idle /\ gpc' = Idle /\ UNCHANGED <<code, labels>>

GuestCall == gpc = Idle /\ gpc' = 0 /\ UNCHANGED <<code, labels, bodies>>

GuestStep ==
    /\ gpc \in Addr
    /\ LET succ == SuccOf(code, labels, bodies, gpc)
       IN  IF succ = {} THEN gpc' = Exited ELSE gpc' \in succ
    /\ UNCHANGED <<code, labels, bodies>>

GuestSpec ==
    GuestInit /\ [][Prepare \/ GuestCall \/ GuestStep]_<<code, labels, bodies, gpc>>
=============================================================================
