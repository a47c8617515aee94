--------------------------- MODULE MCFilterRestart ---------------------------
(***************************************************************************)
(* The filter with a history variable: the drivers of which RS has started *)
(* a new instance that restart_driver has not waited for yet.              *)
(***************************************************************************)
EXTENDS MCFilter

VARIABLE fresh

\* restart_driver returns for driver w.
Restarted(w) == pc = <<"restart", w>> /\ pc' # pc

HInit == Init /\ fresh = {}

HNext ==
    /\ Next
    /\ fresh' = (fresh \ {driver[w].label : w \in {v \in Which : Restarted(v)}}) \cup (up' \ up)

HSpec == HInit /\ [][HNext]_<<vars, fresh>>

\* "Restart the given driver. Block until the new instance is up"
\* (filter/driver.c:418): when restart_driver returns, RS has started an
\* instance of the driver since it last returned for that driver.
RestartsAreNew == [][\A w \in Which : Restarted(w) => driver[w].label \in fresh]_<<vars, fresh>>
=============================================================================
