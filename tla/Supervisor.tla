----------------------------- MODULE Supervisor -----------------------------
(***************************************************************************)
(* What the watchdogs, however many cron has running at once, amount to:   *)
(* one supervisor.  Only who is inside launches, and only when no core     *)
(* runs and none is on record; who goes out leaves the running core on     *)
(* record.  A core may end at any moment.  Who is killed inside leaves the *)
(* door shut until the device reboots.                                     *)
(***************************************************************************)
CONSTANTS
    Guards,     \* who may come in
    Pids,       \* names of cores
    NoPid

VARIABLES
    shut,       \* nobody may come in
    inside,     \* who is in, at most one
    cores,      \* the cores that run, at most one
    recorded    \* the core on record

vars == <<shut, inside, cores, recorded>>

Init == shut = FALSE /\ inside = {} /\ cores = {} /\ recorded = NoPid

Enter == /\ ~shut /\ shut' = TRUE
         /\ \E p \in Guards : inside' = {p}
         /\ UNCHANGED <<cores, recorded>>
\* What is on record does not run.
Forget == /\ inside # {} /\ recorded \notin cores /\ recorded' = NoPid
          /\ UNCHANGED <<shut, inside, cores>>
Launch == /\ inside # {} /\ cores = {} /\ recorded = NoPid
          /\ \E c \in Pids : cores' = {c}
          /\ UNCHANGED <<shut, inside, recorded>>
\* The core launched, which may be gone by now, and no other.
Record == /\ inside # {} /\ recorded = NoPid
          /\ \E c \in Pids : cores \subseteq {c} /\ recorded' = c
          /\ UNCHANGED <<shut, inside, cores>>
Leave == /\ inside # {} /\ cores \subseteq {recorded}
         /\ shut' = FALSE /\ inside' = {}
         /\ UNCHANGED <<cores, recorded>>
Vanish == /\ inside # {} /\ inside' = {}
          /\ UNCHANGED <<shut, cores, recorded>>
End == /\ cores # {} /\ cores' = {}
       /\ UNCHANGED <<shut, inside, recorded>>
Reboot == shut' = FALSE /\ inside' = {} /\ cores' = {} /\ recorded' = NoPid

Next == Enter \/ Forget \/ Launch \/ Record \/ Leave \/ Vanish \/ End \/ Reboot
Spec == Init /\ [][Next]_vars
=============================================================================
