-------------------------------- MODULE Inbox --------------------------------
(***************************************************************************)
(* What the Telegram bot promises about the operator's commands: each is   *)
(* handled, in the order they were sent and at most once in one life of    *)
(* the bot; none is confirmed, and so forgotten by the server, before it   *)
(* was handled.  A new life begins again with the first unconfirmed one.   *)
(***************************************************************************)
EXTENDS Naturals

VARIABLES
    sent,       \* how many commands were sent
    handled,    \* how many of them this life of the bot is through with
    confirmed   \* how many the server has been told to forget

vars == <<sent, handled, confirmed>>

Init == sent = 0 /\ handled = 0 /\ confirmed = 0

Send == sent' = sent + 1 /\ UNCHANGED <<handled, confirmed>>
Handle == handled < sent /\ handled' = handled + 1 /\ UNCHANGED <<sent, confirmed>>
Confirm == confirmed < handled /\ confirmed' \in confirmed + 1 .. handled /\ UNCHANGED <<sent, handled>>
Restart == handled' = confirmed /\ UNCHANGED <<sent, confirmed>>

Next == Send \/ Handle \/ Confirm \/ Restart
Spec == Init /\ [][Next]_vars /\ WF_vars(Handle)
=============================================================================
