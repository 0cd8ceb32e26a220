----------------------------- MODULE MCAttention -----------------------------
(***************************************************************************)
(* The instances of Attention that TLC checks.                             *)
(***************************************************************************)
EXTENDS Attention

CONSTANT morning

MCPayloads == <<2, 1>>
MCThreeEvents == <<2, 1, 1>>
MCBriefing == {morning}
MCOccurs == [b \in Briefing |-> {2}]
MCMuted == {<<1, 2>>}
MCSetups == [runner : {FALSE}, pusher : BOOLEAN] \cup [runner : {TRUE}, pusher : {TRUE}]
MCFullSetup == [runner : {TRUE}, pusher : {TRUE}]
MCQuiet == {}
=============================================================================
