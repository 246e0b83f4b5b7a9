------------------------------ MODULE MCLimitServ ------------------------------
EXTENDS LimitServ, TLC

CONSTANTS u1, b1, ls

MCUsers == {u1}
MCOtherBots == {b1}
MCBotOrder == <<b1, ls>>

=============================================================================
