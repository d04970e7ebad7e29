---------------------------- MODULE MCCdpSession ----------------------------
\* Instances of CdpSession for TLC.
EXTENDS CdpSession, TLC

CONSTANTS c1, c2

\* One caller with a tool of each kind - steps that may fail, steps that may not, a
\* poll, a result that may be empty - and one that comes between with a command.
SomeToolAndNavigate ==
    c1 :> {"click", "type", "wait", "screenshot"} @@ c2 :> {"navigate"}
=============================================================================
