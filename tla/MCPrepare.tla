------------------------------ MODULE MCPrepare ------------------------------
(***************************************************************************)
(* Constants for checking NBPlayerPrepare.                                 *)
(***************************************************************************)
EXTENDS NBPlayerPrepare

\* A container without tracks, one with audio only, and one with both.
MCContents == {{}, {"audio"}, {"audio", "video"}}
\* No video decoder that might not start.
MCAudio == {{}, {"audio"}}

\* The event is not running, or has not got the lock yet: the moments at which
\* the application can call reset() and the player is up to it.
MCQuiet == {"idle", "begin"}

==============================================================================
