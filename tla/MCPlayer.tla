-------------------------------- MODULE MCPlayer --------------------------------
(***************************************************************************)
(* Constants for checking NBMediaPlayer.                                   *)
(***************************************************************************)
EXTENDS NBMediaPlayer

\* Both streams, then possibly a file with one.
MCMedias == {{"video", "audio"}, {"video"}, {"audio"}}

=================================================================================
