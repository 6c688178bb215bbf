------------------------------ MODULE MCExtractor ------------------------------
(***************************************************************************)
(* A file of two tracks, v and a, whose packets are unevenly interleaved.  *)
(***************************************************************************)
EXTENDS NBFFmpegExtractor

CONSTANTS v, a

TwoTracks == {v, a}
Uneven    == <<v, a, v, v, a>>
Short     == <<v, a, v>>

=============================================================================
