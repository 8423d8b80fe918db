---------------------------- MODULE MCLinkEngine ----------------------------
(* The payloads and records of the LinkEngine runs: tuples cannot be written in a cfg. *)
EXTENDS LinkEngine

MCPayloads == {<<1, 2, 1>>}
MCFrames   == {<<1>>, <<2, 1>>}
=============================================================================
