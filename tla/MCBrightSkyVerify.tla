------------------------- MODULE MCBrightSkyVerify -------------------------
(***************************************************************************)
(* BrightSkyVerify on a queue with one entry of each kind, or on its first *)
(* entry alone.                                                            *)
(***************************************************************************)
EXTENDS BrightSkyVerify

Current == [stale |-> FALSE, mappable |-> TRUE]

MCEntries == << Current,
                [Current EXCEPT !.mappable = FALSE],
                [Current EXCEPT !.stale = TRUE] >>

=============================================================================
