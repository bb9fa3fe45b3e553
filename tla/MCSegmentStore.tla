--------------------------- MODULE MCSegmentStore ---------------------------
(* Small instances of SegmentStore. *)
EXTENDS SegmentStore
=============================================================================
