--------------------------- MODULE MCRecordRing ---------------------------
(* RecordRing with chunks of three blocks on a ring of four chunks; a take    *)
(* may follow one that ended a chunk beyond the area.                        *)
EXTENDS RecordRing
============================================================================
