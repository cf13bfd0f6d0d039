------------------------------ MODULE MCStream ------------------------------
(* Small instances of Stream for TLC.                                      *)
EXTENDS Stream

CONSTANTS aws, b2, gcs   \* tags

\* Snapshots are held with three tags, of which the settings release two.
MCTags    == {aws, b2, gcs}
MCRelease == <<aws, b2>>
=============================================================================
