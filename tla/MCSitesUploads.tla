----------------------------- MODULE MCSitesUploads -----------------------------
(* An instance of the uploads for TLC.                                      *)
EXTENDS SitesUploads, TLC

CONSTANTS old, new

================================================================================
