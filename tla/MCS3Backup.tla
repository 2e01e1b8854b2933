----------------------------- MODULE MCS3Backup -----------------------------
(* The instances of S3Backup that TLC checks.                              *)
EXTENDS S3Backup

Two    == 1 .. 2
OneMd5 == {1}
=============================================================================
