---------------------------- MODULE MCRecording -----------------------------
(***************************************************************************)
(* Instances of Recording.                                                 *)
(***************************************************************************)
EXTENDS Recording

\* delete_local_after_upload, with and without post-transcode variants.
DeletingConfigs == [delete : {TRUE}, variants : BOOLEAN]
AllConfigs == Config
OneConfig == [delete : {TRUE}, variants : {FALSE}]
=============================================================================
