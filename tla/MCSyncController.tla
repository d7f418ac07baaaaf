-------------------------- MODULE MCSyncController ---------------------------
(***************************************************************************)
(* Small instances of SyncController.                                      *)
(***************************************************************************)
EXTENDS SyncController

CallBack   == {"syncNow", "notifyLocalWrite"}
NoCallBack == {}
=============================================================================
