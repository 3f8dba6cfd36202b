------------------------------ MODULE MCSyncPull ------------------------------
(* Two customers and a delivery, one row of a collection to a page.            *)
EXTENDS SyncPull
=============================================================================
