------------------------ MODULE MCDynamicNavigation ------------------------
(* Four messages: pages above and below one that is built again.           *)
EXTENDS DynamicNavigation
=============================================================================
