--------------------------- MODULE MCModuleEvents ---------------------------
(* Two threads wait for module events while the device is closed, opened and *)
(* enabled again.                                                            *)
EXTENDS ModuleEvents
=============================================================================
