----------------------------- MODULE StoredData -----------------------------
(***************************************************************************)
(* What the tools leave on the disk: gc_stream stores images, one call     *)
(* after the other, and gc_pointcloud stores the mesh of a disparity       *)
(* image.  A behaviour is one of the two tools.                            *)
(***************************************************************************)
EXTENDS ImageStore, PointCloud

vars == <<storeVars, cloudVars>>

StoresImages ==
  /\ StoreInit
  /\ NoCloud(FALSE) /\ disp = [c \in Pixels |-> 0] /\ vstep \in {Min(DepthSteps)}

StoresCloud ==
  /\ files = [f \in FileNames |-> Nobody] /\ call = Idle /\ calls = MaxCalls
  /\ CloudInit

Init == StoresImages \/ StoresCloud

Next ==
  \/ StoreNext /\ UNCHANGED cloudVars
  \/ CloudNext /\ UNCHANGED storeVars

Spec == Init /\ [][Next]_vars
=============================================================================
