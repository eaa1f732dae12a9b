--------------------------- MODULE MCEditSession ---------------------------
(* Devices with two components, one of which may be combined images, and    *)
(* one feature of every kind that is edited as text.                        *)
EXTENDS EditSession

CONSTANTS c, blank

TheNames == <<"ComponentSelector", "Category", "ComponentEnable", "Command", "Feature">>

Device(list, selector, on, feature) ==
  [entries |-> list, selector |-> selector, runs |-> 0,
   enabled |-> [e \in list |-> IF e \in on THEN <<1>> ELSE <<0>>],
   kind |-> feature[1], access |-> feature[2], value |-> feature[3]]

Separate == {"Intensity", "Disparity"}
Combining == {"Intensity", Combined}

TheFeatures ==
  {<<"string", "RW", <<c>>>>, <<"string", "WO", <<c>>>>, <<"integer", "RW", -1>>,
   <<"hex", "RW", -2>>, <<"hex", "RW", 1>>, <<"ipv4", "RW", <<1, 0, 1, 1>>>>,
   <<"mac", "RW", <<1, 0, 1, 1, 0, 0>>>>, <<"float", "RW", <<1, 1>>>>,
   <<"float", "RW", <<1, 0>>>>, <<"register", "RW", <<0, 1>>>>}

\* The state of the components and the feature are varied one at a time.
TheDevices ==
  UNION {{Device(list, "Intensity", on, <<"string", "RW", <<>>>>) : on \in SUBSET list} :
           list \in {Separate, Combining}}
  \cup {Device(Separate, "Disparity", {"Intensity"}, feature) : feature \in TheFeatures}
=============================================================================
