--------------------------- MODULE MCConfigImport ---------------------------
(* Small instances of ConfigImport for TLC.                                *)
EXTENDS ConfigImport

NoRow == [rev |-> 1, ref |-> 0]
Below(i) == [rev |-> 1, ref |-> i]

\* Three devices on two connections, of which the first has been deleted and
\* added again, so that its id is not 1.
ThreeDevices ==
  [db |-> [conn |-> [c \in {2, 3} |-> NoRow],
           dev |-> <<Below(2), Below(3), Below(2)>>, point |-> <<Below(2)>>],
   seq |-> [conn |-> 3, point |-> 1]]

\* The third point was added to the first device after the second device got
\* its own.
ThreePoints ==
  [db |-> [conn |-> <<NoRow>>, dev |-> <<Below(1), Below(1)>>,
           point |-> <<Below(1), Below(2), Below(1)>>],
   seq |-> [conn |-> 1, point |-> 3]]

TwoConfigs == {ThreeDevices, ThreePoints}
=============================================================================
