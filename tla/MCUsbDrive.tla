----------------------------- MODULE MCUsbDrive -----------------------------
(* Instances of UsbDrive for TLC. *)
EXTENDS UsbDrive

CONSTANTS sensor, readme, value1

BothNames == {sensor, readme}
SameAlias == [n \in BothNames |-> n]
SameName1 == [n \in BothNames |-> n]
Listings  == [file |-> SameName1, dir |-> SameName1]
OneBlock  == {<<value1>>}
OldTrees  == {NoFiles, At(<<readme>>, <<value1>>)}
=============================================================================
