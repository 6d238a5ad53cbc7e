--------------------------- MODULE MCRemoteClient ---------------------------
(* Two phones for RemoteClient: the first has two addresses, the second has *)
(* no API version in common with this computer.                             *)
EXTENDS RemoteClient

CONSTANTS d1, d2

MCDescriptors == {[dev |-> d1, url |-> 1], [dev |-> d1, url |-> 2], [dev |-> d2, url |-> 1]}
=============================================================================
