--------------------------- MODULE MCRemoteStore ---------------------------
(* A clone with a scratch disk that registers files in it, and two paths   *)
(* of one file name, the first of them at the top of the project.          *)
EXTENDS RemoteStore

CONSTANTS nfs, scratch, c1, c2

MCHome == [pl \in Places |-> nfs]
MCUses == [pl \in Places |-> IF pl = nfs THEN Commands ELSE {"push", "ensure"}]
MCName == [p \in Paths |-> 1]
MCOutputs == {<<nfs, 1, c1>>, <<nfs, 1, c2>>, <<scratch, 1, c1>>, <<scratch, 2, c1>>}
MCSize == [c \in Data |-> IF c = Torn THEN 1 ELSE 2]
=============================================================================
