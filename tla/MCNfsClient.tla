---------------------------- MODULE MCNfsClient ----------------------------
(***************************************************************************)
(* NfsClient for TLC: port 1 is the port mapper's, 2 the mount service's,  *)
(* 3 the NFS service's; 0 is what the port mapper says of a program it     *)
(* does not know.                                                          *)
(***************************************************************************)
EXTENDS NfsClient, TLC

MCPorts == 0 .. 3
MCListening == 1 .. 3
MCOps == PortMapperOps \cup MountOps
MCRequests == [op : MCOps, seq : Nat]
MCSeeds == {9}
MCValues == MCPorts \cup Handles \cup {Denied, Void}

\* Handles are only compared: any two may be exchanged.
HandleSymmetry == Permutations(Handles)

\* main without the lookup that ends it, so that the umount is reached, and
\* with a MountContext that is used twice.
RemountScript == <<"getMountPort", "setMountPort", "makeMountCall",
                   "addMountHandle", "makeMountCall", "makeUmountCall">>
=============================================================================
