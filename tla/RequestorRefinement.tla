------------------------ MODULE RequestorRefinement ------------------------
(* The requestor implements Download: the chunks it has are those whose    *)
(* place in the output file holds the right content, and while a download  *)
(* is under way a peer is asked for what downloading says.                 *)
EXTENDS Requestor

Obtained == {i \in Chunks : file[i] = Content(HashOf[i])}

AskedFor == [p \in Peers |-> IF in_progress THEN downloading[p] ELSE None]

D == INSTANCE Download WITH active <- in_progress, have <- Obtained, asked <- AskedFor

(* Every behaviour of the requestor, whatever the peers and the network    *)
(* send, is a behaviour of Download.                                       *)
ImplementsDownload == D!Spec
=============================================================================
