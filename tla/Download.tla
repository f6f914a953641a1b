------------------------------ MODULE Download ------------------------------
(***************************************************************************)
(* What a download promises, without how it is done: a set of chunks that  *)
(* the output file holds, and a matching between the peers and the chunks  *)
(* they are asked for.  The set grows by one chunk at a time, always one   *)
(* that some peer was being asked for, and the download is over exactly    *)
(* when the set is complete.  Requestor implements this specification.     *)
(***************************************************************************)
EXTENDS Integers

CONSTANTS Peers, NumChunks

None   == -1
Chunks == 0 .. NumChunks - 1

VARIABLES
  active,   \* a download is under way
  have,     \* the chunks the output file holds
  asked     \* asked[p]: the chunk peer p is asked for, or None

vars == <<active, have, asked>>

Nobody == [p \in Peers |-> None]

(* Nobody is asked for a chunk that is already there, and no chunk is      *)
(* asked of two peers.                                                     *)
Matchings(wanted) ==
  {a \in [Peers -> wanted \cup {None}] :
     \A p, q \in Peers : a[p] = a[q] /\ a[p] # None => p = q}

Init ==
  /\ active = FALSE
  /\ have = {}
  /\ asked = Nobody

Start ==
  /\ ~ active
  /\ active' = TRUE
  /\ have' = {}
  /\ asked' = Nobody

(* A command that cannot be carried out still empties the output file.     *)
Truncate ==
  /\ ~ active
  /\ have' = {}
  /\ UNCHANGED <<active, asked>>

(* Peers are asked, given up or asked again.                               *)
Ask ==
  /\ active
  /\ asked' \in Matchings(Chunks \ have)
  /\ UNCHANGED <<active, have>>

(* The chunk that p was asked for arrives; others may be asked for.        *)
Obtain(p) ==
  /\ active
  /\ asked[p] # None
  /\ have' = have \cup {asked[p]}
  /\ active' = (have' # Chunks)
  /\ asked' \in Matchings(Chunks \ have')

Next == Start \/ Truncate \/ Ask \/ \E p \in Peers : Obtain(p)

Spec == Init /\ [][Next]_vars
=============================================================================
