--------------------------- MODULE ChunkAcquisition ---------------------------
(***************************************************************************)
(* What the client side of a peer promises, with no transfers, windows or *)
(* network: the user's GET makes the chunks it names that the peer lacks  *)
(* pending, and a pending chunk is acquired only from a peer that holds   *)
(* it.  The wanted set is dropped exactly when nothing is pending any     *)
(* more (check_all_received() has written the output).                    *)
(*                                                                         *)
(* P2P implements this specification under the mapping that takes the    *)
(* missing list to the set of its hashes (see P2P.tla).                   *)
(***************************************************************************)
EXTENDS SequencesExt

CONSTANTS Nodes, Chunks, HasChunks, GetChunks

VARIABLES
    have,       \* have[n]: chunks n holds
    pending,    \* pending[n]: chunks of n's GET that n does not hold yet
    wanted,     \* wanted[n]: chunks of n's GET while one is still pending
    requested   \* requested[n]: n's user has issued its GET

absVars == <<have, pending, wanted, requested>>

(* wanted is cleared once nothing is pending.                              *)
AllReceived(pend, wnt) == IF pend = {} THEN {} ELSE wnt

AbsInit ==
    /\ have = HasChunks
    /\ pending = [n \in Nodes |-> {}]
    /\ wanted = [n \in Nodes |-> {}]
    /\ requested = [n \in Nodes |-> FALSE]

(* process_get(): the GET's chunks that n lacks become pending.            *)
Request(n) ==
    LET pend == pending[n] \cup (Range(GetChunks[n]) \ have[n])
    IN /\ ~requested[n]
       /\ requested' = [requested EXCEPT ![n] = TRUE]
       /\ pending' = [pending EXCEPT ![n] = pend]
       /\ wanted' = [wanted EXCEPT ![n] =
                        AllReceived(pend, @ \cup Range(GetChunks[n]))]
       /\ UNCHANGED have

(* receive_DATA() completing a valid chunk c: c is pending at n and held  *)
(* by the peer that sent it.                                               *)
Acquire(n, c) ==
    LET pend == pending[n] \ {c}
    IN /\ c \in pending[n]
       /\ \E q \in Nodes \ {n} : c \in have[q]
       /\ have' = [have EXCEPT ![n] = @ \cup {c}]
       /\ pending' = [pending EXCEPT ![n] = pend]
       /\ wanted' = [wanted EXCEPT ![n] = AllReceived(pend, @)]
       /\ UNCHANGED requested

AbsNext == \E n \in Nodes : Request(n) \/ \E c \in Chunks : Acquire(n, c)

AbsSpec == AbsInit /\ [][AbsNext]_absVars

(* What the client promises to make happen: a user's GET is processed,    *)
(* and a chunk that stays pending while some other peer holds it is       *)
(* acquired.                                                               *)
AbsFairness ==
    \A n \in Nodes : /\ WF_absVars(Request(n))
                     /\ \A c \in Chunks : WF_absVars(Acquire(n, c))

AbsLiveSpec == AbsSpec /\ AbsFairness
=============================================================================
