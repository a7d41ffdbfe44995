----------------------------- MODULE AuditChain ----------------------------
(***************************************************************************)
(* What an audit trail promises: one chain of events that only grows, in    *)
(* which every event it acknowledged stays.  A failure of the machine may   *)
(* take back the last events, never an acknowledged one.                   *)
(***************************************************************************)
EXTENDS Naturals, Sequences, SequencesExt

CONSTANTS Events

VARIABLES
    chain,         \* the events in the order of the chain
    acknowledged   \* events whose append returned

chainVars == <<chain, acknowledged>>

ChainInit == chain = <<>> /\ acknowledged = {}

Extend(e) ==
    /\ e \notin ToSet(chain)
    /\ chain' = Append(chain, e)
    /\ UNCHANGED acknowledged

Acknowledge(e) ==
    /\ e \in ToSet(chain) \ acknowledged
    /\ acknowledged' = acknowledged \cup {e}
    /\ UNCHANGED chain

Lose(k) ==
    /\ acknowledged \subseteq ToSet(SubSeq(chain, 1, k))
    /\ chain' = SubSeq(chain, 1, k)
    /\ UNCHANGED acknowledged

ChainNext ==
    \/ \E e \in Events : Extend(e) \/ Acknowledge(e)
    \/ \E k \in 0..Len(chain) : Lose(k)

ChainSpec == ChainInit /\ [][ChainNext]_chainVars
============================================================================
