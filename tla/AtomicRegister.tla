--------------------------- MODULE AtomicRegister ---------------------------
(***************************************************************************)
(* What writeRecoverableSqlStateSnapshot promises: one durable text that   *)
(* changes in a single step, from the text before a transaction to the     *)
(* text the transaction offered, and that no crash or failed write takes   *)
(* away.                                                                   *)
(***************************************************************************)
CONSTANTS Writers, Texts, None

VARIABLES
    value,      \* the durable text
    offered     \* the text each writer is trying to make durable

registerVars == <<value, offered>>

RegisterInit == value = None /\ offered = [w \in Writers |-> None]

Offer(w, t) ==
    /\ offered[w] = None
    /\ offered' = [offered EXCEPT ![w] = t]
    /\ UNCHANGED value

Commit(w) ==
    /\ offered[w] # None
    /\ value' = offered[w]
    /\ offered' = [offered EXCEPT ![w] = None]

Withdraw(w) ==
    /\ offered[w] # None
    /\ offered' = [offered EXCEPT ![w] = None]
    /\ UNCHANGED value

RegisterNext ==
    \E w \in Writers : (\E t \in Texts : Offer(w, t)) \/ Commit(w) \/ Withdraw(w)

RegisterSpec == RegisterInit /\ [][RegisterNext]_registerVars
=============================================================================
