---------------------------- MODULE SectionSlot ----------------------------
(***************************************************************************)
(* What the Kusto execution coordinator promises its callers ("per-editor  *)
(* Kusto reservation, replacement, exact cancellation, dispatch capture,   *)
(* and exactly-once terminal authority"): a section is a slot that one     *)
(* execution holds at a time.  An execution takes the slot of one section, *)
(* at most once, whoever held it before; it is answered exactly once, when *)
(* it gives the slot up or loses it; one that never got the slot may be    *)
(* answered at once.                                                       *)
(***************************************************************************)
EXTENDS Naturals

CONSTANTS Sections, Execs, None

VARIABLES
    holder,     \* the execution that holds each section
    home,       \* the section an execution was given
    answers     \* how often an execution was answered

slotVars == <<holder, home, answers>>

SlotInit ==
    /\ holder = [s \in Sections |-> None]
    /\ home = [e \in Execs |-> None]
    /\ answers = [e \in Execs |-> 0]

Answer(S) == answers' = [e \in Execs |-> IF e \in S THEN answers[e] + 1 ELSE answers[e]]

Holders == {holder[s] : s \in Sections} \ {None}

Take(e, s) ==
    /\ home[e] = None /\ answers[e] = 0
    /\ home' = [home EXCEPT ![e] = s]
    /\ holder' = [holder EXCEPT ![s] = e]
    /\ Answer({holder[s]} \ {None})

Release(S) ==
    /\ S # {} /\ S \subseteq Holders
    /\ holder' = [s \in Sections |-> IF holder[s] \in S THEN None ELSE holder[s]]
    /\ Answer(S)
    /\ UNCHANGED home

Refuse(e) ==
    /\ home[e] = None /\ answers[e] = 0
    /\ Answer({e})
    /\ UNCHANGED <<holder, home>>

SlotNext ==
    \/ \E e \in Execs, s \in Sections : Take(e, s)
    \/ \E S \in SUBSET Execs : Release(S)
    \/ \E e \in Execs : Refuse(e)

SlotSpec == SlotInit /\ [][SlotNext]_slotVars

=============================================================================
