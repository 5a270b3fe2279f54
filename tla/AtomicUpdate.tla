----------------------------- MODULE AtomicUpdate -----------------------------
(***************************************************************************)
(* What an A/B update promises the machine, without slots, files, reports  *)
(* or an agent: there is the system that is known to be good, the one the  *)
(* boot loader will start and the one that runs.  An offered system takes  *)
(* the place of the good one at the next boot as a whole or not at all;    *)
(* it becomes the good one, or the good one comes back.                    *)
(*                                                                         *)
(* Nothing makes a commit wait for the boot: a report that is already set  *)
(* when an update is asked for is taken in the same poll.                  *)
(*                                                                         *)
(* The promise rests on a disk that keeps what it is given.  In a step     *)
(* that begins or ends with a lost write no more is promised than that the *)
(* running system changes by a boot alone.                                 *)
(***************************************************************************)
CONSTANTS
    Version,     \* the systems there are
    Nothing,     \* no system: the machine does not come up
    Broken,      \* what is not a whole system
    MayTear      \* may the choice of the next system be lost in a crash?

VARIABLES
    committed, next, booted,
    kept         \* has the disk kept what it was given last?

vars == <<committed, next, booted, kept>>

Init ==
    /\ committed \in Version
    /\ next = committed /\ booted = committed
    /\ kept = TRUE

Offer ==
    /\ next = committed /\ booted = committed
    /\ next' \in Version
    /\ UNCHANGED <<committed, booted>>

Boot ==
    /\ booted' = next
    /\ UNCHANGED <<committed, next>>

Commit ==
    /\ next \in Version
    /\ committed' = next
    /\ UNCHANGED <<next, booted>>

RollBack ==
    /\ next \in Version
    /\ next' = committed
    /\ UNCHANGED <<committed, booted>>

\* The crash that loses the choice may be the one the machine boots from.
Tear ==
    /\ MayTear
    /\ next' = Nothing /\ booted' \in {booted, Nothing}
    /\ UNCHANGED committed

\* A file that was lost, or found lost and written anew.
Lose ==
    /\ ~(kept /\ kept')
    /\ kept' \in BOOLEAN
    /\ committed' \in Version \cup {Broken}
    /\ next' \in Version \cup {Broken, Nothing}
    /\ booted' \in {booted, next, Nothing}

Next ==
    \/ (Offer \/ Boot \/ Commit \/ RollBack \/ Tear) /\ UNCHANGED kept
    \/ Lose

Spec == Init /\ [][Next]_vars
=============================================================================
