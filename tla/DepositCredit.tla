--------------------------- MODULE DepositCredit ---------------------------
(***************************************************************************)
(* What a user who deposits is promised, whichever worker, recovery pass   *)
(* or repeated claim gets there first: the deposit arrives at its address, *)
(* its amount is swept from there to the wallet, and it is credited, in    *)
(* this order, once, and for good.  Nothing else ever moves a deposit      *)
(* forward, and nothing moves it back.                                     *)
(***************************************************************************)
CONSTANT Deposit

VARIABLES
    arrived,    \* deposits at their address
    swept,      \* deposits a sweep of which was mined
    credited    \* deposits credited in the contract

vars == <<arrived, swept, credited>>

Init == arrived = {} /\ swept = {} /\ credited = {}

Arrive(d) ==
    /\ d \notin arrived
    /\ arrived' = arrived \cup {d}
    /\ UNCHANGED <<swept, credited>>

Sweep(d) ==
    /\ d \in arrived \ swept
    /\ swept' = swept \cup {d}
    /\ UNCHANGED <<arrived, credited>>

Credit(d) ==
    /\ d \in swept \ credited
    /\ credited' = credited \cup {d}
    /\ UNCHANGED <<arrived, swept>>

Next == \E d \in Deposit : Arrive(d) \/ Sweep(d) \/ Credit(d)

Spec == Init /\ [][Next]_vars
=============================================================================
