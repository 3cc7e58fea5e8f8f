--------------------------- MODULE PrepaidAccounts ---------------------------
(***************************************************************************)
(* What the prepaid balances promise to the owner of a key: the receipt of *)
(* a paid zap is published once, after it the amount is credited once; and *)
(* as long as no two operations on the account collided, each of them is   *)
(* one atomic step: a credit that can be stored adds its full amount, up to*)
(* the largest balance, and a charge takes its price out of a balance that *)
(* covers it.  A collision spoils the account: from then on an operation   *)
(* may leave any balance.  The promise is per delivery: a request that is  *)
(* delivered again may be charged again.                                   *)
(***************************************************************************)
EXTENDS Integers

CONSTANTS Npub, Zap, Delivery, Owner, Msat, MaxBalance

VARIABLES
    funds,      \* [Npub -> 0..MaxBalance]
    receipted,  \* zaps whose receipt is published
    credited,   \* zaps whose amount is in funds
    charged,    \* deliveries that took their price out of funds
    spoiled     \* keys of accounts on which operations collided

vars == <<funds, receipted, credited, charged, spoiled>>

Init ==
    /\ funds = [n \in Npub |-> 0]
    /\ receipted = {}
    /\ credited = {}
    /\ charged = {}
    /\ spoiled = {}

Receipt(z) ==
    /\ z \notin receipted
    /\ receipted' = receipted \cup {z}
    /\ UNCHANGED <<funds, credited, charged, spoiled>>

\* Operation h leaves b in its account.
Leaves(h, b) == funds' = [funds EXCEPT ![Owner[h]] = b]

LeavesAny(h) == \E b \in 0 .. MaxBalance : Leaves(h, b)

Deposit(n, amount) ==
    IF funds[n] + amount > MaxBalance THEN MaxBalance ELSE funds[n] + amount

Credit(z) ==
    /\ z \in receipted \ credited
    /\ credited' = credited \cup {z}
    /\ \/ Owner[z] \in spoiled /\ LeavesAny(z)
       \/ Msat[z] > MaxBalance /\ LeavesAny(z)
       \/ Leaves(z, Deposit(Owner[z], Msat[z]))
    /\ UNCHANGED <<receipted, charged, spoiled>>

Charge(d) ==
    /\ d \notin charged
    /\ charged' = charged \cup {d}
    /\ \/ Owner[d] \in spoiled /\ LeavesAny(d)
       \/ funds[Owner[d]] >= Msat[d] /\ Leaves(d, funds[Owner[d]] - Msat[d])
    /\ UNCHANGED <<receipted, credited, spoiled>>

Collide(n) ==
    /\ spoiled' = spoiled \cup {n}
    /\ UNCHANGED <<funds, receipted, credited, charged>>

Next ==
    \/ \E z \in Zap : Receipt(z) \/ Credit(z)
    \/ \E d \in Delivery : Charge(d)
    \/ \E n \in Npub : Collide(n)

Spec == Init /\ [][Next]_vars

=============================================================================
