---------------------------- MODULE AdminHandover ----------------------------
(***************************************************************************)
(* What the two-step handover of the admin role promises: the role changes *)
(* hands only when the person nominated by its holder takes it over, and    *)
(* the holder may nominate somebody else, or nobody, until then.            *)
(***************************************************************************)
CONSTANTS
  People,  \* who may hold the role
  NoOne    \* none of them

VARIABLES admin, nominee

Init == admin \in People \cup {NoOne} /\ nominee = NoOne

\* The first holder.
Found(person) ==
  /\ admin = NoOne
  /\ admin' = person
  /\ UNCHANGED nominee

Nominate(person) ==
  /\ admin # NoOne
  /\ person # admin
  /\ nominee' = person
  /\ UNCHANGED admin

Withdraw ==
  /\ nominee' = NoOne
  /\ UNCHANGED admin

TakeOver ==
  /\ nominee # NoOne
  /\ admin' = nominee
  /\ nominee' = NoOne

Next ==
  \/ \E person \in People : Found(person) \/ Nominate(person)
  \/ Withdraw
  \/ TakeOver

Spec == Init /\ [][Next]_<<admin, nominee>>
=============================================================================
