--------------------------- MODULE NotificationFeed ---------------------------
(***************************************************************************)
(* What a monitor promises the application: the notifications the server   *)
(* sends, numbered from 1, in their order and each at most once.  Some may *)
(* never come.                                                             *)
(***************************************************************************)
EXTENDS Naturals, Sequences

VARIABLES
    published,  \* the last notification sent
    seen        \* those the application was given

Init == published = 0 /\ seen = <<>>

Publish == published' = published + 1 /\ UNCHANGED seen

Deliver ==
    /\ \E n \in 1..published :
          /\ \A i \in DOMAIN seen : seen[i] < n
          /\ seen' = Append(seen, n)
    /\ UNCHANGED published

Next == Publish \/ Deliver

Spec == Init /\ [][Next]_<<published, seen>>
=============================================================================
