------------------------------ MODULE MCUsers ------------------------------
(***************************************************************************)
(* A small instance of Users for TLC: a database that may hold ann, two    *)
(* addresses, three passwords.                                             *)
(***************************************************************************)
EXTENDS Users, TLC

CONSTANTS ann, mailA, mailB, p0, p1, p2, r1, r2, r3

OneUser == {ann}
TwoEmails == {mailA, mailB}
EmailOfAnn == ann :> mailA
ThreePasswords == {p0, p1, p2}
ThreeRequests == {r1, r2, r3}

Creation(op, email) ==
    [op |-> op, target |-> ann, email |-> email, old |-> p0, new |-> p1]

Edit(op, old, new) ==
    [op |-> op, target |-> ann, email |-> mailA, old |-> old, new |-> new]

\* Seeders and registrations that meet on an address; changes of ann's password
\* from what it is at the start, from what it may become, and back.
UserJobs ==
    { Creation("seed", mailA), Creation("seed", mailB),
      Creation("register", mailA), Creation("register", mailB),
      Edit("password", p0, p1), Edit("password", p0, p2), Edit("password", p1, p0),
      Edit("profile", p0, p0), Edit("deactivate", p0, p0) }
=============================================================================
