---------------------------- MODULE MCHousehold ----------------------------
(***************************************************************************)
(* Small instances of Household for TLC: a household home of two admins,   *)
(* ann and bob, a user cid outside it, an id dan no user has yet, and an   *)
(* id flat that a request may create.                                      *)
(***************************************************************************)
EXTENDS Household, TLC

CONSTANTS home, flat, ann, bob, cid, dan, r1, r2, r3

TwoHouseholds == {home, flat}
AllUsers == {ann, bob, cid, dan}
UsersAtStart == {ann, bob, cid}
TwoAdmins == {ann, bob}
TwoRequests == {r1, r2}
ThreeRequests == {r1, r2, r3}

Task(op, where, caller, target, role) ==
    [op |-> op, house |-> where, caller |-> caller, target |-> target, role |-> role]

\* Two admins who remove themselves or each other, an outsider who is added as
\* admin or as member, and acts too.  dan may be named before it is a user.
Removals == {Task("remove", home, c, t, "OTHER") : c \in {ann, bob}, t \in {ann, bob}}

Additions ==
    {Task("add", home, ann, cid, role) : role \in {"ADMIN", "MEMBER", "OTHER"}} \cup
    {Task("add", home, ann, dan, "MEMBER"), Task("add", home, ann, bob, "MEMBER")}

\* By cid, who may be no member yet, a plain member, or an admin.
ByNewcomer == {Task(op, home, cid, cid, "OTHER") : op \in {"rename", "deactivate", "remove"}}

Others ==
    { Task("create", flat, cid, cid, "OTHER"), Task("createUser", home, bob, dan, "OTHER"),
      Task("rename", home, ann, ann, "OTHER"), Task("deactivate", home, bob, bob, "OTHER"),
      Task("closeUser", home, cid, ann, "OTHER"), Task("closeUser", home, bob, bob, "OTHER"),
      Task("closeUser", home, ann, dan, "OTHER") }

SafetyJobs == Removals \cup Additions \cup ByNewcomer \cup Others

Symmetry == Permutations(Requests)
=============================================================================
