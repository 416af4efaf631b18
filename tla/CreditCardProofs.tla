-------------------------- MODULE CreditCardProofs --------------------------
(***************************************************************************)
(* Theorems about CreditCard for every set of accounts, requests and jobs. *)
(***************************************************************************)
EXTENDS CreditCard, TLAPS

\* What the statements make of rows are rows.
LEMMA RowTypes ==
    /\ NoRow \in Row
    /\ \A author \in Authors : RowOf(author) \in Row
    /\ \A old \in Row, field \in Fields, author \in Authors :
          Updated(old, field, author) \in Row
    /\ \A old \in Row : [old EXCEPT !.live = FALSE] \in Row
<1>1. \A author \in Authors : RowOf(author) \in Row
  BY DEF RowOf, Row
<1>2. NoRow \in Row
  <2>1. RowOf(NoRequest) \in Row
    BY <1>1 DEF Authors
  <2> QED
    BY <2>1 DEF NoRow, Row
<1>3. ASSUME NEW old \in Row, NEW field \in Fields, NEW author \in Authors
      PROVE  Updated(old, field, author) \in Row
  <2>1. [old.values EXCEPT ![field] = author] \in [Fields -> Authors]
    BY DEF Row
  <2>2. old.version + 1 \in Nat \ {0}
    BY DEF Row
  <2> QED
    BY <2>1, <2>2 DEF Row, Updated
<1>4. \A old \in Row : [old EXCEPT !.live = FALSE] \in Row
  BY DEF Row
<1> QED
  BY <1>1, <1>2, <1>3, <1>4

\* The values of every variable are of its type in every reachable state.
THEOREM TypeCorrect == Spec => []TypeOK
<1>1. Init => TypeOK
  BY RowTypes, CreditCardAssumption DEF Init, TypeOK, Steps, Replies, Authors
<1>2. TypeOK /\ [Next]_vars => TypeOK'
  <2> SUFFICES ASSUME TypeOK, [Next]_vars PROVE TypeOK'
    OBVIOUS
  <2>1. CASE UNCHANGED vars
    BY <2>1 DEF TypeOK, vars
  <2>2. ASSUME NEW r \in Requests, Handle(r) PROVE TypeOK'
    <3>0. job[r] \in Job /\ r \in Authors
      BY CreditCardAssumption DEF TypeOK, Authors
    <3>1. CASE CheckAccount(r)
      BY <3>1 DEF TypeOK, CheckAccount, Goto, Answer, Steps, Replies
    <3>2. CASE CreateSettings(r)
      BY <3>0, <3>2, RowTypes
      DEF TypeOK, CreateSettings, AnswerWritten, Answer, Steps, Replies, Job
    <3>3. CASE ReadSettings(r)
      BY <3>0, <3>3 DEF TypeOK, ReadSettings, Goto, Answer, Steps, Replies, Job
    <3>4. CASE UpdateSettings(r)
      <4>1. Updated(settings[job[r].acct], job[r].field, r) \in Row
        BY <3>0, RowTypes DEF TypeOK, Job
      <4> QED
        BY <3>0, <3>4, <4>1
        DEF TypeOK, UpdateSettings, AnswerWritten, Answer, Steps, Replies, Job
    <3>5. CASE DeleteSettings(r)
      BY <3>0, <3>5, RowTypes
      DEF TypeOK, DeleteSettings, AnswerWritten, Answer, Steps, Replies, Job
    <3>6. CASE DeactivateAccount(r)
      BY <3>6 DEF TypeOK, DeactivateAccount, AnswerWritten, Answer, Steps, Replies
    <3>7. CASE Fail(r)
      BY <3>7 DEF TypeOK, Fail, Answer, Steps, Replies
    <3> QED
      BY <2>2, <3>1, <3>2, <3>3, <3>4, <3>5, <3>6, <3>7 DEF Handle
  <2> QED
    BY <2>1, <2>2 DEF Next, Finished
<1> QED
  BY <1>1, <1>2, PTL DEF Spec

-----------------------------------------------------------------------------

\* A creation past its check is of an account of the right type.
CardInv ==
    /\ SettingsOfCards
    /\ \A r \in Requests :
          pc[r] = "write" /\ job[r].op = "create" => job[r].acct \in Cards

\* Only accounts of type CREDIT_CARD have settings.
THEOREM OnlyCards == Spec => []SettingsOfCards
<1>1. Init => CardInv
  BY CreditCardAssumption DEF Init, CardInv, SettingsOfCards, NoRow, RowOf
<1>2. TypeOK /\ CardInv /\ [Next]_vars => CardInv'
  <2> SUFFICES ASSUME TypeOK, CardInv, [Next]_vars PROVE CardInv'
    OBVIOUS
  <2>1. CASE UNCHANGED vars
    BY <2>1 DEF CardInv, SettingsOfCards, vars
  <2>2. ASSUME NEW r \in Requests, Handle(r) PROVE CardInv'
    <3>1. CASE CheckAccount(r)
      BY <3>1 DEF CardInv, SettingsOfCards, TypeOK, CheckAccount, IsCard, Goto, Answer
    <3>2. CASE CreateSettings(r)
      BY <3>2 DEF CardInv, SettingsOfCards, TypeOK, CreateSettings, AnswerWritten, Answer
    <3>3. CASE ReadSettings(r)
      BY <3>3 DEF CardInv, SettingsOfCards, TypeOK, ReadSettings, Goto, Answer
    <3>4. CASE UpdateSettings(r)
      BY <3>4 DEF CardInv, SettingsOfCards, TypeOK, UpdateSettings, Updated, AnswerWritten, Answer, Row
    <3>5. CASE DeleteSettings(r)
      BY <3>5 DEF CardInv, SettingsOfCards, TypeOK, DeleteSettings, AnswerWritten, Answer, Row
    <3>6. CASE DeactivateAccount(r)
      BY <3>6 DEF CardInv, SettingsOfCards, TypeOK, DeactivateAccount, AnswerWritten, Answer
    <3>7. CASE Fail(r)
      BY <3>7 DEF CardInv, SettingsOfCards, TypeOK, Fail, Answer
    <3> QED
      BY <2>2, <3>1, <3>2, <3>3, <3>4, <3>5, <3>6, <3>7 DEF Handle
  <2> QED
    BY <2>1, <2>2 DEF Next, Finished
<1>3. CardInv => SettingsOfCards
  BY DEF CardInv
<1> QED
  BY <1>1, <1>2, <1>3, TypeCorrect, PTL DEF Spec

-----------------------------------------------------------------------------

(***************************************************************************)
(* The row a client has read and the row that is there now: they are rows  *)
(* of different ids, or the one that is there is newer, or they are equal  *)
(* in what an update replaces.                                             *)
(***************************************************************************)
MovesOn(old, new) ==
    \/ new.id # old.id
    \/ new.version > old.version
    \/ new.version = old.version /\ new.values = old.values

\* The id of a request that has yet to make its row is nowhere.
FreshIds ==
    \A r \in Requests : pc[r] # "done" =>
        /\ \A a \in Accounts : settings[a].id # r
        /\ \A s \in Requests : seen[s].id # r

SeenMovesOn ==
    \A r \in Requests :
        pc[r] = "write" /\ job[r].op = "update"
            => MovesOn(seen[r], settings[job[r].acct])

IdInv == FreshIds /\ SeenMovesOn

\* New settings have an id no client has seen, and an update takes a new version.
LEMMA NextIds == TypeOK /\ IdInv /\ [Next]_vars => IdInv'
<1> SUFFICES ASSUME TypeOK, IdInv, [Next]_vars PROVE IdInv'
  OBVIOUS
<1>1. CASE UNCHANGED vars
  BY <1>1 DEF IdInv, FreshIds, SeenMovesOn, MovesOn, vars
<1>2. ASSUME NEW r \in Requests, Handle(r) PROVE IdInv'
  <2>0. /\ job[r] \in Job
        /\ \A s \in Requests : job[s].acct \in Accounts
    BY CreditCardAssumption DEF TypeOK, Job
  <2>1. CASE CheckAccount(r)
    BY <2>1 DEF IdInv, FreshIds, SeenMovesOn, MovesOn, TypeOK, CheckAccount, Goto, Answer
  <2>2. CASE CreateSettings(r)
    <3>1. CASE UNCHANGED settings
      BY <2>2, <3>1
      DEF IdInv, FreshIds, SeenMovesOn, MovesOn, TypeOK, CreateSettings, AnswerWritten, Answer
    <3>2. CASE settings' = [settings EXCEPT ![job[r].acct] = RowOf(r)]
      <4>1. pc[r] = "write" /\ pc' = [pc EXCEPT ![r] = "done"]
        BY <2>2 DEF CreateSettings, AnswerWritten, Answer
      <4>2. UNCHANGED <<job, seen>>
        BY <2>2 DEF CreateSettings
      <4>3. FreshIds'
        BY <2>0, <3>2, <4>1, <4>2 DEF IdInv, FreshIds, TypeOK, RowOf
      <4>4. ASSUME NEW s \in Requests, pc'[s] = "write", job[s].op = "update"
            PROVE  MovesOn(seen[s], settings'[job[s].acct])
        <5>1. CASE job[s].acct = job[r].acct
          BY <2>0, <3>2, <4>1, <5>1 DEF IdInv, FreshIds, TypeOK, RowOf, MovesOn
        <5>2. CASE job[s].acct # job[r].acct
          BY <2>0, <3>2, <4>1, <4>4, <5>2 DEF IdInv, SeenMovesOn, TypeOK
        <5> QED
          BY <5>1, <5>2
      <4> QED
        BY <4>2, <4>3, <4>4 DEF IdInv, SeenMovesOn, MovesOn
    <3> QED
      BY <2>2, <3>1, <3>2 DEF CreateSettings
  <2>3. CASE ReadSettings(r)
    BY <2>0, <2>3 DEF IdInv, FreshIds, SeenMovesOn, MovesOn, TypeOK, ReadSettings, Goto, Answer
  <2>4. CASE UpdateSettings(r)
    <3>1. CASE UNCHANGED settings
      BY <2>4, <3>1
      DEF IdInv, FreshIds, SeenMovesOn, MovesOn, TypeOK, UpdateSettings, AnswerWritten, Answer
    <3>2. CASE settings' = [settings EXCEPT ![job[r].acct] = Updated(@, job[r].field, r)]
      <4> DEFINE a == job[r].acct
      <4>1. pc' = [pc EXCEPT ![r] = "done"] /\ UNCHANGED <<job, seen>>
        BY <2>4 DEF UpdateSettings, AnswerWritten, Answer
      <4>2. /\ settings'[a].id = settings[a].id
            /\ settings'[a].version = settings[a].version + 1
        BY <2>0, <3>2 DEF TypeOK, Updated, Row
      <4>3. \A b \in Accounts \ {a} : settings'[b] = settings[b]
        BY <2>0, <3>2 DEF TypeOK
      <4>4. FreshIds'
        BY <2>0, <4>1, <4>2, <4>3 DEF IdInv, FreshIds, TypeOK
      <4>5. ASSUME NEW s \in Requests, pc'[s] = "write", job[s].op = "update"
            PROVE  MovesOn(seen[s], settings'[job[s].acct])
        <5>1. MovesOn(seen[s], settings[job[s].acct])
          BY <4>1, <4>5 DEF IdInv, SeenMovesOn, TypeOK
        <5>2. seen[s].version \in Nat /\ settings[a].version \in Nat
          BY <2>0 DEF TypeOK, Row
        <5>3. CASE job[s].acct = a
          BY <4>2, <5>1, <5>2, <5>3 DEF MovesOn
        <5>4. CASE job[s].acct # a
          BY <2>0, <4>3, <5>1, <5>4
        <5> QED
          BY <5>3, <5>4
      <4> QED
        BY <4>1, <4>4, <4>5 DEF IdInv, SeenMovesOn, MovesOn
    <3> QED
      BY <2>4, <3>1, <3>2 DEF UpdateSettings
  <2>5. CASE DeleteSettings(r)
    <3>1. \A b \in Accounts : /\ settings'[b].id = settings[b].id
                              /\ settings'[b].version = settings[b].version
                              /\ settings'[b].values = settings[b].values
      BY <2>0, <2>5 DEF TypeOK, DeleteSettings, Row
    <3>2. pc' = [pc EXCEPT ![r] = "done"] /\ UNCHANGED <<job, seen>>
      BY <2>5 DEF DeleteSettings, AnswerWritten, Answer
    <3> QED
      BY <2>0, <3>1, <3>2 DEF IdInv, FreshIds, SeenMovesOn, MovesOn, TypeOK
  <2>6. CASE DeactivateAccount(r)
    BY <2>6
    DEF IdInv, FreshIds, SeenMovesOn, MovesOn, TypeOK, DeactivateAccount, AnswerWritten, Answer
  <2>7. CASE Fail(r)
    BY <2>7 DEF IdInv, FreshIds, SeenMovesOn, MovesOn, TypeOK, Fail, Answer
  <2> QED
    BY <1>2, <2>1, <2>2, <2>3, <2>4, <2>5, <2>6, <2>7 DEF Handle
<1> QED
  BY <1>1, <1>2 DEF Next, Finished

\* An update replaces values its client has not seen only on a row created after
\* the client's read: the version refuses every other stale update.
THEOREM OnlyRecreationLoses == Spec => LostOnlyByRecreation
<1>1. Init => IdInv
  BY CreditCardAssumption
  DEF Init, IdInv, FreshIds, SeenMovesOn, NoRow, RowOf
<1>2. TypeOK /\ IdInv => RecreationStep
  <2> SUFFICES ASSUME TypeOK, IdInv, NEW r \in Requests, Updates(r)
               PROVE  \/ settings[job[r].acct].values = seen[r].values
                      \/ settings[job[r].acct].id # seen[r].id
    BY DEF RecreationStep
  <2>1. settings[job[r].acct].version = seen[r].version
    BY DEF Updates, UpdateSettings
  <2>2. MovesOn(seen[r], settings[job[r].acct])
    BY DEF Updates, UpdateSettings, IdInv, SeenMovesOn
  <2>3. seen[r].version \in Nat
    BY DEF TypeOK, Row
  <2> QED
    BY <2>1, <2>2, <2>3 DEF MovesOn
<1> QED
  BY <1>1, <1>2, NextIds, TypeCorrect, PTL DEF Spec, LostOnlyByRecreation
=============================================================================
