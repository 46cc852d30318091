------------------------ MODULE AdministrationProofs ------------------------
(***************************************************************************)
(* Proofs about Accounts and BackupRestore, the instances of Services, for *)
(* any people, invitations, calls, uploads and troubles.                   *)
(***************************************************************************)
EXTENDS Services, TLAPS

----------------------------------------------------------------------------
(* Accounts, their roles and their invitations.  One call makes an account, *)
(* and an administrator whom no statement under way can end is always there. *)

ActionRecord == [step : Account!Step, who : Person \cup {Nobody}, aim : Account!Aim]

\* Making an account: from the first statement to the last.
Making(d) == acts[d].step \in {"create", "consume", "undo", "promote"}

\* One server action makes an account, from nothing to the role it is to have,
\* and an invitation is spent before the role is given.
Births ==
  /\ \A p \in Person : origin[p] = Nobody => role[p] = "unborn"
  /\ \A d \in Call :
       /\ ~Account!At(d, "idle") => Account!Who(d) \in Person
       /\ Making(d) => origin[Account!Who(d)] \in Account!Origin /\ acts[d].aim \in Account!Role
       /\ Account!At(d, "create") => role[Account!Who(d)] = "unborn"
       /\ acts[d].step \in {"consume", "undo"} => origin[Account!Who(d)] \in Invite
       /\ Account!At(d, "promote") /\ origin[Account!Who(d)] \in Invite =>
            spentBy[origin[Account!Who(d)]] = Account!Who(d)
  /\ \A c, d \in Call : Making(c) /\ Making(d) /\ Account!Who(c) = Account!Who(d) => c = d

\* An invited account has spent its invitation, or is being made, or its call died.
Redeemed ==
  \A p \in Person : Account!Exists(p) /\ origin[p] \in Invite =>
    spentBy[origin[p]] = p \/ Account!InProgress(p) \/ p \in leftover

\* A statement that can end the administrator q is on its way.
Threatened(q) == \E d \in Call : Account!Who(d) = q /\ Account!MayDemote(d)

Safe == \E q \in Account!Admins : ~Threatened(q)

\* Before the first administrator there is only what the setup has begun.
NoneYet ==
  /\ Account!Admins = {} /\ banned = {}
  /\ \A i \in Invite : offer[i] = "none"
  /\ \A p \in Person : Account!Exists(p) =>
       origin[p] = "setup"
         /\ (p \in leftover \/ \E d \in Call : Account!At(d, "promote") /\ Account!Who(d) = p)
  /\ \A d \in Call : ~Account!At(d, "idle") =>
       acts[d].step \in {"create", "promote"} /\ acts[d].aim = "admin" /\ origin[Account!Who(d)] = "setup"

Administered == raced \/ Safe \/ NoneYet

AccountsInv == Account!TypeOK /\ Births /\ Redeemed /\ Administered

LEMMA AccountsBegin == Account!Init => AccountsInv
<1> SUFFICES ASSUME Account!Init PROVE AccountsInv
  OBVIOUS
<1>1. Account!TypeOK
  <2>1. Account!Idle \in ActionRecord
    BY DEF Account!Idle, ActionRecord, Account!Step, Account!Aim, Account!Removal
  <2>2. count \in [change : 0..MaxChange, death : 0..MaxDeath]
    BY ServicesAssumption DEF Account!Init, Account!AccountsAssumption
  <2> QED
    BY <2>1, <2>2 DEF Account!Init, Account!TypeOK, ActionRecord
<1>2. \A d \in Call : Account!At(d, "idle")
  BY DEF Account!Init, Account!At, Account!Idle
<1>3. \A p \in Person : ~Account!Exists(p)
  BY DEF Account!Init, Account!Exists, Account!Role
<1>4. Births
  BY <1>2 DEF Births, Account!Init, Account!At, Making
<1>5. Redeemed
  BY <1>3 DEF Redeemed
<1>6. Account!Admins = {}
  BY <1>3 DEF Account!Admins, Account!Exists, Account!Role
<1>7. NoneYet
  BY <1>2, <1>3, <1>6 DEF NoneYet, Account!Init
<1> QED
  BY <1>1, <1>4, <1>5, <1>7 DEF AccountsInv, Administered

\* What a call that goes on becomes; the others stay.
LEMMA ActGoes ==
  ASSUME Account!TypeOK, NEW c \in Call, NEW s \in Account!Step, Account!Go(c, s)
  PROVE  /\ acts' \in [Call -> ActionRecord]
         /\ acts'[c].step = s /\ acts'[c].who = acts[c].who /\ acts'[c].aim = acts[c].aim
         /\ \A d \in Call \ {c} : acts'[d] = acts[d]
  BY DEF Account!TypeOK, Account!Go, ActionRecord

\* What a call that begins becomes.
LEMMA ActBegins ==
  ASSUME Account!TypeOK, NEW c \in Call, NEW s \in Account!Step, NEW p \in Person, NEW a \in Account!Aim,
         Account!Begin(c, s, p, a)
  PROVE  /\ acts' \in [Call -> ActionRecord]
         /\ acts'[c] = [step |-> s, who |-> p, aim |-> a]
         /\ \A d \in Call \ {c} : acts'[d] = acts[d]
  BY DEF Account!TypeOK, Account!Begin, ActionRecord

\* What a call that ends becomes.
LEMMA ActEnds ==
  ASSUME Account!TypeOK, NEW c \in Call, Account!Finish(c)
  PROVE  /\ acts' \in [Call -> ActionRecord]
         /\ acts'[c].step = "idle" /\ acts'[c].who = Nobody
         /\ \A d \in Call \ {c} : acts'[d] = acts[d]
<1>1. Account!Idle \in ActionRecord /\ Account!Idle.step = "idle" /\ Account!Idle.who = Nobody
  BY DEF Account!Idle, ActionRecord, Account!Step, Account!Aim, Account!Removal
<1> QED
  BY <1>1 DEF Account!TypeOK, Account!Finish, ActionRecord

\* What a call that asks for a new account becomes.
LEMMA ActAsks ==
  ASSUME AccountsInv, NEW c \in Call, NEW p \in Person, NEW from \in Account!Origin, NEW a \in Account!Role,
         Account!Asked(c, p, from, a)
  PROVE  /\ Account!At(c, "idle") /\ origin[p] = Nobody /\ role[p] = "unborn"
         /\ acts' \in [Call -> ActionRecord]
         /\ acts'[c] = [step |-> "create", who |-> p, aim |-> a]
         /\ \A d \in Call \ {c} : acts'[d] = acts[d]
         /\ origin' \in [Person -> Account!Origin \cup {Nobody}] /\ origin'[p] = from
         /\ \A q \in Person \ {p} : origin'[q] = origin[q]
         /\ \A d \in Call : Making(d) => Account!Who(d) # p
<1>1. Account!Begin(c, "create", p, a) /\ Account!At(c, "idle") /\ origin[p] = Nobody
        /\ "create" \in Account!Step /\ a \in Account!Aim
  BY DEF Account!Asked, Account!MayBe, Account!Step, Account!Aim, Account!Role, Account!Removal
<1>2. Account!TypeOK /\ Births
  BY DEF AccountsInv
<1>3. origin' = [origin EXCEPT ![p] = from] /\ origin \in [Person -> Account!Origin \cup {Nobody}]
  BY <1>2 DEF Account!Asked, Account!TypeOK
<1>4. Nobody \notin Account!Origin
  BY ServicesAssumption DEF Account!AccountsAssumption
<1>5. \A d \in Call : Making(d) => Account!Who(d) # p
  BY <1>1, <1>2, <1>4 DEF Births
<1>6. role[p] = "unborn"
  BY <1>1, <1>2 DEF Births
<1>7. /\ acts' \in [Call -> ActionRecord]
      /\ acts'[c] = [step |-> "create", who |-> p, aim |-> a]
      /\ \A d \in Call \ {c} : acts'[d] = acts[d]
  BY <1>1, <1>2, ActBegins
<1> QED
  BY <1>1, <1>3, <1>5, <1>6, <1>7

\* The types are kept by every step.
LEMMA AccountTypes ==
  ASSUME AccountsInv, Account!Next
  PROVE  Account!TypeOK'
<1>1. Account!TypeOK /\ Births
  BY DEF AccountsInv
<1>2. /\ MaxChange \in Nat /\ MaxDeath \in Nat /\ Nobody \notin Person
  BY ServicesAssumption DEF Account!AccountsAssumption
<1>3. ASSUME NEW c \in Call, Account!Change(c) PROVE Account!TypeOK'
  <2>1. PICK actor \in Account!Admins, target \in Person, aim \in Account!Aim :
          Account!Begin(c, IF aim \in Account!Removal THEN "look" ELSE "write", target, aim)
    BY <1>3 DEF Account!Change
  <2>2. (IF aim \in Account!Removal THEN "look" ELSE "write") \in Account!Step
    BY DEF Account!Step
  <2>3. acts' \in [Call -> ActionRecord]
    BY <1>1, <2>1, <2>2, ActBegins
  <2>4. count' \in [change : 0..MaxChange, death : 0..MaxDeath]
    BY <1>1, <1>2, <1>3 DEF Account!TypeOK, Account!Change
  <2> QED
    BY <1>1, <1>3, <2>3, <2>4
    DEF Account!TypeOK, Account!Change, ActionRecord, Account!userVars, Account!inviteVars
<1>4. ASSUME NEW c \in Call, Account!Look(c) PROVE Account!TypeOK'
  <2>1. acts' \in [Call -> ActionRecord]
    <3>1. CASE Account!Finish(c)
      BY <1>1, <3>1, ActEnds
    <3>2. CASE Account!Go(c, "write")
      BY <1>1, <3>2, ActGoes DEF Account!Step
    <3> QED
      BY <1>4, <3>1, <3>2 DEF Account!Look
  <2>2. raced' \in BOOLEAN
    BY <1>1, <1>4 DEF Account!TypeOK, Account!Look
  <2> QED
    BY <1>1, <1>4, <2>1, <2>2
    DEF Account!TypeOK, Account!Look, ActionRecord, Account!userVars, Account!inviteVars
<1>5. ASSUME NEW c \in Call, Account!Write(c) PROVE Account!TypeOK'
  <2>1. Account!Finish(c) /\ UNCHANGED <<origin, Account!inviteVars, leftover, raced, count>>
    BY <1>5 DEF Account!Write
  <2>2. acts' \in [Call -> ActionRecord]
    BY <1>1, <2>1, ActEnds
  <2>3. CASE ~Account!Exists(Account!Who(c))
    BY <1>1, <1>5, <2>1, <2>2, <2>3 DEF Account!TypeOK, Account!Write, ActionRecord, Account!inviteVars
  <2>4. CASE Account!Exists(Account!Who(c))
    <3>1. Account!Who(c) \in Person
      BY <1>1, <1>5 DEF Births, Account!Write, Account!At
    <3> DEFINE value == CASE acts[c].aim \in Account!Role -> acts[c].aim
                          [] acts[c].aim = "delete" -> "deleted"
                          [] OTHER -> role[Account!Who(c)]
    <3>2. role' = [role EXCEPT ![Account!Who(c)] = value]
      BY <1>1, <1>5, <2>4 DEF Account!Write, Account!TypeOK
    <3>3. value \in Account!Role \cup {"unborn", "deleted"}
      BY <1>1, <3>1 DEF Account!TypeOK
    <3>4. role' \in [Person -> Account!Role \cup {"unborn", "deleted"}]
      BY <1>1, <3>2, <3>3 DEF Account!TypeOK
    <3>5. banned' \subseteq Person
      BY <1>1, <1>5, <2>4, <3>1 DEF Account!Write, Account!TypeOK
    <3> QED
      BY <1>1, <2>1, <2>2, <3>4, <3>5 DEF Account!TypeOK, ActionRecord, Account!inviteVars
  <2> QED
    BY <2>3, <2>4
<1>6. ASSUME NEW c \in Call, NEW p \in Person, NEW from \in Account!Origin, NEW a \in Account!Role,
             Account!Asked(c, p, from, a)
      PROVE  Account!TypeOK'
  <2>1. acts' \in [Call -> ActionRecord] /\ origin' \in [Person -> Account!Origin \cup {Nobody}]
    BY <1>6, ActAsks
  <2> QED
    BY <1>1, <1>6, <2>1 DEF Account!TypeOK, Account!Asked, ActionRecord, Account!inviteVars
<1>7. ASSUME NEW c \in Call, Account!SetUp(c) PROVE Account!TypeOK'
  BY <1>6, <1>7 DEF Account!SetUp, Account!Origin, Account!Role
<1>8. ASSUME NEW c \in Call, Account!Add(c) PROVE Account!TypeOK'
  BY <1>6, <1>8 DEF Account!Add, Account!Origin
<1>9. ASSUME NEW c \in Call, Account!Accept(c) PROVE Account!TypeOK'
  <2>1. PICK i \in Invite, p \in Person : Account!Usable(i) /\ Account!Asked(c, p, i, offer[i])
    BY <1>9 DEF Account!Accept
  <2>2. offer[i] \in Account!Role /\ i \in Account!Origin
    BY <1>1, <2>1 DEF Account!Usable, Account!TypeOK, Account!Origin
  <2> QED
    BY <1>6, <2>1, <2>2
<1>10. ASSUME NEW c \in Call, Account!Create(c) PROVE Account!TypeOK'
  <2>1. acts' \in [Call -> ActionRecord]
    BY <1>1, <1>10, ActGoes DEF Account!Create, Account!Step
  <2>2. role' \in [Person -> Account!Role \cup {"unborn", "deleted"}]
    BY <1>1, <1>10 DEF Account!Create, Account!TypeOK, Account!Role
  <2> QED
    BY <1>1, <1>10, <2>1, <2>2 DEF Account!TypeOK, Account!Create, ActionRecord, Account!inviteVars
<1>11. ASSUME NEW c \in Call, Account!Consume(c) PROVE Account!TypeOK'
  <2>1. acts' \in [Call -> ActionRecord]
    <3>1. CASE Account!Finish(c)
      BY <1>1, <3>1, ActEnds
    <3>2. CASE Account!Go(c, "promote")
      BY <1>1, <3>2, ActGoes DEF Account!Step
    <3>3. CASE Account!Go(c, "undo")
      BY <1>1, <3>3, ActGoes DEF Account!Step
    <3> QED
      BY <1>11, <3>1, <3>2, <3>3 DEF Account!Consume
  <2>2. Account!Who(c) \in Person
    BY <1>1, <1>11 DEF Births, Account!Consume, Account!At
  <2>3. spentBy' \in [Invite -> Person \cup {Nobody}]
    BY <1>1, <1>11, <2>2 DEF Account!Consume, Account!TypeOK
  <2> QED
    BY <1>1, <1>11, <2>1, <2>3 DEF Account!TypeOK, Account!Consume, ActionRecord, Account!userVars
<1>12. ASSUME NEW c \in Call, Account!Undo(c) PROVE Account!TypeOK'
  <2>1. acts' \in [Call -> ActionRecord]
    BY <1>1, <1>12, ActEnds DEF Account!Undo
  <2>2. role' \in [Person -> Account!Role \cup {"unborn", "deleted"}]
    BY <1>1, <1>12 DEF Account!Undo, Account!Remove, Account!TypeOK, Account!Role
  <2>3. banned' \subseteq Person
    BY <1>1, <1>12 DEF Account!Undo, Account!Remove, Account!TypeOK
  <2> QED
    BY <1>1, <1>12, <2>1, <2>2, <2>3 DEF Account!TypeOK, Account!Undo, ActionRecord, Account!inviteVars
<1>13. ASSUME NEW c \in Call, Account!Promote(c) PROVE Account!TypeOK'
  <2>1. acts' \in [Call -> ActionRecord]
    BY <1>1, <1>13, ActEnds DEF Account!Promote
  <2>2. acts[c].aim \in Account!Role
    BY <1>1, <1>13 DEF Births, Making, Account!Promote, Account!At
  <2>3. role' \in [Person -> Account!Role \cup {"unborn", "deleted"}]
    BY <1>1, <1>13, <2>2 DEF Account!TypeOK, Account!Promote
  <2> QED
    BY <1>1, <1>13, <2>1, <2>3 DEF Account!TypeOK, Account!Promote, ActionRecord, Account!inviteVars
<1>14. ASSUME NEW c \in Call, Account!Die(c) PROVE Account!TypeOK'
  <2>1. acts' \in [Call -> ActionRecord]
    BY <1>1, <1>14, ActEnds DEF Account!Die
  <2>2. count' \in [change : 0..MaxChange, death : 0..MaxDeath]
    BY <1>1, <1>2, <1>14 DEF Account!TypeOK, Account!Die
  <2>3. leftover' \subseteq Person
    BY <1>1, <1>14 DEF Account!TypeOK, Births, Account!Die
  <2> QED
    BY <1>1, <1>14, <2>1, <2>2, <2>3
    DEF Account!TypeOK, Account!Die, ActionRecord, Account!userVars, Account!inviteVars
<1>15. ASSUME NEW i \in Invite, Account!Offer(i) PROVE Account!TypeOK'
  BY <1>1, <1>15 DEF Account!TypeOK, Account!Offer, Account!userVars
<1>16. ASSUME NEW i \in Invite, Account!Withdraw(i) PROVE Account!TypeOK'
  BY <1>1, <1>16 DEF Account!TypeOK, Account!Withdraw, Account!userVars
<1> QED
  BY <1>3, <1>4, <1>5, <1>7, <1>8, <1>9, <1>10, <1>11, <1>12, <1>13, <1>14, <1>15, <1>16 DEF Account!Next

\* A step that begins no account keeps what is known of those being made.
LEMMA BirthsStay ==
  ASSUME AccountsInv, Account!TypeOK', NEW c \in Call,
         \A d \in Call \ {c} : acts'[d] = acts[d],
         UNCHANGED origin,
         \A p \in Person : role[p] = "unborn" => role'[p] = "unborn" \/ (Making(c) /\ p = Account!Who(c)),
         \A i \in Invite : spentBy[i] # Nobody => spentBy'[i] = spentBy[i],
         acts'[c].step # "idle" => acts'[c].who \in Person,
         Making(c)' => /\ Making(c) /\ acts'[c].who = acts[c].who /\ acts'[c].aim = acts[c].aim
                       /\ acts'[c].step # "create",
         acts'[c].step \in {"consume", "undo"} => origin[acts'[c].who] \in Invite,
         acts'[c].step = "promote" /\ origin[acts'[c].who] \in Invite =>
           spentBy'[origin[acts'[c].who]] = acts'[c].who
  PROVE  Births'
<1>1. Account!TypeOK /\ Births /\ Nobody \notin Person /\ Nobody \notin Account!Origin
  BY ServicesAssumption DEF AccountsInv, Account!AccountsAssumption
<1>2. \A p \in Person : origin'[p] = Nobody => role'[p] = "unborn"
  BY <1>1 DEF Births
<1>3. ASSUME NEW d \in Call, d # c
      PROVE  /\ ~Account!At(d, "idle")' => Account!Who(d)' \in Person
             /\ Making(d)' => origin'[Account!Who(d)'] \in Account!Origin /\ acts'[d].aim \in Account!Role
             /\ Account!At(d, "create")' => role'[Account!Who(d)'] = "unborn"
             /\ acts'[d].step \in {"consume", "undo"} => origin'[Account!Who(d)'] \in Invite
             /\ Account!At(d, "promote")' /\ origin'[Account!Who(d)'] \in Invite =>
                  spentBy'[origin'[Account!Who(d)']] = Account!Who(d)'
  <2>1. acts'[d] = acts[d]
    BY <1>3
  <2>2. Account!At(d, "create") => Account!Who(d) \in Person /\ role'[Account!Who(d)] = "unborn"
    BY <1>1, <1>3 DEF Births, Account!At, Making
  <2>3. Account!At(d, "promote") /\ origin[Account!Who(d)] \in Invite =>
          spentBy'[origin[Account!Who(d)]] = Account!Who(d)
    BY <1>1 DEF Births, Account!At
  <2> QED
    BY <1>1, <2>1, <2>2, <2>3 DEF Births, Account!At, Making, Account!Who
<1>4. /\ ~Account!At(c, "idle")' => Account!Who(c)' \in Person
      /\ Making(c)' => origin'[Account!Who(c)'] \in Account!Origin /\ acts'[c].aim \in Account!Role
      /\ Account!At(c, "create")' => role'[Account!Who(c)'] = "unborn"
      /\ acts'[c].step \in {"consume", "undo"} => origin'[Account!Who(c)'] \in Invite
      /\ Account!At(c, "promote")' /\ origin'[Account!Who(c)'] \in Invite =>
           spentBy'[origin'[Account!Who(c)']] = Account!Who(c)'
  <2>1. Making(c)' => origin'[Account!Who(c)'] \in Account!Origin /\ acts'[c].aim \in Account!Role
    BY <1>1 DEF Births, Account!Who
  <2>2. ~Account!At(c, "create")'
    BY DEF Account!At, Making
  <2> QED
    BY <2>1, <2>2 DEF Account!At, Account!Who
<1>5. \A a, d \in Call : Making(a)' /\ Making(d)' /\ Account!Who(a)' = Account!Who(d)' => a = d
  <2>1. \A d \in Call : Making(d)' => Making(d) /\ Account!Who(d)' = Account!Who(d)
    BY DEF Making, Account!Who
  <2> QED
    BY <1>1, <2>1 DEF Births
<1> QED
  BY <1>2, <1>3, <1>4, <1>5 DEF Births

\* A step of a call that is making nothing, or leaves its account in order, keeps
\* the other accounts so.
LEMMA RedeemedStays ==
  ASSUME AccountsInv, NEW c \in Call,
         \A d \in Call \ {c} : acts'[d] = acts[d],
         UNCHANGED origin,
         leftover \subseteq leftover',
         \A p \in Person : Account!Exists(p)' => Account!Exists(p) \/ (Making(c) /\ p = Account!Who(c)),
         \A i \in Invite : spentBy[i] # Nobody => spentBy'[i] = spentBy[i],
         Making(c) =>
           \/ role'[Account!Who(c)] \notin Account!Role
           \/ origin[Account!Who(c)] \notin Invite
           \/ Making(c)' /\ acts'[c].who = acts[c].who
           \/ spentBy'[origin[Account!Who(c)]] = Account!Who(c)
           \/ Account!Who(c) \in leftover'
  PROVE  Redeemed'
<1>1. Account!TypeOK /\ Births /\ Redeemed /\ Nobody \notin Person
  BY ServicesAssumption DEF AccountsInv, Account!AccountsAssumption
<1> SUFFICES ASSUME NEW p \in Person, Account!Exists(p)', origin[p] \in Invite
             PROVE  spentBy'[origin[p]] = p \/ Account!InProgress(p)' \/ p \in leftover'
  BY DEF Redeemed
<1>2. CASE Making(c) /\ p = Account!Who(c)
  <2>1. Making(c)' /\ acts'[c].who = acts[c].who => Account!InProgress(p)'
    BY <1>2 DEF Account!InProgress, Making, Account!Who
  <2> QED
    BY <1>2, <2>1 DEF Account!Exists
<1>3. CASE ~(Making(c) /\ p = Account!Who(c))
  <2>1. spentBy[origin[p]] = p \/ Account!InProgress(p) \/ p \in leftover
    BY <1>1, <1>3 DEF Redeemed
  <2>2. Account!InProgress(p) => Account!InProgress(p)'
    BY <1>3 DEF Account!InProgress, Making, Account!Who
  <2>3. spentBy[origin[p]] = p => spentBy'[origin[p]] = p
    BY <1>1
  <2> QED
    BY <2>1, <2>2, <2>3
<1> QED
  BY <1>2, <1>3

\* Every step keeps what is known of the accounts being made and of those made.
LEMMA AccountsAreMade ==
  ASSUME AccountsInv, Account!TypeOK', Account!Next
  PROVE  Births' /\ Redeemed'
<1>1. Account!TypeOK /\ Births /\ Redeemed /\ Nobody \notin Person /\ Nobody \notin Account!Origin
  BY ServicesAssumption DEF AccountsInv, Account!AccountsAssumption
<1>2. \A c \in Call : Making(c) => Account!Who(c) \in Person /\ origin[Account!Who(c)] \in Account!Origin
  BY <1>1 DEF Births, Making, Account!At
<1>3. ASSUME NEW c \in Call, Account!Change(c) PROVE Births' /\ Redeemed'
  <2>1. PICK actor \in Account!Admins, target \in Person, aim \in Account!Aim :
          Account!Begin(c, IF aim \in Account!Removal THEN "look" ELSE "write", target, aim)
    BY <1>3 DEF Account!Change
  <2>2. PICK s \in {"look", "write"} : Account!Begin(c, s, target, aim)
    BY <2>1
  <2>3. /\ acts'[c].step \in {"look", "write"} /\ acts'[c].who \in Person
        /\ \A d \in Call \ {c} : acts'[d] = acts[d]
    <3>1. s \in Account!Step
      BY DEF Account!Step
    <3>2. acts'[c] = [step |-> s, who |-> target, aim |-> aim] /\ \A d \in Call \ {c} : acts'[d] = acts[d]
      BY <1>1, <2>2, <3>1, ActBegins
    <3> QED
      BY <3>2
  <2>4. ~Making(c) /\ ~Making(c)' /\ UNCHANGED <<role, origin, spentBy, leftover>>
    BY <1>3, <2>3 DEF Account!Change, Account!At, Making, Account!userVars, Account!inviteVars
  <2> QED
    BY <2>3, <2>4, BirthsStay, RedeemedStays DEF Account!Exists
<1>4. ASSUME NEW c \in Call, Account!Look(c) PROVE Births' /\ Redeemed'
  <2>1. /\ acts'[c].step = "idle" \/ (acts'[c].step = "write" /\ acts'[c].who = acts[c].who)
        /\ \A d \in Call \ {c} : acts'[d] = acts[d]
    <3>1. CASE Account!Finish(c)
      BY <1>1, <3>1, ActEnds
    <3>2. CASE Account!Go(c, "write")
      BY <1>1, <3>2, ActGoes DEF Account!Step
    <3> QED
      BY <1>4, <3>1, <3>2 DEF Account!Look
  <2>2. acts'[c].step # "idle" => acts'[c].who \in Person
    BY <1>1, <1>4, <2>1 DEF Births, Account!Look, Account!At, Account!Who
  <2>3. ~Making(c) /\ ~Making(c)' /\ UNCHANGED <<role, origin, spentBy, leftover>>
    BY <1>4, <2>1 DEF Account!Look, Account!At, Making, Account!userVars, Account!inviteVars
  <2>4. acts'[c].step \notin {"consume", "undo"} /\ acts'[c].step # "promote"
    BY <2>1
  <2> QED
    BY <2>1, <2>2, <2>3, <2>4, BirthsStay, RedeemedStays DEF Account!Exists
<1>5. ASSUME NEW c \in Call, Account!Write(c) PROVE Births' /\ Redeemed'
  <2>1. acts'[c].step = "idle" /\ \A d \in Call \ {c} : acts'[d] = acts[d]
    BY <1>1, <1>5, ActEnds DEF Account!Write
  <2>2. ~Making(c) /\ ~Making(c)' /\ UNCHANGED <<origin, spentBy, leftover>>
    BY <1>5, <2>1 DEF Account!Write, Account!At, Making, Account!inviteVars
  <2>3. \A p \in Person : /\ role[p] = "unborn" => role'[p] = "unborn"
                          /\ Account!Exists(p)' => Account!Exists(p)
    <3>1. CASE ~Account!Exists(Account!Who(c))
      BY <1>5, <3>1 DEF Account!Write, Account!Exists
    <3>2. CASE Account!Exists(Account!Who(c))
      <4>1. \A p \in Person : p # Account!Who(c) => role'[p] = role[p]
        BY <1>1, <1>5, <3>2 DEF Account!Write, Account!TypeOK
      <4>2. role[Account!Who(c)] # "unborn"
        BY <3>2 DEF Account!Exists, Account!Role
      <4> QED
        BY <3>2, <4>1, <4>2 DEF Account!Exists
    <3> QED
      BY <3>1, <3>2
  <2> QED
    BY <2>1, <2>2, <2>3, BirthsStay, RedeemedStays
<1>6. ASSUME NEW c \in Call, NEW p \in Person, NEW from \in Account!Origin, NEW a \in Account!Role,
             Account!Asked(c, p, from, a)
      PROVE  Births' /\ Redeemed'
  <2>1. /\ Account!At(c, "idle") /\ origin[p] = Nobody /\ role[p] = "unborn"
        /\ acts'[c] = [step |-> "create", who |-> p, aim |-> a]
        /\ \A d \in Call \ {c} : acts'[d] = acts[d]
        /\ origin'[p] = from
        /\ \A q \in Person \ {p} : origin'[q] = origin[q]
        /\ \A d \in Call : Making(d) => Account!Who(d) # p
    BY <1>6, ActAsks
  <2>2. UNCHANGED <<role, spentBy, leftover>>
    BY <1>6 DEF Account!Asked, Account!inviteVars
  <2>3. \A q \in Person : origin'[q] = Nobody => role'[q] = "unborn"
    BY <1>1, <2>1, <2>2 DEF Births
  <2>4. ASSUME NEW d \in Call
        PROVE  /\ ~Account!At(d, "idle")' => Account!Who(d)' \in Person
               /\ Making(d)' => origin'[Account!Who(d)'] \in Account!Origin /\ acts'[d].aim \in Account!Role
               /\ Account!At(d, "create")' => role'[Account!Who(d)'] = "unborn"
               /\ acts'[d].step \in {"consume", "undo"} => origin'[Account!Who(d)'] \in Invite
               /\ Account!At(d, "promote")' /\ origin'[Account!Who(d)'] \in Invite =>
                    spentBy'[origin'[Account!Who(d)']] = Account!Who(d)'
    <3>1. CASE d = c
      BY <2>1, <2>2, <3>1 DEF Account!At, Making, Account!Who
    <3>2. CASE d # c
      <4>1. acts'[d] = acts[d]
        BY <2>1, <3>2
      <4>2. Making(d) => origin'[Account!Who(d)] = origin[Account!Who(d)] /\ Account!Who(d) \in Person
        BY <1>2, <2>1
      <4> QED
        BY <1>1, <2>2, <4>1, <4>2 DEF Births, Account!At, Making, Account!Who
    <3> QED
      BY <3>1, <3>2
  <2>5. \A x, d \in Call : Making(x)' /\ Making(d)' /\ Account!Who(x)' = Account!Who(d)' => x = d
    <3>1. Account!Who(c)' = p
      BY <2>1 DEF Account!Who
    <3>2. \A d \in Call \ {c} : Making(d)' =>
            Making(d) /\ Account!Who(d)' = Account!Who(d) /\ Account!Who(d)' # p
      BY <2>1 DEF Making, Account!Who
    <3> QED
      BY <1>1, <3>1, <3>2 DEF Births
  <2>6. Births'
    BY <2>3, <2>4, <2>5 DEF Births
  <2>7. Redeemed'
    <3> SUFFICES ASSUME NEW q \in Person, Account!Exists(q)', origin'[q] \in Invite
                 PROVE  spentBy'[origin'[q]] = q \/ Account!InProgress(q)' \/ q \in leftover'
      BY DEF Redeemed
    <3>1. q # p /\ Account!Exists(q)
      BY <2>1, <2>2 DEF Account!Exists, Account!Role
    <3>2. origin'[q] = origin[q]
      BY <2>1, <3>1
    <3>3. Account!InProgress(q) => Account!InProgress(q)'
      <4> SUFFICES ASSUME NEW d \in Call, Account!Who(d) = q, Making(d) PROVE Account!InProgress(q)'
        BY DEF Account!InProgress, Making
      <4>1. d # c
        BY <2>1 DEF Account!At, Making
      <4> QED
        BY <2>1, <4>1 DEF Account!InProgress, Making, Account!Who
    <3> QED
      BY <1>1, <2>2, <3>1, <3>2, <3>3 DEF Redeemed
  <2> QED
    BY <2>6, <2>7
<1>7. ASSUME NEW c \in Call, Account!SetUp(c) PROVE Births' /\ Redeemed'
  BY <1>6, <1>7 DEF Account!SetUp, Account!Origin, Account!Role
<1>8. ASSUME NEW c \in Call, Account!Add(c) PROVE Births' /\ Redeemed'
  BY <1>6, <1>8 DEF Account!Add, Account!Origin
<1>9. ASSUME NEW c \in Call, Account!Accept(c) PROVE Births' /\ Redeemed'
  <2>1. PICK i \in Invite, p \in Person : Account!Usable(i) /\ Account!Asked(c, p, i, offer[i])
    BY <1>9 DEF Account!Accept
  <2>2. offer[i] \in Account!Role /\ i \in Account!Origin
    BY <1>1, <2>1 DEF Account!Usable, Account!TypeOK, Account!Origin
  <2> QED
    BY <1>6, <2>1, <2>2
<1>10. ASSUME NEW c \in Call, Account!Create(c) PROVE Births' /\ Redeemed'
  <2> DEFINE p == Account!Who(c)
  <2>1. Making(c) /\ p \in Person
    BY <1>2, <1>10 DEF Account!Create, Account!At, Making
  <2>2. Account!Go(c, IF origin[p] \in Invite THEN "consume" ELSE "promote")
    BY <1>10 DEF Account!Create
  <2>3. (IF origin[p] \in Invite THEN "consume" ELSE "promote") \in Account!Step
    BY DEF Account!Step
  <2>4. /\ acts'[c].step = IF origin[p] \in Invite THEN "consume" ELSE "promote"
        /\ acts'[c].who = p /\ acts'[c].aim = acts[c].aim
        /\ \A d \in Call \ {c} : acts'[d] = acts[d]
    BY <1>1, <2>2, <2>3, ActGoes DEF Account!Who
  <2>5. UNCHANGED <<origin, spentBy, leftover>> /\ role' = [role EXCEPT ![p] = "viewer"]
    BY <1>10 DEF Account!Create, Account!inviteVars
  <2>6. \A q \in Person \ {p} : role'[q] = role[q]
    BY <1>1, <2>5 DEF Account!TypeOK
  <2>7. Making(c)'
    BY <2>4 DEF Making
  <2>8. Births'
    BY <2>1, <2>4, <2>5, <2>6, BirthsStay DEF Account!Who
  <2>9. \A q \in Person : Account!Exists(q)' => Account!Exists(q) \/ (Making(c) /\ q = Account!Who(c))
    BY <2>1, <2>6 DEF Account!Exists
  <2>10. Redeemed'
    BY <2>1, <2>4, <2>5, <2>7, <2>9, RedeemedStays DEF Account!Who
  <2> QED
    BY <2>8, <2>10
<1>11. ASSUME NEW c \in Call, Account!Consume(c) PROVE Births' /\ Redeemed'
  <2> DEFINE p == Account!Who(c)
             i == origin[p]
  <2>1. Making(c) /\ p \in Person /\ i \in Invite /\ Account!At(c, "consume")
    BY <1>1, <1>2, <1>11 DEF Account!Consume, Account!At, Making, Births
  <2>2. UNCHANGED <<role, origin, leftover>>
    BY <1>11 DEF Account!Consume, Account!userVars
  <2>3. CASE Account!Usable(i) /\ Account!Exists(p) /\ spentBy' = [spentBy EXCEPT ![i] = p]
               /\ Account!Go(c, "promote")
    <3>1. /\ acts'[c].step = "promote" /\ acts'[c].who = p /\ acts'[c].aim = acts[c].aim
          /\ \A d \in Call \ {c} : acts'[d] = acts[d]
      BY <1>1, <2>3, ActGoes DEF Account!Step, Account!Who
    <3>2. spentBy'[i] = p /\ \A j \in Invite : spentBy[j] # Nobody => spentBy'[j] = spentBy[j]
      BY <1>1, <2>1, <2>3 DEF Account!TypeOK, Account!Usable
    <3>3. Making(c)'
      BY <3>1 DEF Making
    <3>4. Births'
      BY <2>1, <2>2, <3>1, <3>2, BirthsStay DEF Account!Who
    <3>5. Redeemed'
      BY <2>1, <2>2, <3>1, <3>2, <3>3, RedeemedStays DEF Account!Who, Account!Exists
    <3> QED
      BY <3>4, <3>5
  <2>4. CASE Account!Go(c, "undo") /\ UNCHANGED spentBy
    <3>1. /\ acts'[c].step = "undo" /\ acts'[c].who = p /\ acts'[c].aim = acts[c].aim
          /\ \A d \in Call \ {c} : acts'[d] = acts[d]
      BY <1>1, <2>4, ActGoes DEF Account!Step, Account!Who
    <3>2. Making(c)'
      BY <3>1 DEF Making
    <3>3. Births'
      BY <2>1, <2>2, <2>4, <3>1, BirthsStay DEF Account!Who
    <3>4. Redeemed'
      BY <2>1, <2>2, <2>4, <3>1, <3>2, RedeemedStays DEF Account!Who, Account!Exists
    <3> QED
      BY <3>3, <3>4
  <2>5. CASE ~Account!Exists(p) /\ Account!Finish(c) /\ UNCHANGED spentBy
    <3>1. acts'[c].step = "idle" /\ \A d \in Call \ {c} : acts'[d] = acts[d]
      BY <1>1, <2>5, ActEnds
    <3>2. ~Making(c)'
      BY <3>1 DEF Making
    <3>3. Births'
      BY <2>1, <2>2, <2>5, <3>1, <3>2, BirthsStay
    <3>4. Redeemed'
      BY <2>1, <2>2, <2>5, <3>1, RedeemedStays DEF Account!Exists
    <3> QED
      BY <3>3, <3>4
  <2> QED
    BY <1>11, <2>3, <2>4, <2>5 DEF Account!Consume
<1>12. ASSUME NEW c \in Call, Account!Undo(c) PROVE Births' /\ Redeemed'
  <2> DEFINE p == Account!Who(c)
  <2>1. Making(c) /\ p \in Person
    BY <1>2, <1>12 DEF Account!Undo, Account!At, Making
  <2>2. UNCHANGED <<origin, spentBy, leftover>> /\ role' = [role EXCEPT ![p] = "deleted"]
    BY <1>12 DEF Account!Undo, Account!Remove, Account!inviteVars
  <2>3. acts'[c].step = "idle" /\ \A d \in Call \ {c} : acts'[d] = acts[d]
    BY <1>1, <1>12, ActEnds DEF Account!Undo
  <2>4. \A q \in Person \ {p} : role'[q] = role[q]
    BY <1>1, <2>2 DEF Account!TypeOK
  <2>5. role'[p] \notin Account!Role
    BY <1>1, <2>1, <2>2 DEF Account!TypeOK, Account!Role
  <2>6. ~Making(c)'
    BY <2>3 DEF Making
  <2>7. Births'
    BY <2>1, <2>2, <2>3, <2>4, <2>6, BirthsStay
  <2>8. Redeemed'
    BY <2>1, <2>2, <2>3, <2>4, <2>5, RedeemedStays DEF Account!Exists
  <2> QED
    BY <2>7, <2>8
<1>13. ASSUME NEW c \in Call, Account!Promote(c) PROVE Births' /\ Redeemed'
  <2> DEFINE p == Account!Who(c)
  <2>1. Making(c) /\ p \in Person /\ Account!At(c, "promote")
    BY <1>2, <1>13 DEF Account!Promote, Account!At, Making
  <2>2. /\ UNCHANGED <<origin, spentBy, leftover>>
        /\ role' = [role EXCEPT ![p] = IF @ \in Account!Role THEN acts[c].aim ELSE @]
    BY <1>13 DEF Account!Promote, Account!inviteVars
  <2>3. acts'[c].step = "idle" /\ \A d \in Call \ {c} : acts'[d] = acts[d]
    BY <1>1, <1>13, ActEnds DEF Account!Promote
  <2>4. \A q \in Person \ {p} : role'[q] = role[q]
    BY <1>1, <2>2 DEF Account!TypeOK
  <2>5. origin[p] \in Invite => spentBy'[origin[p]] = p
    BY <1>1, <2>1, <2>2 DEF Births
  <2>6. ~Making(c)'
    BY <2>3 DEF Making
  <2>7. Births'
    BY <2>1, <2>2, <2>3, <2>4, <2>6, BirthsStay
  <2>8. \A q \in Person : Account!Exists(q)' => Account!Exists(q) \/ (Making(c) /\ q = Account!Who(c))
    BY <2>1, <2>4 DEF Account!Exists
  <2>9. Redeemed'
    BY <2>1, <2>2, <2>3, <2>5, <2>8, RedeemedStays
  <2> QED
    BY <2>7, <2>9
<1>14. ASSUME NEW c \in Call, Account!Die(c) PROVE Births' /\ Redeemed'
  <2>1. acts'[c].step = "idle" /\ \A d \in Call \ {c} : acts'[d] = acts[d]
    BY <1>1, <1>14, ActEnds DEF Account!Die
  <2>2. UNCHANGED <<role, origin, spentBy>> /\ leftover \subseteq leftover'
    BY <1>14 DEF Account!Die, Account!userVars, Account!inviteVars
  <2>3. ~Making(c)'
    BY <2>1 DEF Making
  <2>4. Births'
    BY <2>1, <2>2, <2>3, BirthsStay
  <2>5. Making(c) => role'[Account!Who(c)] \notin Account!Role \/ Account!Who(c) \in leftover'
    <3>1. Account!At(c, "create") => role'[Account!Who(c)] \notin Account!Role
      BY <1>1, <2>2 DEF Births, Account!Role
    <3> QED
      BY <1>14, <3>1 DEF Making, Account!At, Account!Die
  <2>6. Redeemed'
    BY <2>1, <2>2, <2>5, RedeemedStays DEF Account!Exists
  <2> QED
    BY <2>4, <2>6
<1>15. ASSUME UNCHANGED <<role, origin, spentBy, acts, leftover>> PROVE Births' /\ Redeemed'
  BY <1>1, <1>15 DEF Births, Redeemed, Account!At, Making, Account!Who, Account!Exists, Account!InProgress
<1>16. ASSUME NEW i \in Invite, Account!Offer(i) \/ Account!Withdraw(i) PROVE Births' /\ Redeemed'
  BY <1>15, <1>16 DEF Account!Offer, Account!Withdraw, Account!userVars
<1> QED
  BY <1>3, <1>4, <1>5, <1>7, <1>8, <1>9, <1>10, <1>11, <1>12, <1>13, <1>14, <1>16 DEF Account!Next

\* An administrator whom nothing threatens stays one, unless the call that moves
\* threatens him now.
LEMMA SafeStays ==
  ASSUME NEW c \in Call, NEW q \in Person, ~Threatened(q), q \in Account!Admins',
         \A d \in Call \ {c} : acts'[d] = acts[d],
         ~(acts'[c].who = q /\ Account!MayDemote(c)')
  PROVE  Administered'
<1>1. \A d \in Call \ {c} : ~(Account!Who(d)' = q /\ Account!MayDemote(d)')
  BY DEF Threatened, Account!Who, Account!MayDemote, Account!At
<1>2. ~(Account!Who(c)' = q /\ Account!MayDemote(c)')
  BY DEF Account!Who
<1>3. ~Threatened(q)'
  BY <1>1, <1>2 DEF Threatened
<1> QED
  BY <1>3 DEF Administered, Safe

\* Every step leaves an administrator nothing threatens, or none was needed yet.
LEMMA AdministratorsStay ==
  ASSUME AccountsInv, Account!TypeOK', Births', Account!Next
  PROVE  Administered'
<1>1. Account!TypeOK /\ Births /\ Administered
  BY DEF AccountsInv
<1>2. \A c \in Call : Making(c) => Account!Who(c) \in Person /\ origin[Account!Who(c)] \in Account!Origin
  BY <1>1 DEF Births, Making, Account!At
<1>3. raced => raced'
  BY DEF Account!Next, Account!Change, Account!Look, Account!Write, Account!SetUp, Account!Add, Account!Accept,
      Account!Asked, Account!Create, Account!Consume, Account!Undo, Account!Promote, Account!Die,
         Account!Offer, Account!Withdraw
<1> SUFFICES ASSUME ~raced' PROVE Administered'
  BY DEF Administered
<1>4. Safe \/ NoneYet
  BY <1>1, <1>3 DEF Administered
<1>5. NoneYet => \A c \in Call : acts[c].step \in {"idle", "create", "promote"}
  BY DEF NoneYet, Account!At
<1>6. "setup" \notin Invite
  BY ServicesAssumption DEF Account!AccountsAssumption
<1>7. ASSUME NEW c \in Call, Account!Change(c) PROVE Administered'
  <2>1. PICK actor \in Account!Admins, target \in Person, aim \in Account!Aim :
          Account!Begin(c, IF aim \in Account!Removal THEN "look" ELSE "write", target, aim)
    BY <1>7 DEF Account!Change
  <2>2. Safe
    BY <1>4, <2>1 DEF NoneYet
  <2>3. PICK q \in Account!Admins : ~Threatened(q)
    BY <2>2 DEF Safe
  <2>4. q \in Person /\ q \in Account!Admins'
    BY <1>7 DEF Account!Change, Account!userVars, Account!Admins
  <2>5. PICK s \in {"look", "write"} : Account!Begin(c, s, target, aim)
               /\ (s = "write" => aim \notin Account!Removal)
    BY <2>1
  <2>6. s \in Account!Step
    BY DEF Account!Step
  <2>7. acts'[c] = [step |-> s, who |-> target, aim |-> aim] /\ \A d \in Call \ {c} : acts'[d] = acts[d]
    BY <1>1, <2>5, <2>6, ActBegins
  <2>8. ~Account!MayDemote(c)'
    BY <2>5, <2>7 DEF Account!MayDemote, Account!At
  <2> QED
    BY <2>3, <2>4, <2>7, <2>8, SafeStays
<1>8. ASSUME NEW c \in Call, Account!Look(c) PROVE Administered'
  <2>1. UNCHANGED <<role, banned>> /\ Account!At(c, "look")
    BY <1>8 DEF Account!Look, Account!userVars
  <2>2. Account!Admins' = Account!Admins /\ Account!Admins \subseteq Person
    BY <2>1 DEF Account!Admins
  <2>3. Safe
    BY <1>4, <1>5, <2>1 DEF Account!At
  <2>4. CASE Account!Finish(c)
    <3>1. acts'[c].step = "idle" /\ \A d \in Call \ {c} : acts'[d] = acts[d]
      BY <1>1, <2>4, ActEnds
    <3>2. ~Account!MayDemote(c)'
      BY <3>1 DEF Account!MayDemote, Account!At
    <3>3. PICK q \in Account!Admins : ~Threatened(q)
      BY <2>3 DEF Safe
    <3> QED
      BY <2>2, <3>1, <3>2, <3>3, SafeStays
  <2>5. CASE /\ Account!Others(Account!Who(c)) # {} /\ Account!Go(c, "write")
             /\ raced' = (raced \/ \E d \in Call \ {c} : Account!Who(d) \in Account!Others(Account!Who(c)) /\ Account!MayDemote(d))
    <3>1. acts'[c].who = acts[c].who /\ \A d \in Call \ {c} : acts'[d] = acts[d]
      BY <1>1, <2>5, ActGoes DEF Account!Step
    <3>2. PICK q \in Account!Others(Account!Who(c)) : TRUE
      BY <2>5
    <3>3. q \in Account!Admins /\ q # Account!Who(c)
      BY <3>2 DEF Account!Others
    <3>4. \A d \in Call \ {c} : ~(Account!Who(d) = q /\ Account!MayDemote(d))
      BY <2>5, <3>2
    <3>5. ~Threatened(q)
      BY <3>3, <3>4 DEF Threatened
    <3>6. acts'[c].who # q
      BY <3>1, <3>3 DEF Account!Who
    <3> QED
      BY <2>2, <3>1, <3>3, <3>5, <3>6, SafeStays
  <2> QED
    BY <1>8, <2>4, <2>5 DEF Account!Look
<1>9. ASSUME NEW c \in Call, Account!Write(c) PROVE Administered'
  <2>1. Account!At(c, "write")
    BY <1>9 DEF Account!Write
  <2>2. Safe
    BY <1>4, <1>5, <2>1 DEF Account!At
  <2>3. PICK q \in Account!Admins : ~Threatened(q)
    BY <2>2 DEF Safe
  <2>4. q \in Person /\ role[q] = "admin" /\ q \notin banned
    BY <2>3 DEF Account!Admins
  <2>5. acts'[c].step = "idle" /\ \A d \in Call \ {c} : acts'[d] = acts[d]
    BY <1>1, <1>9, ActEnds DEF Account!Write
  <2>6. ~Account!MayDemote(c)'
    BY <2>5 DEF Account!MayDemote, Account!At
  <2>7. Account!Who(c) = q => acts[c].aim \in {"admin", "restore"}
    <3>1. Account!Who(c) = q => acts[c].aim \notin Account!Removal
      BY <2>1, <2>3 DEF Threatened, Account!MayDemote
    <3> QED
      BY <1>1, <3>1 DEF Account!TypeOK, Account!Aim
  <2>8. role'[q] = "admin"
    <3>1. CASE Account!Who(c) # q \/ ~Account!Exists(Account!Who(c))
      BY <1>1, <1>9, <2>4, <3>1 DEF Account!Write, Account!TypeOK
    <3>2. CASE Account!Who(c) = q /\ acts[c].aim = "admin" /\ Account!Exists(Account!Who(c))
      BY <1>1, <1>9, <2>4, <3>2 DEF Account!Write, Account!TypeOK, Account!Role
    <3>3. CASE Account!Who(c) = q /\ acts[c].aim = "restore" /\ Account!Exists(Account!Who(c))
      BY <1>1, <1>9, <2>4, <3>3 DEF Account!Write, Account!TypeOK, Account!Role
    <3> QED
      BY <2>7, <3>1, <3>2, <3>3
  <2>9. q \notin banned'
    <3>1. CASE Account!Who(c) # q
      BY <1>9, <2>4, <3>1 DEF Account!Write
    <3>2. CASE Account!Who(c) = q
      BY <1>9, <2>4, <2>7, <3>2 DEF Account!Write
    <3> QED
      BY <3>1, <3>2
  <2>10. q \in Account!Admins'
    BY <2>4, <2>8, <2>9 DEF Account!Admins
  <2> QED
    BY <2>3, <2>4, <2>5, <2>6, <2>10, SafeStays
<1>10. ASSUME NEW c \in Call, NEW p \in Person, NEW from \in Account!Origin, NEW a \in Account!Role,
              Account!Asked(c, p, from, a), NoneYet => from = "setup" /\ a = "admin"
       PROVE  Administered'
  <2>1. /\ Account!At(c, "idle") /\ origin[p] = Nobody /\ role[p] = "unborn"
        /\ acts'[c] = [step |-> "create", who |-> p, aim |-> a]
        /\ \A d \in Call \ {c} : acts'[d] = acts[d]
        /\ origin'[p] = from
        /\ \A r \in Person \ {p} : origin'[r] = origin[r]
        /\ \A d \in Call : Making(d) => Account!Who(d) # p
    BY <1>10, ActAsks
  <2>2. UNCHANGED <<role, banned, offer, leftover>>
    BY <1>10 DEF Account!Asked, Account!inviteVars
  <2>3. Account!Admins' = Account!Admins
    BY <2>2 DEF Account!Admins
  <2>4. CASE Safe
    <3>1. PICK q \in Account!Admins : ~Threatened(q)
      BY <2>4 DEF Safe
    <3>2. q \in Person
      BY DEF Account!Admins
    <3>3. ~Account!MayDemote(c)'
      BY <2>1 DEF Account!MayDemote, Account!At
    <3> QED
      BY <2>1, <2>3, <3>1, <3>2, <3>3, SafeStays
  <2>5. CASE NoneYet
    <3>1. ASSUME NEW q \in Person, Account!Exists(q)'
          PROVE  origin'[q] = "setup"
                   /\ (q \in leftover' \/ \E d \in Call : Account!At(d, "promote")' /\ Account!Who(d)' = q)
      <4>1. Account!Exists(q) /\ q # p
        BY <2>1, <2>2, <3>1 DEF Account!Exists, Account!Role
      <4>2. origin'[q] = "setup"
        BY <2>1, <2>5, <4>1 DEF NoneYet
      <4>3. ASSUME NEW d \in Call, Account!At(d, "promote"), Account!Who(d) = q
            PROVE  Account!At(d, "promote")' /\ Account!Who(d)' = q
        BY <2>1, <4>3 DEF Account!At, Account!Who
      <4> QED
        BY <2>2, <2>5, <4>1, <4>2, <4>3 DEF NoneYet
    <3>2. ASSUME NEW d \in Call, ~Account!At(d, "idle")'
          PROVE  /\ acts'[d].step \in {"create", "promote"} /\ acts'[d].aim = "admin"
                 /\ origin'[Account!Who(d)'] = "setup"
      <4>1. CASE d = c
        BY <1>10, <2>1, <2>5, <4>1 DEF Account!Who
      <4>2. CASE d # c
        <5>1. acts'[d] = acts[d] /\ ~Account!At(d, "idle")
          BY <2>1, <3>2, <4>2 DEF Account!At
        <5>2. acts[d].step \in {"create", "promote"} /\ acts[d].aim = "admin"
                /\ origin[Account!Who(d)] = "setup"
          BY <2>5, <5>1 DEF NoneYet
        <5>3. Making(d)
          BY <5>2 DEF Making
        <5> QED
          BY <1>2, <2>1, <5>1, <5>2, <5>3 DEF Account!Who
      <4> QED
        BY <4>1, <4>2
    <3>3. NoneYet'
      BY <2>2, <2>3, <2>5, <3>1, <3>2 DEF NoneYet
    <3> QED
      BY <3>3 DEF Administered
  <2> QED
    BY <1>4, <2>4, <2>5
<1>11. ASSUME NEW c \in Call, Account!SetUp(c) PROVE Administered'
  BY <1>10, <1>11 DEF Account!SetUp, Account!Origin, Account!Role
<1>12. ASSUME NEW c \in Call, Account!Add(c) PROVE Administered'
  BY <1>10, <1>12 DEF Account!Add, Account!Origin, NoneYet
<1>13. ASSUME NEW c \in Call, Account!Accept(c) PROVE Administered'
  <2>1. PICK i \in Invite, p \in Person : Account!Usable(i) /\ Account!Asked(c, p, i, offer[i])
    BY <1>13 DEF Account!Accept
  <2>2. offer[i] \in Account!Role /\ i \in Account!Origin
    BY <1>1, <2>1 DEF Account!Usable, Account!TypeOK, Account!Origin
  <2>3. ~NoneYet
    BY <2>1 DEF Account!Usable, NoneYet
  <2> QED
    BY <1>10, <2>1, <2>2, <2>3
<1>14. ASSUME NEW c \in Call, Account!Create(c) PROVE Administered'
  <2> DEFINE p == Account!Who(c)
  <2>1. Making(c) /\ p \in Person /\ Account!At(c, "create") /\ role[p] = "unborn"
    BY <1>1, <1>2, <1>14 DEF Account!Create, Account!At, Making, Births
  <2>2. PICK s \in {"consume", "promote"} : Account!Go(c, s) /\ (origin[p] \notin Invite => s = "promote")
    BY <1>14 DEF Account!Create
  <2>3. s \in Account!Step
    BY DEF Account!Step
  <2>4. /\ acts'[c].step = s /\ acts'[c].who = p /\ acts'[c].aim = acts[c].aim
        /\ \A d \in Call \ {c} : acts'[d] = acts[d]
    BY <1>1, <2>2, <2>3, ActGoes DEF Account!Who
  <2>5. UNCHANGED <<banned, origin, offer, leftover>> /\ role' = [role EXCEPT ![p] = "viewer"]
    BY <1>14 DEF Account!Create, Account!inviteVars
  <2>6. \A q \in Person \ {p} : role'[q] = role[q]
    BY <1>1, <2>5 DEF Account!TypeOK
  <2>7. role'[p] = "viewer"
    BY <1>1, <2>1, <2>5 DEF Account!TypeOK
  <2>8. CASE Safe
    <3>1. PICK q \in Account!Admins : ~Threatened(q)
      BY <2>8 DEF Safe
    <3>2. q \in Person /\ q # p
      BY <2>1 DEF Account!Admins
    <3>3. q \in Account!Admins'
      BY <2>5, <2>6, <3>2 DEF Account!Admins
    <3> QED
      BY <2>4, <3>1, <3>2, <3>3, SafeStays
  <2>9. CASE NoneYet
    <3>1. origin[p] = "setup" /\ acts[c].aim = "admin"
      BY <2>1, <2>9 DEF NoneYet, Account!At
    <3>2. acts'[c].step = "promote"
      BY <1>6, <2>2, <2>4, <3>1
    <3>3. Account!Admins' = {}
      BY <2>5, <2>6, <2>7, <2>9 DEF Account!Admins, NoneYet
    <3>4. ASSUME NEW q \in Person, Account!Exists(q)'
          PROVE  origin'[q] = "setup"
                   /\ (q \in leftover' \/ \E d \in Call : Account!At(d, "promote")' /\ Account!Who(d)' = q)
      <4>1. CASE q = p
        BY <2>4, <2>5, <3>1, <3>2, <4>1 DEF Account!At, Account!Who
      <4>2. CASE q # p
        <5>1. Account!Exists(q)
          BY <2>6, <3>4, <4>2 DEF Account!Exists
        <5>2. ASSUME NEW d \in Call, Account!At(d, "promote"), Account!Who(d) = q
              PROVE  Account!At(d, "promote")' /\ Account!Who(d)' = q
          BY <2>4, <4>2, <5>2 DEF Account!At, Account!Who
        <5> QED
          BY <2>5, <2>9, <5>1, <5>2 DEF NoneYet
      <4> QED
        BY <4>1, <4>2
    <3>5. ASSUME NEW d \in Call, ~Account!At(d, "idle")'
          PROVE  /\ acts'[d].step \in {"create", "promote"} /\ acts'[d].aim = "admin"
                 /\ origin'[Account!Who(d)'] = "setup"
      <4>1. CASE d = c
        BY <2>4, <2>5, <3>1, <3>2, <4>1 DEF Account!Who
      <4>2. CASE d # c
        BY <2>4, <2>5, <2>9, <3>5, <4>2 DEF NoneYet, Account!At, Account!Who
      <4> QED
        BY <4>1, <4>2
    <3>6. NoneYet'
      BY <2>5, <2>9, <3>3, <3>4, <3>5 DEF NoneYet
    <3> QED
      BY <3>6 DEF Administered
  <2> QED
    BY <1>4, <2>8, <2>9
<1>15. ASSUME NEW c \in Call, Account!Consume(c) \/ Account!Undo(c) PROVE Administered'
  <2> DEFINE p == Account!Who(c)
  <2>1. acts[c].step \in {"consume", "undo"}
    BY <1>15 DEF Account!Consume, Account!Undo, Account!At
  <2>2. Safe
    BY <1>4, <1>5, <2>1
  <2>3. PICK q \in Account!Admins : ~Threatened(q)
    BY <2>2 DEF Safe
  <2>4. q \in Person /\ q # p
    BY <2>1, <2>3 DEF Threatened, Account!MayDemote, Account!Admins
  <2>5. q \in Account!Admins'
    <3>1. CASE Account!Consume(c)
      BY <3>1 DEF Account!Consume, Account!userVars, Account!Admins
    <3>2. CASE Account!Undo(c)
      BY <1>1, <2>4, <3>2 DEF Account!Undo, Account!Remove, Account!Admins, Account!TypeOK
    <3> QED
      BY <1>15, <3>1, <3>2
  <2>6. CASE Account!Finish(c)
    <3>1. acts'[c].step = "idle" /\ \A d \in Call \ {c} : acts'[d] = acts[d]
      BY <1>1, <2>6, ActEnds
    <3>2. ~Account!MayDemote(c)'
      BY <3>1 DEF Account!MayDemote, Account!At
    <3> QED
      BY <2>3, <2>4, <2>5, <3>1, <3>2, SafeStays
  <2>7. ASSUME NEW s \in {"promote", "undo"}, Account!Go(c, s) PROVE Administered'
    <3>1. s \in Account!Step
      BY DEF Account!Step
    <3>2. acts'[c].who = p /\ \A d \in Call \ {c} : acts'[d] = acts[d]
      BY <1>1, <2>7, <3>1, ActGoes DEF Account!Who
    <3> QED
      BY <2>3, <2>4, <2>5, <3>2, SafeStays
  <2> QED
    BY <1>15, <2>6, <2>7 DEF Account!Consume, Account!Undo
<1>16. ASSUME NEW c \in Call, Account!Promote(c) PROVE Administered'
  <2> DEFINE p == Account!Who(c)
  <2>1. Making(c) /\ p \in Person /\ Account!At(c, "promote")
    BY <1>2, <1>16 DEF Account!Promote, Account!At, Making
  <2>2. /\ UNCHANGED <<banned, origin, offer, leftover>>
        /\ role' = [role EXCEPT ![p] = IF @ \in Account!Role THEN acts[c].aim ELSE @]
    BY <1>16 DEF Account!Promote, Account!inviteVars
  <2>3. acts'[c].step = "idle" /\ \A d \in Call \ {c} : acts'[d] = acts[d]
    BY <1>1, <1>16, ActEnds DEF Account!Promote
  <2>4. \A q \in Person \ {p} : role'[q] = role[q]
    BY <1>1, <2>2 DEF Account!TypeOK
  <2>5. ~Account!MayDemote(c)'
    BY <2>3 DEF Account!MayDemote, Account!At
  <2>6. CASE Safe
    <3>1. PICK q \in Account!Admins : ~Threatened(q)
      BY <2>6 DEF Safe
    <3>2. q \in Person /\ q # p
      BY <2>1, <3>1 DEF Threatened, Account!MayDemote, Account!Admins, Account!At
    <3>3. q \in Account!Admins'
      BY <2>2, <2>4, <3>2 DEF Account!Admins
    <3> QED
      BY <2>3, <2>5, <3>1, <3>2, <3>3, SafeStays
  <2>7. CASE NoneYet /\ Account!Exists(p)
    <3>1. acts[c].aim = "admin"
      BY <2>1, <2>7 DEF NoneYet, Account!At
    <3>2. role'[p] = "admin"
      BY <1>1, <2>1, <2>2, <2>7, <3>1 DEF Account!TypeOK, Account!Exists
    <3>3. PICK q \in Person : q = p
      BY <2>1
    <3>4. q \in Account!Admins'
      BY <2>2, <2>7, <3>2, <3>3 DEF NoneYet, Account!Admins
    <3>5. ~Threatened(q)'
      <4> SUFFICES ASSUME NEW d \in Call, Account!Who(d)' = q, Account!MayDemote(d)' PROVE FALSE
        BY DEF Threatened
      <4>1. d # c /\ acts'[d] = acts[d]
        BY <2>3, <2>5
      <4>2. Account!Who(d) = p /\ acts[d].step \in {"write", "consume", "undo", "promote"}
        BY <3>3, <4>1 DEF Account!Who, Account!MayDemote, Account!At
      <4>3. acts[d].step = "promote"
        BY <1>5, <2>7, <4>2
      <4> QED
        BY <1>1, <2>1, <4>1, <4>2, <4>3 DEF Births, Making
    <3> QED
      BY <3>4, <3>5 DEF Administered, Safe
  <2>8. CASE NoneYet /\ ~Account!Exists(p)
    <3>1. UNCHANGED role
      BY <1>1, <2>1, <2>2, <2>8 DEF Account!TypeOK, Account!Exists
    <3>2. Account!Admins' = {}
      BY <2>2, <2>8, <3>1 DEF Account!Admins, NoneYet
    <3>3. ASSUME NEW q \in Person, Account!Exists(q)'
          PROVE  origin'[q] = "setup"
                   /\ (q \in leftover' \/ \E d \in Call : Account!At(d, "promote")' /\ Account!Who(d)' = q)
      <4>1. Account!Exists(q) /\ q # p
        BY <2>8, <3>1, <3>3 DEF Account!Exists
      <4>2. ASSUME NEW d \in Call, Account!At(d, "promote"), Account!Who(d) = q
            PROVE  Account!At(d, "promote")' /\ Account!Who(d)' = q
        BY <2>3, <4>1, <4>2 DEF Account!At, Account!Who
      <4> QED
        BY <2>2, <2>8, <4>1, <4>2 DEF NoneYet
    <3>4. ASSUME NEW d \in Call, ~Account!At(d, "idle")'
          PROVE  /\ acts'[d].step \in {"create", "promote"} /\ acts'[d].aim = "admin"
                 /\ origin'[Account!Who(d)'] = "setup"
      BY <2>2, <2>3, <2>8, <3>4 DEF NoneYet, Account!At, Account!Who
    <3>5. NoneYet'
      BY <2>2, <2>8, <3>2, <3>3, <3>4 DEF NoneYet
    <3> QED
      BY <3>5 DEF Administered
  <2> QED
    BY <1>4, <2>6, <2>7, <2>8
<1>17. ASSUME NEW c \in Call, Account!Die(c) PROVE Administered'
  <2>1. acts'[c].step = "idle" /\ \A d \in Call \ {c} : acts'[d] = acts[d]
    BY <1>1, <1>17, ActEnds DEF Account!Die
  <2>2. UNCHANGED <<role, banned, origin, offer>> /\ leftover \subseteq leftover'
    BY <1>17 DEF Account!Die, Account!userVars, Account!inviteVars
  <2>3. Account!Admins' = Account!Admins
    BY <2>2 DEF Account!Admins
  <2>4. CASE Safe
    <3>1. PICK q \in Account!Admins : ~Threatened(q)
      BY <2>4 DEF Safe
    <3>2. q \in Person /\ ~Account!MayDemote(c)'
      BY <2>1 DEF Account!Admins, Account!MayDemote, Account!At
    <3> QED
      BY <2>1, <2>3, <3>1, <3>2, SafeStays
  <2>5. CASE NoneYet
    <3>1. ASSUME NEW q \in Person, Account!Exists(q)'
          PROVE  origin'[q] = "setup"
                   /\ (q \in leftover' \/ \E d \in Call : Account!At(d, "promote")' /\ Account!Who(d)' = q)
      <4>1. Account!Exists(q)
        BY <2>2, <3>1 DEF Account!Exists
      <4>2. ASSUME NEW d \in Call, Account!At(d, "promote"), Account!Who(d) = q
            PROVE  q \in leftover' \/ (Account!At(d, "promote")' /\ Account!Who(d)' = q)
        <5>1. CASE d = c
          BY <1>17, <4>2, <5>1 DEF Account!Die, Account!At
        <5>2. CASE d # c
          BY <2>1, <4>2, <5>2 DEF Account!At, Account!Who
        <5> QED
          BY <5>1, <5>2
      <4> QED
        BY <2>2, <2>5, <4>1, <4>2 DEF NoneYet
    <3>2. ASSUME NEW d \in Call, ~Account!At(d, "idle")'
          PROVE  /\ acts'[d].step \in {"create", "promote"} /\ acts'[d].aim = "admin"
                 /\ origin'[Account!Who(d)'] = "setup"
      BY <2>1, <2>2, <2>5, <3>2 DEF NoneYet, Account!At, Account!Who
    <3>3. NoneYet'
      BY <2>2, <2>3, <2>5, <3>1, <3>2 DEF NoneYet
    <3> QED
      BY <3>3 DEF Administered
  <2> QED
    BY <1>4, <2>4, <2>5
<1>18. ASSUME NEW i \in Invite, Account!Offer(i) \/ Account!Withdraw(i) PROVE Administered'
  <2>1. UNCHANGED <<role, banned, origin, acts, leftover>>
    BY <1>18 DEF Account!Offer, Account!Withdraw, Account!userVars
  <2>2. Safe => Safe'
    BY <2>1 DEF Safe, Account!Admins, Threatened, Account!Who, Account!MayDemote, Account!At
  <2>3. NoneYet => UNCHANGED offer
    BY <1>18 DEF Account!Offer, Account!Withdraw, NoneYet
  <2>4. NoneYet => NoneYet'
    BY <2>1, <2>3 DEF NoneYet, Account!Admins, Account!Exists, Account!At, Account!Who
  <2> QED
    BY <1>4, <2>2, <2>4 DEF Administered
<1> QED
  BY <1>7, <1>8, <1>9, <1>11, <1>12, <1>13, <1>14, <1>15, <1>16, <1>17, <1>18 DEF Account!Next

\* The invariant holds in every reachable state.
LEMMA AccountsStand == Account!Spec => []AccountsInv
<1>1. AccountsInv /\ [Account!Next]_(Account!vars) => AccountsInv'
  <2> SUFFICES ASSUME AccountsInv, [Account!Next]_(Account!vars) PROVE AccountsInv'
    OBVIOUS
  <2>1. CASE Account!Next
    BY <2>1, AccountTypes, AccountsAreMade, AdministratorsStay DEF AccountsInv
  <2>2. CASE UNCHANGED Account!vars
    BY <2>2
    DEF AccountsInv, Account!vars, Account!userVars, Account!inviteVars, Account!TypeOK, Births, Redeemed,
        Administered, Safe,
                NoneYet, Account!Admins, Threatened, Making, Account!MayDemote, Account!InProgress,
                Account!Exists, Account!At, Account!Who
  <2> QED
    BY <2>1, <2>2
<1> QED
  BY <1>1, AccountsBegin, PTL DEF Account!Spec

\* Every variable of the accounts has its type, for any people, invitations,
\* server actions and bounds.
THEOREM AccountsAreTyped == Account!Spec => []Account!TypeOK
<1>1. AccountsInv => Account!TypeOK
  BY DEF AccountsInv
<1> QED
  BY <1>1, AccountsStand, PTL

\* Whatever roles, suspensions, deletions and redemptions follow each other, an
\* instance with accounts has an administrator, but for two removals that each
\* counted the other's and a first-run setup that died (users/actions.ts,
\* wouldStrandInstance).
THEOREM AnAdministratorStays == Account!Spec => []AdministratorRemains
<1>1. AccountsInv => AdministratorRemains
  <2> SUFFICES ASSUME AccountsInv, \E p \in Person : Account!Exists(p), ~raced, Account!Admins = {}
               PROVE  \E p \in Person : origin[p] = "setup" /\ (Account!InProgress(p) \/ p \in leftover)
    BY DEF AdministratorRemains, Account!AdministratorRemains
  <2>1. NoneYet
    BY DEF AccountsInv, Administered, Safe
  <2>2. \A p \in Person : (\E d \in Call : Account!At(d, "promote") /\ Account!Who(d) = p) =>
          Account!InProgress(p)
    BY DEF Account!InProgress, Account!At
  <2> QED
    BY <2>1, <2>2 DEF NoneYet
<1> QED
  BY <1>1, AccountsStand, PTL

\* However often an invitation is opened, and whatever is revoked or deleted
\* meanwhile, it makes one account: a second is still being taken back, or its
\* call died (invite-service.ts, consumeInvite).
THEOREM OneAccountAnInvitation == Account!Spec => []InvitationMakesOneAccount
<1>1. AccountsInv => InvitationMakesOneAccount
  <2> SUFFICES ASSUME AccountsInv, NEW p \in Person, NEW q \in Person, p # q, Account!Exists(p),
                      Account!Exists(q),
                      origin[p] = origin[q], origin[p] \in Invite
               PROVE  \E r \in {p, q} : spentBy[origin[r]] # r /\ (Account!InProgress(r) \/ r \in leftover)
    BY DEF InvitationMakesOneAccount, Account!InvitationMakesOneAccount
  <2>1. PICK r \in {p, q} : spentBy[origin[r]] # r
    OBVIOUS
  <2> QED
    BY <2>1 DEF AccountsInv, Redeemed
<1> QED
  BY <1>1, AccountsStand, PTL

----------------------------------------------------------------------------
(* Restoring a backup.  While restores do not overlap, one request restores *)
(* and what it has done so far fixes the database, the page and the jobs.    *)

AskRecord == [step : Restore!Steps, id : Restore!Database, paused : BOOLEAN, restored : BOOLEAN,
              says : Restore!Says]

\* The handlers are stopped, or are being stopped; and all have returned.
Handing(q) ==
  asks[q].step \in {"drain", "prepare", "files", "copy", "load", "upgrade", "previews", "resume", "recover"}
Halted(q) == Handing(q) /\ ~Restore!At(q, "drain")

\* The database is the one the restore began with.
Before(q) ==
  \/ asks[q].step \in {"pause", "drain", "prepare", "files", "copy", "load"}
  \/ asks[q].step \in {"recover", "report"} /\ asks[q].says = "unchanged"

\* The database has been replaced, and the jobs of the one before are still to go.
Replaced(q) == Restore!At(q, "upgrade") \/ (asks[q].restored /\ asks[q].step \in {"previews", "resume", "recover"})

OneAtATime == \A p, q \in Request : Restore!Restoring(p) /\ Restore!Restoring(q) => p = q

\* What a restore has done is what its next step supposes.
CourseOf(q) ==
  /\ asks[q].paused => Halted(q) \/ Restore!At(q, "report")
  /\ Halted(q) /\ ~Restore!At(q, "recover") => asks[q].paused
  /\ asks[q].restored => asks[q].step \in {"previews", "resume", "finish", "recover", "report"}
  /\ asks[q].step \in {"previews", "resume"} => asks[q].restored
  /\ Handing(q) => ~working
  /\ Before(q) => data = state.from
  /\ asks[q].step \in {"upgrade", "previews", "resume", "finish"} => data = asks[q].id
  /\ asks[q].step \in {"previews", "resume", "finish"} => forward

\* The status page shows the restore that runs, and what became of the last one.
Reported ==
  /\ state.status = "done" => data = state.id /\ forward
  /\ state.status = "failed" /\ state.says = "unchanged" => data = state.from

Shown ==
  /\ \A q \in Request : Restore!Restoring(q) => state.status \in {"restoring", "uploaded"}
  /\ state.status = "restoring" => \E q \in Request : Restore!Restoring(q)
  /\ Reported

Served == working \/ stuck \/ \E q \in Request : Handing(q)

\* No handler works while a database is replaced, and none of what is queued names
\* another, except for a restore that has yet to discard it.
Dropped ==
  /\ \A q \in Request : Halted(q) => running = {}
  /\ running \subseteq {data}
  /\ jobs \subseteq {data} \/ \E q \in Request : Replaced(q)

Standing ==
  /\ OneAtATime /\ \A q \in Request : CourseOf(q)
  /\ Shown /\ Served
  /\ survived \/ stuck \/ Dropped

RestoreInv == Restore!TypeOK /\ (crossed \/ Standing)

LEMMA RestoreBegins == Restore!Init => RestoreInv
<1> SUFFICES ASSUME Restore!Init PROVE RestoreInv
  OBVIOUS
<1>1. 0 \in Restore!Database /\ 0 \in 0..MaxApply /\ 0 \in 0..MaxTrouble
  BY ServicesAssumption DEF Restore!RestoreAssumption, Restore!Database
<1>2. Restore!Idle \in AskRecord /\ Restore!Idle.step = "idle" /\ Restore!Idle.restored = FALSE
        /\ Restore!Idle.paused = FALSE
  BY <1>1 DEF Restore!Idle, AskRecord, Restore!Steps, Restore!Says
<1>3. asks \in [Request -> AskRecord] /\ \A q \in Request : asks[q] = Restore!Idle
  BY <1>2 DEF Restore!Init
<1>4. Restore!TypeOK
  BY <1>1, <1>3 DEF Restore!Init, Restore!TypeOK, AskRecord, Restore!Says
<1>5. \A q \in Request : ~Restore!Restoring(q) /\ CourseOf(q)
  BY <1>2, <1>3 DEF Restore!Restoring, CourseOf, Handing, Halted, Before, Restore!At
<1>6. Standing
  BY <1>5
  DEF Standing, OneAtATime, Shown, Reported, Served, Dropped, Restore!Init, Halted, Handing, Restore!Restoring
<1> QED
  BY <1>4, <1>6 DEF RestoreInv

\* What a request that goes on becomes; the others stay.
LEMMA AskGoes ==
  ASSUME Restore!TypeOK, NEW q \in Request, NEW s \in Restore!Steps, Restore!Go(q, s)
  PROVE  /\ asks' \in [Request -> AskRecord]
         /\ asks'[q].step = s /\ asks'[q].id = asks[q].id /\ asks'[q].paused = asks[q].paused
         /\ asks'[q].restored = asks[q].restored /\ asks'[q].says = asks[q].says
         /\ \A p \in Request \ {q} : asks'[p] = asks[p]
<1>1. asks[q] \in AskRecord
  BY DEF Restore!TypeOK, AskRecord
<1>2. [asks[q] EXCEPT !.step = s] \in AskRecord
  BY <1>1 DEF AskRecord
<1> QED
  BY <1>1, <1>2 DEF Restore!TypeOK, Restore!Go, AskRecord

\* What a request that is over becomes.
LEMMA AskRests ==
  ASSUME Restore!TypeOK, NEW q \in Request, Restore!Rest(q)
  PROVE  /\ asks' \in [Request -> AskRecord]
         /\ asks'[q].step = "idle" /\ asks'[q].restored = FALSE /\ asks'[q].paused = FALSE
         /\ \A p \in Request \ {q} : asks'[p] = asks[p]
<1>1. Restore!Idle \in AskRecord /\ Restore!Idle.step = "idle" /\ Restore!Idle.restored = FALSE
        /\ Restore!Idle.paused = FALSE
  BY ServicesAssumption
  DEF Restore!RestoreAssumption, Restore!Idle, AskRecord, Restore!Steps, Restore!Says, Restore!Database
<1> QED
  BY <1>1 DEF Restore!TypeOK, Restore!Rest, AskRecord

\* What a request becomes whose restore fails.
LEMMA AskCaught ==
  ASSUME Restore!TypeOK, NEW q \in Request, NEW says \in Restore!Says, Restore!Caught(q, says)
  PROVE  /\ asks' \in [Request -> AskRecord]
         /\ asks'[q].step = IF asks[q].paused THEN "recover" ELSE "report"
         /\ asks'[q].id = asks[q].id /\ asks'[q].paused = asks[q].paused
         /\ asks'[q].restored = asks[q].restored /\ asks'[q].says = says
         /\ \A p \in Request \ {q} : asks'[p] = asks[p]
<1>1. asks[q] \in AskRecord
  BY DEF Restore!TypeOK, AskRecord
<1>2. (IF asks[q].paused THEN "recover" ELSE "report") \in Restore!Steps
  BY DEF Restore!Steps
<1> QED
  BY <1>1, <1>2 DEF Restore!TypeOK, Restore!Caught, AskRecord

\* A request with no restore under way has no course to keep.
LEMMA NoCourse ==
  ASSUME NEW q \in Request, ~Restore!Restoring(q), ~asks[q].restored, ~asks[q].paused,
         asks[q].step \in Restore!Steps
  PROVE  CourseOf(q) /\ ~Handing(q) /\ ~Halted(q) /\ ~Replaced(q)
  BY DEF CourseOf, Restore!Restoring, Handing, Halted, Before, Replaced, Restore!At, Restore!Steps

\* While one request restores, a step of it is right when it keeps its own course
\* and leaves page, handlers and jobs in order.
LEMMA OneRestores ==
  ASSUME Restore!TypeOK, Restore!TypeOK', Standing, NEW q \in Request, Restore!Restoring(q),
         \A p \in Request \ {q} : asks'[p] = asks[p],
         CourseOf(q)',
         Restore!Restoring(q)' => state'.status \in {"restoring", "uploaded"},
         state'.status = "restoring" => Restore!Restoring(q)',
         Reported',
         working' \/ stuck' \/ Handing(q)',
         survived' \/ stuck' \/ ( /\ Halted(q)' => running' = {}
                                  /\ running' \subseteq {data'}
                                  /\ jobs' \subseteq {data'} \/ Replaced(q)' )
  PROVE  Standing'
<1>1. ASSUME NEW p \in Request \ {q}
      PROVE  ~Restore!Restoring(p)' /\ CourseOf(p)' /\ ~Halted(p)'
  <2>1. ~Restore!Restoring(p)
    BY DEF Standing, OneAtATime
  <2>2. ~asks[p].restored /\ ~asks[p].paused
    BY <2>1 DEF Standing, CourseOf, Restore!Restoring, Halted, Handing, Restore!At
  <2>3. ~Restore!Restoring(p)' /\ ~asks'[p].restored /\ ~asks'[p].paused /\ asks'[p].step \in Restore!Steps
    BY <2>1, <2>2 DEF Restore!Restoring, Restore!TypeOK
  <2> QED
    BY <2>3 DEF CourseOf, Restore!Restoring, Handing, Halted, Before, Restore!At
<1>2. OneAtATime'
  BY <1>1 DEF OneAtATime
<1>3. \A p \in Request : CourseOf(p)'
  BY <1>1
<1>4. Shown'
  BY <1>1 DEF Shown
<1>5. Served'
  BY DEF Served
<1>6. survived' \/ stuck' \/ Dropped'
  BY <1>1 DEF Dropped
<1> QED
  BY <1>2, <1>3, <1>4, <1>5, <1>6 DEF Standing

\* What a request becomes that pauses or resumes the handlers, or has restored.
LEMMA AskPauses ==
  ASSUME Restore!TypeOK, NEW q \in Request, NEW s \in Restore!Steps, NEW b \in BOOLEAN,
         asks' = [asks EXCEPT ![q].step = s, ![q].paused = b]
  PROVE  /\ asks' \in [Request -> AskRecord]
         /\ asks'[q].step = s /\ asks'[q].id = asks[q].id /\ asks'[q].paused = b
         /\ asks'[q].restored = asks[q].restored /\ asks'[q].says = asks[q].says
         /\ \A p \in Request \ {q} : asks'[p] = asks[p]
<1>1. asks[q] \in AskRecord
  BY DEF Restore!TypeOK, AskRecord
<1>2. [[asks[q] EXCEPT !.step = s] EXCEPT !.paused = b] \in AskRecord
  BY <1>1 DEF AskRecord
<1> QED
  BY <1>1, <1>2 DEF Restore!TypeOK, AskRecord

LEMMA AskIsRestored ==
  ASSUME Restore!TypeOK, NEW q \in Request, asks' = [asks EXCEPT ![q].step = "previews", ![q].restored = TRUE]
  PROVE  /\ asks' \in [Request -> AskRecord]
         /\ asks'[q].step = "previews" /\ asks'[q].id = asks[q].id
         /\ asks'[q].paused = asks[q].paused /\ asks'[q].restored = TRUE
         /\ \A p \in Request \ {q} : asks'[p] = asks[p]
<1>1. asks[q] \in AskRecord /\ "previews" \in Restore!Steps
  BY DEF Restore!TypeOK, AskRecord, Restore!Steps
<1>2. [[asks[q] EXCEPT !.step = "previews"] EXCEPT !.restored = TRUE] \in AskRecord
  BY <1>1 DEF AskRecord
<1> QED
  BY <1>1, <1>2 DEF Restore!TypeOK, AskRecord

\* The types are kept by every step.
LEMMA RestoreTypes ==
  ASSUME Restore!TypeOK, Restore!Next
  PROVE  Restore!TypeOK'
<1>1. MaxUpload \in Nat /\ MaxApply \in Nat /\ MaxTrouble \in Nat
  BY ServicesAssumption DEF Restore!RestoreAssumption
<1>2. Restore!Trouble => trouble' \in 0..MaxTrouble
  BY <1>1 DEF Restore!Trouble, Restore!TypeOK
<1>3. \A q \in Request : Restore!ShowPhase(q) =>
        state' \in [status : {"idle", "uploaded", "restoring", "done", "failed"},
                   id : Restore!Database, says : Restore!Says, from : Restore!Database]
  BY DEF Restore!ShowPhase, Restore!TypeOK
<1>4. \A q \in Request, s \in Restore!Steps : Restore!Go(q, s) => asks' \in [Request -> AskRecord]
  BY AskGoes
<1>5. \A q \in Request : Restore!Rest(q) => asks' \in [Request -> AskRecord]
  BY AskRests
<1>6. \A q \in Request, says \in Restore!Says : Restore!Caught(q, says) => asks' \in [Request -> AskRecord]
  BY AskCaught
<1>7. {"clear", "receive", "pause", "files", "copy", "load", "resume", "report", "upgrade"} \subseteq Restore!Steps
  BY DEF Restore!Steps
<1>8. {"unchanged", "changed", "nothing", "interrupted"} \subseteq Restore!Says
  BY DEF Restore!Says
<1>9. \A u \in Restore!Upload : u \in Restore!Database
  BY <1>1 DEF Restore!Upload, Restore!Database
<1>10. Restore!Discard =>
         jobs' \subseteq Restore!Database /\ survived' \in BOOLEAN /\ trouble' \in 0..MaxTrouble
  BY <1>2 DEF Restore!Discard, Restore!TypeOK
<1>11. ASSUME NEW q \in Request, Restore!Receiving(q) PROVE Restore!TypeOK'
  BY <1>4, <1>7, <1>11 DEF Restore!Receiving, Restore!TypeOK, AskRecord
<1>12. ASSUME NEW q \in Request, Restore!Clear(q) PROVE Restore!TypeOK'
  BY <1>4, <1>7, <1>12 DEF Restore!Clear, Restore!TypeOK, AskRecord
<1>13. ASSUME NEW q \in Request, Restore!Receive(q) PROVE Restore!TypeOK'
  <2>1. asks' \in [Request -> AskRecord]
    BY <1>5, <1>13 DEF Restore!Receive
  <2>2. CASE UNCHANGED <<state, staged, known>>
    BY <1>13, <2>1, <2>2 DEF Restore!Receive, Restore!TypeOK, AskRecord
  <2>3. CASE /\ known < MaxUpload
             /\ known' = known + 1 /\ staged' = staged \cup {known + 1}
             /\ state' = [state EXCEPT !.status = "uploaded", !.id = known + 1, !.says = "nothing"]
    <3>1. known + 1 \in Restore!Upload /\ known + 1 \in Restore!Database
      BY <1>1, <2>3 DEF Restore!TypeOK, Restore!Upload, Restore!Database
    <3>2. state' \in [status : {"idle", "uploaded", "restoring", "done", "failed"},
                      id : Restore!Database, says : Restore!Says, from : Restore!Database]
      BY <1>8, <2>3, <3>1 DEF Restore!TypeOK
    <3> QED
      BY <1>13, <2>1, <2>3, <3>1, <3>2 DEF Restore!Receive, Restore!TypeOK, AskRecord
  <2> QED
    BY <1>13, <2>2, <2>3 DEF Restore!Receive
<1>14. ASSUME NEW q \in Request, NEW u \in Restore!Upload, Restore!Apply(q, u) PROVE Restore!TypeOK'
  <2>1. asks' \in [Request -> AskRecord]
    <3>1. asks[q] \in AskRecord /\ u \in Restore!Database /\ "verify" \in Restore!Steps
      BY <1>9 DEF Restore!TypeOK, AskRecord, Restore!Steps
    <3> QED
      BY <1>14, <3>1 DEF Restore!Apply, Restore!TypeOK, AskRecord
  <2>2. applied' \in 0..MaxApply
    BY <1>1, <1>14 DEF Restore!Apply, Restore!TypeOK
  <2> QED
    BY <1>14, <2>1, <2>2 DEF Restore!Apply, Restore!TypeOK, AskRecord
<1>15. ASSUME NEW q \in Request, Restore!Verify(q) PROVE Restore!TypeOK'
  <2>1. CASE Restore!Rest(q) /\ UNCHANGED <<state, crossed>>
    BY <1>5, <1>15, <2>1 DEF Restore!Verify, Restore!TypeOK, AskRecord
  <2>2. CASE /\ Restore!Go(q, "pause")
             /\ state' = [status |-> "restoring", id |-> asks[q].id, says |-> "nothing", from |-> data]
             /\ crossed' = (crossed \/ \E p \in Request : Restore!Restoring(p))
    <3>1. asks' \in [Request -> AskRecord]
      BY <1>4, <1>7, <2>2
    <3>2. state' \in [status : {"idle", "uploaded", "restoring", "done", "failed"},
                      id : Restore!Database, says : Restore!Says, from : Restore!Database]
      BY <1>8, <2>2 DEF Restore!TypeOK
    <3>3. crossed' \in BOOLEAN
      BY <2>2 DEF Restore!TypeOK
    <3> QED
      BY <1>15, <3>1, <3>2, <3>3 DEF Restore!Verify, Restore!TypeOK, AskRecord
  <2> QED
    BY <1>15, <2>1, <2>2 DEF Restore!Verify
<1>16. ASSUME NEW q \in Request, Restore!Pause(q) PROVE Restore!TypeOK'
  <2>1. CASE /\ working' = FALSE /\ UNCHANGED <<stuck, trouble>>
             /\ asks' = [asks EXCEPT ![q].step = IF working THEN "drain" ELSE "prepare",
                                     ![q].paused = ~working]
    <3>1. asks' \in [Request -> AskRecord]
      <4>1. PICK s \in {"drain", "prepare"}, b \in BOOLEAN :
              asks' = [asks EXCEPT ![q].step = s, ![q].paused = b]
        <5>1. CASE working
          BY <2>1, <5>1
        <5>2. CASE ~working
          BY <2>1, <5>2
        <5> QED
          BY <5>1, <5>2
      <4>2. s \in Restore!Steps
        BY DEF Restore!Steps
      <4> QED
        BY <4>1, <4>2, AskPauses
    <3> QED
      BY <1>16, <2>1, <3>1 DEF Restore!Pause, Restore!TypeOK, AskRecord
  <2>2. CASE Restore!Trouble /\ Restore!Caught(q, "unchanged") /\ working' \in {working, FALSE}
               /\ stuck' = TRUE
    <3>1. asks' \in [Request -> AskRecord]
      BY <1>6, <1>8, <2>2
    <3> QED
      BY <1>2, <1>16, <2>2, <3>1 DEF Restore!Pause, Restore!TypeOK, AskRecord
  <2> QED
    BY <1>16, <2>1, <2>2 DEF Restore!Pause
<1>17. ASSUME NEW q \in Request, Restore!Drain(q) PROVE Restore!TypeOK'
  <2>1. asks' \in [Request -> AskRecord]
    BY <1>17, AskPauses DEF Restore!Drain, Restore!Steps
  <2>2. jobs' \subseteq Restore!Database /\ survived' \in BOOLEAN /\ trouble' \in 0..MaxTrouble
    BY <1>2, <1>17 DEF Restore!Drain, Restore!TypeOK
  <2> QED
    BY <1>17, <2>1, <2>2 DEF Restore!Drain, Restore!TypeOK, AskRecord
<1>18. ASSUME NEW q \in Request, Restore!Prepare(q) PROVE Restore!TypeOK'
  <2>1. asks' \in [Request -> AskRecord]
    BY <1>4, <1>6, <1>7, <1>8, <1>18 DEF Restore!Prepare
  <2>2. trouble' \in 0..MaxTrouble
    BY <1>2, <1>18 DEF Restore!Prepare, Restore!TypeOK
  <2> QED
    BY <1>3, <1>18, <2>1, <2>2 DEF Restore!Prepare, Restore!TypeOK, AskRecord
<1>31. ASSUME NEW q \in Request, Restore!MakeRoom(q) PROVE Restore!TypeOK'
  <2>1. asks' \in [Request -> AskRecord]
    BY <1>4, <1>6, <1>7, <1>8, <1>31 DEF Restore!MakeRoom
  <2>2. trouble' \in 0..MaxTrouble
    BY <1>2, <1>31 DEF Restore!MakeRoom, Restore!TypeOK
  <2> QED
    BY <1>3, <1>31, <2>1, <2>2 DEF Restore!MakeRoom, Restore!TypeOK, AskRecord
<1>32. ASSUME NEW q \in Request, Restore!PutFiles(q) PROVE Restore!TypeOK'
  <2>1. asks' \in [Request -> AskRecord]
    <3>1. asks \in [Request -> AskRecord]
      BY DEF Restore!TypeOK, AskRecord
    <3> QED
      BY <1>4, <1>6, <1>7, <1>8, <1>32, <3>1 DEF Restore!PutFiles
  <2>2. trouble' \in 0..MaxTrouble
    BY <1>2, <1>32 DEF Restore!PutFiles, Restore!TypeOK
  <2>3. files' \subseteq Restore!Database
    <3>1. asks[q].id \in Restore!Database
      BY DEF Restore!TypeOK
    <3> QED
      BY <1>32, <3>1 DEF Restore!PutFiles, Restore!TypeOK
  <2> QED
    BY <1>32, <2>1, <2>2, <2>3 DEF Restore!PutFiles, Restore!TypeOK, AskRecord
<1>19. ASSUME NEW q \in Request, Restore!Load(q) PROVE Restore!TypeOK'
  <2>1. asks' \in [Request -> AskRecord]
    BY <1>4, <1>6, <1>7, <1>8, <1>19 DEF Restore!Load
  <2>2. trouble' \in 0..MaxTrouble
    BY <1>2, <1>19 DEF Restore!Load, Restore!TypeOK
  <2>3. data' \in Restore!Database /\ forward' \in BOOLEAN
    <3>1. asks[q] \in AskRecord
      BY DEF Restore!TypeOK, AskRecord
    <3> QED
      BY <1>19, <3>1 DEF Restore!Load, Restore!TypeOK, AskRecord
  <2> QED
    BY <1>3, <1>19, <2>1, <2>2, <2>3 DEF Restore!Load, Restore!TypeOK, AskRecord
<1>20. ASSUME NEW q \in Request, Restore!Upgrade(q) PROVE Restore!TypeOK'
  <2>1. asks' \in [Request -> AskRecord]
    <3>1. CASE Restore!Caught(q, "changed")
      BY <1>6, <1>8, <3>1
    <3>2. CASE asks' = [asks EXCEPT ![q].step = "previews", ![q].restored = TRUE]
      BY <3>2, AskIsRestored
    <3> QED
      BY <1>20, <3>1, <3>2 DEF Restore!Upgrade
  <2>2. trouble' \in 0..MaxTrouble /\ forward' \in BOOLEAN /\ survived' \in BOOLEAN
    BY <1>2, <1>20 DEF Restore!Upgrade, Restore!TypeOK
  <2> QED
    BY <1>3, <1>20, <2>1, <2>2 DEF Restore!Upgrade, Restore!TypeOK, AskRecord
<1>21. ASSUME NEW q \in Request, Restore!Previews(q) PROVE Restore!TypeOK'
  <2>1. asks' \in [Request -> AskRecord]
    BY <1>4, <1>6, <1>7, <1>8, <1>21 DEF Restore!Previews
  <2>2. trouble' \in 0..MaxTrouble
    BY <1>2, <1>21 DEF Restore!Previews, Restore!TypeOK
  <2> QED
    BY <1>21, <2>1, <2>2 DEF Restore!Previews, Restore!TypeOK, AskRecord
<1>22. ASSUME NEW q \in Request, Restore!Resume(q) PROVE Restore!TypeOK'
  <2>1. CASE /\ Restore!Discard /\ working' = TRUE
             /\ asks' = [asks EXCEPT ![q].step = "finish", ![q].paused = FALSE]
    <3>1. asks' \in [Request -> AskRecord]
      BY <2>1, AskPauses DEF Restore!Steps
    <3> QED
      BY <1>10, <1>22, <2>1, <3>1 DEF Restore!Resume, Restore!TypeOK, AskRecord
  <2>2. CASE Restore!Trouble /\ Restore!Caught(q, "changed") /\ UNCHANGED <<jobs, survived, working>>
    BY <1>2, <1>6, <1>8, <1>22, <2>2 DEF Restore!Resume, Restore!TypeOK, AskRecord
  <2> QED
    BY <1>22, <2>1, <2>2 DEF Restore!Resume
<1>23. ASSUME NEW q \in Request, Restore!Finish(q) PROVE Restore!TypeOK'
  <2>1. asks' \in [Request -> AskRecord]
    BY <1>5, <1>6, <1>8, <1>23 DEF Restore!Finish
  <2>2. trouble' \in 0..MaxTrouble /\ jobs' \subseteq Restore!Database /\ staged' \subseteq Restore!Upload
    BY <1>2, <1>23 DEF Restore!Finish, Restore!TypeOK
  <2>3. state' \in [status : {"idle", "uploaded", "restoring", "done", "failed"},
                    id : Restore!Database, says : Restore!Says, from : Restore!Database]
    BY <1>8, <1>23 DEF Restore!Finish, Restore!TypeOK
  <2> QED
    BY <1>23, <2>1, <2>2, <2>3 DEF Restore!Finish, Restore!TypeOK, AskRecord
<1>24. ASSUME NEW q \in Request, Restore!Recover(q) PROVE Restore!TypeOK'
  <2>1. asks' \in [Request -> AskRecord]
    BY <1>4, <1>7, <1>24 DEF Restore!Recover
  <2>2. jobs' \subseteq Restore!Database /\ survived' \in BOOLEAN /\ trouble' \in 0..MaxTrouble
    BY <1>2, <1>10, <1>24 DEF Restore!Recover, Restore!TypeOK
  <2>3. working' \in BOOLEAN /\ stuck' \in BOOLEAN
    BY <1>24 DEF Restore!Recover, Restore!TypeOK
  <2> QED
    BY <1>24, <2>1, <2>2, <2>3 DEF Restore!Recover, Restore!TypeOK, AskRecord
<1>25. ASSUME NEW q \in Request, Restore!Report(q) PROVE Restore!TypeOK'
  <2>1. asks' \in [Request -> AskRecord]
    BY <1>5, <1>25 DEF Restore!Report
  <2>2. state' \in [status : {"idle", "uploaded", "restoring", "done", "failed"},
                    id : Restore!Database, says : Restore!Says, from : Restore!Database]
    BY <1>25 DEF Restore!Report, Restore!TypeOK
  <2> QED
    BY <1>25, <2>1, <2>2 DEF Restore!Report, Restore!TypeOK, AskRecord
<1>26. ASSUME NEW d \in Restore!Database, Restore!Take(d) PROVE Restore!TypeOK'
  BY <1>26 DEF Restore!Take, Restore!TypeOK
<1>27. ASSUME NEW d \in Restore!Database, Restore!Handled(d) PROVE Restore!TypeOK'
  BY <1>27 DEF Restore!Handled, Restore!TypeOK
<1>28. CASE Restore!Enqueue
  BY <1>28 DEF Restore!Enqueue, Restore!TypeOK
<1>29. CASE Restore!Crash
  <2>1. Restore!Idle \in AskRecord
    BY <1>1 DEF Restore!Idle, AskRecord, Restore!Steps, Restore!Says, Restore!Database
  <2>2. state' \in [status : {"idle", "uploaded", "restoring", "done", "failed"},
                    id : Restore!Database, says : Restore!Says, from : Restore!Database]
    BY <1>8, <1>29 DEF Restore!Crash, Restore!TypeOK
  <2>3. jobs' \subseteq Restore!Database /\ running' \subseteq Restore!Database /\ survived' \in BOOLEAN
    BY <1>29 DEF Restore!Crash, Restore!TypeOK
  <2> QED
    BY <1>2, <1>29, <2>1, <2>2, <2>3 DEF Restore!Crash, Restore!TypeOK, AskRecord
<1>30. CASE Restore!Migrate
  BY <1>30 DEF Restore!Migrate, Restore!TypeOK
<1> QED
  BY <1>11, <1>12, <1>13, <1>14, <1>15, <1>16, <1>17, <1>18, <1>19, <1>20, <1>21, <1>22, <1>23, <1>24,
     <1>25, <1>26, <1>27, <1>28, <1>29, <1>30, <1>31, <1>32 DEF Restore!Next

\* A step outside the restores, of a request that begins none.
LEMMA NoneRestores ==
  ASSUME Restore!TypeOK, Restore!TypeOK', Standing, NEW q \in Request, ~Restore!Restoring(q),
         ~Restore!Restoring(q)',
         ~asks'[q].restored, ~asks'[q].paused,
         \A p \in Request \ {q} : asks'[p] = asks[p],
         UNCHANGED <<data, forward, jobs, running, working, stuck, survived>>,
         state'.status \in {state.status, "uploaded"}, state'.from = state.from,
         state'.status # "uploaded" => state' = state
  PROVE  Standing'
<1>1. CourseOf(q)' /\ ~Handing(q)' /\ ~Halted(q)' /\ ~Replaced(q)'
  BY DEF CourseOf, Restore!Restoring, Handing, Halted, Before, Replaced, Restore!At, Restore!TypeOK
<1>2. \A p \in Request : Restore!Restoring(p)' <=> Restore!Restoring(p)
  BY DEF Restore!Restoring
<1>3. \A p \in Request \ {q} : /\ CourseOf(p)' /\ (Handing(p)' <=> Handing(p))
                               /\ (Halted(p)' <=> Halted(p)) /\ (Replaced(p)' <=> Replaced(p))
  BY DEF Standing, CourseOf, Handing, Halted, Before, Replaced, Restore!At
<1>4. ~Handing(q) /\ ~Halted(q) /\ ~Replaced(q)
  <2>1. ~asks[q].restored
    BY DEF Standing, CourseOf, Restore!Restoring
  <2> QED
    BY <2>1 DEF Restore!Restoring, Handing, Halted, Replaced, Restore!At
<1>5. OneAtATime'
  BY <1>2 DEF Standing, OneAtATime
<1>6. Shown'
  BY <1>2 DEF Standing, Shown, Reported
<1>7. Served'
  BY <1>1, <1>3, <1>4 DEF Standing, Served
<1>8. Dropped => Dropped'
  BY <1>1, <1>3, <1>4 DEF Dropped
<1> QED
  BY <1>1, <1>3, <1>5, <1>6, <1>7, <1>8 DEF Standing

\* What holds of a request that restores, alone.
LEMMA Restores ==
  ASSUME Restore!TypeOK, Standing, NEW q \in Request, Restore!Restoring(q)
  PROVE  /\ CourseOf(q) /\ asks[q] \in AskRecord /\ Reported
         /\ working \/ stuck \/ Handing(q)
         /\ survived \/ stuck \/ ( /\ Halted(q) => running = {}
                                   /\ running \subseteq {data}
                                   /\ jobs \subseteq {data} \/ Replaced(q) )
<1>1. ASSUME NEW p \in Request \ {q} PROVE ~Restore!Restoring(p) /\ ~Handing(p) /\ ~Replaced(p)
  <2>1. ~Restore!Restoring(p)
    BY DEF Standing, OneAtATime
  <2>2. ~asks[p].restored
    BY <2>1 DEF Standing, CourseOf, Restore!Restoring
  <2> QED
    BY <2>1, <2>2 DEF Restore!Restoring, Handing, Replaced, Restore!At
<1>2. working \/ stuck \/ Handing(q)
  BY <1>1 DEF Standing, Served
<1>3. Dropped => /\ Halted(q) => running = {}
                 /\ running \subseteq {data}
                 /\ jobs \subseteq {data} \/ Replaced(q)
  BY <1>1 DEF Dropped
<1> QED
  BY <1>2, <1>3 DEF Standing, Shown, Restore!TypeOK, AskRecord

\* Discarding leaves no job of a database that has gone, or says so.
LEMMA Discards ==
  ASSUME Restore!Discard
  PROVE  survived' \/ jobs' \subseteq {data}
  BY DEF Restore!Discard

\* The restores of the runs that begin, and those that run, keep all in order.
LEMMA RestoringStands ==
  ASSUME Restore!TypeOK, Restore!TypeOK', Standing, NEW q \in Request, ~crossed',
         \/ Restore!Verify(q) \/ Restore!Pause(q) \/ Restore!Drain(q) \/ Restore!Prepare(q)
         \/ Restore!MakeRoom(q) \/ Restore!PutFiles(q) \/ Restore!Load(q) \/ Restore!Upgrade(q) \/ Restore!Previews(q)
         \/ Restore!Resume(q) \/ Restore!Finish(q) \/ Restore!Recover(q) \/ Restore!Report(q)
  PROVE  Standing'
<1>1. asks[q] \in AskRecord /\ asks'[q] \in AskRecord
  BY DEF Restore!TypeOK, AskRecord
<1>2. {"pause", "files", "copy", "load", "resume", "report"} \subseteq Restore!Steps
        /\ {"unchanged", "changed"} \subseteq Restore!Says
  BY DEF Restore!Steps, Restore!Says
<1>3. CASE Restore!Verify(q)
  <2>1. ~Restore!Restoring(q)
    BY <1>3 DEF Restore!Verify, Restore!At, Restore!Restoring
  <2>2. CASE Restore!Rest(q) /\ UNCHANGED <<state, crossed>>
    <3>1. asks'[q].step = "idle" /\ asks'[q].restored = FALSE /\ asks'[q].paused = FALSE
          /\ \A p \in Request \ {q} : asks'[p] = asks[p]
      BY <2>2, AskRests
    <3>2. ~Restore!Restoring(q)'
      BY <3>1 DEF Restore!Restoring
    <3> QED
      BY <1>3, <2>1, <2>2, <3>1, <3>2, NoneRestores DEF Restore!Verify
  <2>3. CASE /\ Restore!Go(q, "pause")
             /\ state' = [status |-> "restoring", id |-> asks[q].id, says |-> "nothing", from |-> data]
             /\ crossed' = (crossed \/ \E p \in Request : Restore!Restoring(p))
    <3>1. asks'[q].step = "pause" /\ asks'[q].restored = asks[q].restored /\ asks'[q].paused = asks[q].paused
          /\ \A p \in Request \ {q} : asks'[p] = asks[p]
      BY <1>2, <2>3, AskGoes
    <3>2. \A p \in Request : /\ ~Restore!Restoring(p) /\ ~asks[p].restored /\ ~asks[p].paused
            /\ asks[p].step \in Restore!Steps
                             /\ ~Handing(p) /\ ~Replaced(p)
      <4>1. \A p \in Request : ~Restore!Restoring(p)
        BY <2>3
      <4>2. \A p \in Request : ~asks[p].restored /\ ~asks[p].paused
        BY <4>1 DEF Standing, CourseOf, Restore!Restoring, Halted, Handing, Restore!At
      <4> QED
        BY <4>1, <4>2 DEF Restore!Restoring, Restore!TypeOK, Handing, Replaced, Restore!At
    <3>3. UNCHANGED <<data, forward, jobs, running, working, stuck, survived>>
      BY <1>3 DEF Restore!Verify
    <3>4. \A p \in Request \ {q} : ~Restore!Restoring(p)' /\ CourseOf(p)' /\ ~Halted(p)'
      BY <3>1, <3>2 DEF CourseOf, Restore!Restoring, Handing, Halted, Before, Restore!At
    <3>5. CourseOf(q)' /\ Restore!Restoring(q)' /\ ~Halted(q)'
      BY <2>3, <3>1, <3>2, <3>3 DEF CourseOf, Restore!Restoring, Handing, Halted, Before, Restore!At
    <3>6. Shown'
      BY <2>3, <3>5 DEF Shown, Reported
    <3>7. Served'
      BY <3>2, <3>3 DEF Standing, Served
    <3>8. Dropped => Dropped'
      BY <3>2, <3>3, <3>4, <3>5 DEF Dropped
    <3>9. OneAtATime'
      BY <3>4 DEF OneAtATime
    <3> QED
      BY <3>3, <3>4, <3>5, <3>6, <3>7, <3>8, <3>9 DEF Standing
  <2> QED
    BY <1>3, <2>2, <2>3 DEF Restore!Verify
<1>4. ASSUME Restore!Restoring(q) PROVE CourseOf(q) /\ Reported /\ ~(Halted(q) /\ working)
  BY <1>4, Restores DEF CourseOf, Halted
<1>5. ASSUME Restore!Restoring(q), ~survived, ~stuck
      PROVE  /\ working \/ Handing(q)
             /\ Halted(q) => running = {}
             /\ running \subseteq {data}
             /\ jobs \subseteq {data} \/ Replaced(q)
  BY <1>5, Restores
<1>6. ASSUME Restore!Restoring(q) PROVE state.status \in {"restoring", "uploaded"}
  BY <1>6 DEF Standing, Shown
<1>7. \A p \in Request \ {q} : asks'[p] = asks[p]
  <2>1. \A s : Restore!Go(q, s) => \A p \in Request \ {q} : asks'[p] = asks[p]
    BY DEF Restore!Go, Restore!TypeOK
  <2>2. Restore!Rest(q) => \A p \in Request \ {q} : asks'[p] = asks[p]
    BY DEF Restore!Rest, Restore!TypeOK
  <2>3. \A says : Restore!Caught(q, says) => \A p \in Request \ {q} : asks'[p] = asks[p]
    BY DEF Restore!Caught, Restore!TypeOK
  <2>4. CASE \/ Restore!Verify(q) \/ Restore!Prepare(q) \/ Restore!MakeRoom(q) \/ Restore!PutFiles(q)
             \/ Restore!Load(q) \/ Restore!Previews(q) \/ Restore!Finish(q) \/ Restore!Recover(q)
             \/ Restore!Report(q)
    BY <2>1, <2>2, <2>3, <2>4
    DEF Restore!Verify, Restore!Prepare, Restore!MakeRoom, Restore!PutFiles, Restore!Load, Restore!Previews,
        Restore!Finish, Restore!Recover, Restore!Report
  <2>5. CASE Restore!Pause(q)
    BY <2>3, <2>5 DEF Restore!Pause, Restore!TypeOK
  <2>6. CASE Restore!Drain(q)
    BY <2>6 DEF Restore!Drain, Restore!TypeOK
  <2>7. CASE Restore!Upgrade(q)
    BY <2>3, <2>7 DEF Restore!Upgrade, Restore!TypeOK
  <2>8. CASE Restore!Resume(q)
    BY <2>3, <2>8 DEF Restore!Resume, Restore!TypeOK
  <2> QED
    BY <2>4, <2>5, <2>6, <2>7, <2>8
<1>8. CASE Restore!Pause(q)
  <2>1. Restore!Restoring(q) /\ Restore!At(q, "pause")
          /\ UNCHANGED <<state, data, forward, jobs, running, survived>>
    BY <1>8 DEF Restore!Pause, Restore!At, Restore!Restoring
  <2>2. ~asks[q].paused /\ ~asks[q].restored /\ data = state.from /\ ~Replaced(q)
    BY <1>4, <2>1 DEF CourseOf, Halted, Handing, Before, Restore!At, Replaced
  <2>3. CASE /\ working' = FALSE /\ UNCHANGED <<stuck, trouble>>
             /\ asks' = [asks EXCEPT ![q].step = IF working THEN "drain" ELSE "prepare",
                                     ![q].paused = ~working]
    <3>1. /\ asks'[q].step = IF working THEN "drain" ELSE "prepare"
          /\ asks'[q].paused = ~working /\ asks'[q].restored = asks[q].restored
      BY <1>1, <2>3 DEF Restore!TypeOK, AskRecord
    <3>2. CASE working
      <4>1. asks'[q].step = "drain" /\ asks'[q].paused = FALSE /\ asks'[q].restored = FALSE
        BY <2>2, <3>1, <3>2, <1>1 DEF AskRecord
      <4>2. CourseOf(q)' /\ Handing(q)' /\ ~Halted(q)' /\ Restore!Restoring(q)'
        BY <2>1, <2>2, <2>3, <4>1 DEF CourseOf, Halted, Handing, Before, Restore!At, Restore!Restoring
      <4> QED
        BY <1>4, <1>5, <1>6, <1>7, <2>1, <2>2, <2>3, <4>2, OneRestores DEF Reported
    <3>3. CASE ~working
      <4>1. asks'[q].step = "prepare" /\ asks'[q].paused = TRUE /\ asks'[q].restored = FALSE
        BY <2>2, <3>1, <3>3, <1>1 DEF AskRecord
      <4>2. CourseOf(q)' /\ Handing(q)' /\ Restore!Restoring(q)'
        BY <2>1, <2>2, <2>3, <4>1 DEF CourseOf, Halted, Handing, Before, Restore!At, Restore!Restoring
      <4>3. survived \/ stuck
        BY <1>5, <2>1, <3>3 DEF Handing, Restore!At
      <4> QED
        BY <1>4, <1>6, <1>7, <2>1, <2>3, <4>2, <4>3, OneRestores DEF Reported
    <3> QED
      BY <3>2, <3>3
  <2>4. CASE Restore!Trouble /\ Restore!Caught(q, "unchanged") /\ working' \in {working, FALSE}
               /\ stuck' = TRUE
    <3>1. asks'[q].step = "report" /\ asks'[q].restored = FALSE /\ asks'[q].paused = FALSE
      BY <1>1, <1>2, <2>2, <2>4, AskCaught DEF AskRecord
    <3>2. CourseOf(q)' /\ Restore!Restoring(q)'
      BY <2>1, <2>2, <3>1 DEF CourseOf, Halted, Handing, Before, Restore!At, Restore!Restoring
    <3> QED
      BY <1>4, <1>6, <1>7, <2>1, <2>4, <3>2, OneRestores DEF Reported
  <2> QED
    BY <1>8, <2>3, <2>4 DEF Restore!Pause
<1>9. CASE Restore!Drain(q)
  <2>1. /\ Restore!Restoring(q) /\ Restore!At(q, "drain") /\ Handing(q)
        /\ UNCHANGED <<state, data, forward, running, working, stuck>>
    BY <1>9 DEF Restore!Drain, Restore!At, Restore!Restoring, Handing
  <2>2. ~asks[q].restored /\ ~working /\ data = state.from /\ ~Replaced(q)
    BY <1>4, <2>1 DEF CourseOf, Halted, Handing, Before, Restore!At, Replaced
  <2>3. asks'[q].step = "prepare" /\ asks'[q].paused = TRUE /\ asks'[q].restored = FALSE
    BY <1>1, <1>9, <2>2 DEF Restore!Drain, Restore!TypeOK, AskRecord
  <2>4. CourseOf(q)' /\ Handing(q)' /\ Halted(q)' /\ Restore!Restoring(q)' /\ ~Replaced(q)'
    BY <2>1, <2>2, <2>3 DEF CourseOf, Halted, Handing, Before, Restore!At, Restore!Restoring, Replaced
  <2>5. survived' \/ (running = {} /\ UNCHANGED <<jobs, survived>>)
    BY <1>9 DEF Restore!Drain
  <2> QED
    BY <1>4, <1>5, <1>6, <1>7, <2>1, <2>2, <2>4, <2>5, OneRestores DEF Reported
<1>10. CASE Restore!Prepare(q)
  <2>1. /\ Restore!Restoring(q) /\ Restore!At(q, "prepare") /\ Handing(q) /\ Halted(q)
        /\ UNCHANGED <<data, forward, jobs, running, working, stuck, survived>>
    BY <1>10 DEF Restore!Prepare, Restore!At, Restore!Restoring, Handing, Halted
  <2>2. ~asks[q].restored /\ ~working /\ data = state.from /\ asks[q].paused = TRUE /\ ~Replaced(q)
    BY <1>1, <1>4, <2>1 DEF CourseOf, Halted, Handing, Before, Restore!At, AskRecord, Replaced
  <2>3. state'.status = "restoring" /\ state'.from = state.from
    BY <1>10 DEF Restore!Prepare, Restore!ShowPhase, Restore!TypeOK
  <2>4. /\ asks'[q].restored = FALSE /\ asks'[q].paused = TRUE
        /\ asks'[q].step = "files" \/ (asks'[q].step = "recover" /\ asks'[q].says = "unchanged")
    <3>1. CASE Restore!Go(q, "files")
      BY <1>1, <1>2, <2>2, <3>1, AskGoes DEF AskRecord
    <3>2. CASE Restore!Caught(q, "unchanged")
      BY <1>1, <1>2, <2>2, <3>2, AskCaught DEF AskRecord
    <3> QED
      BY <1>10, <3>1, <3>2 DEF Restore!Prepare
  <2>5. CourseOf(q)' /\ Handing(q)' /\ Halted(q)' /\ Restore!Restoring(q)' /\ ~Replaced(q)'
    BY <2>1, <2>2, <2>3, <2>4 DEF CourseOf, Halted, Handing, Before, Restore!At, Restore!Restoring, Replaced
  <2> QED
    BY <1>5, <1>7, <2>1, <2>2, <2>3, <2>5, OneRestores DEF Reported
<1>18. CASE Restore!MakeRoom(q)
  <2>1. /\ Restore!Restoring(q) /\ Restore!At(q, "files") /\ Handing(q) /\ Halted(q)
        /\ UNCHANGED <<data, forward, jobs, running, working, stuck, survived>>
    BY <1>18 DEF Restore!MakeRoom, Restore!At, Restore!Restoring, Handing, Halted
  <2>2. ~asks[q].restored /\ ~working /\ data = state.from /\ asks[q].paused = TRUE /\ ~Replaced(q)
    BY <1>1, <1>4, <2>1 DEF CourseOf, Halted, Handing, Before, Restore!At, AskRecord, Replaced
  <2>3. state'.status = "restoring" /\ state'.from = state.from
    BY <1>18 DEF Restore!MakeRoom, Restore!ShowPhase, Restore!TypeOK
  <2>4. /\ asks'[q].restored = FALSE /\ asks'[q].paused = TRUE
        /\ asks'[q].step \in {"copy", "load"} \/ (asks'[q].step = "recover" /\ asks'[q].says = "unchanged")
    <3>1. CASE Restore!Go(q, IF asks[q].id \in WithFiles THEN "copy" ELSE "load")
      BY <1>1, <1>2, <2>2, <3>1, AskGoes DEF AskRecord
    <3>2. CASE Restore!Caught(q, "unchanged")
      BY <1>1, <1>2, <2>2, <3>2, AskCaught DEF AskRecord
    <3> QED
      BY <1>18, <3>1, <3>2 DEF Restore!MakeRoom
  <2>5. CourseOf(q)' /\ Handing(q)' /\ Halted(q)' /\ Restore!Restoring(q)' /\ ~Replaced(q)'
    BY <2>1, <2>2, <2>3, <2>4 DEF CourseOf, Halted, Handing, Before, Restore!At, Restore!Restoring, Replaced
  <2> QED
    BY <1>5, <1>7, <2>1, <2>2, <2>3, <2>5, OneRestores DEF Reported
<1>19. CASE Restore!PutFiles(q)
  <2>1. /\ Restore!Restoring(q) /\ Restore!At(q, "copy") /\ Handing(q) /\ Halted(q)
        /\ UNCHANGED <<state, data, forward, jobs, running, working, stuck, survived>>
    BY <1>19 DEF Restore!PutFiles, Restore!At, Restore!Restoring, Handing, Halted
  <2>2. ~asks[q].restored /\ ~working /\ data = state.from /\ asks[q].paused = TRUE /\ ~Replaced(q)
    BY <1>1, <1>4, <2>1 DEF CourseOf, Halted, Handing, Before, Restore!At, AskRecord, Replaced
  <2>3. /\ asks'[q].restored = FALSE /\ asks'[q].paused = TRUE
        /\ asks'[q].step \in {"copy", "load"} \/ (asks'[q].step = "recover" /\ asks'[q].says = "unchanged")
    <3>1. CASE Restore!Go(q, "load")
      BY <1>1, <1>2, <2>2, <3>1, AskGoes DEF AskRecord
    <3>2. CASE Restore!Caught(q, "unchanged")
      BY <1>1, <1>2, <2>2, <3>2, AskCaught DEF AskRecord
    <3>3. CASE UNCHANGED asks
      BY <1>1, <2>1, <2>2, <3>3 DEF AskRecord, Restore!At
    <3> QED
      BY <1>19, <3>1, <3>2, <3>3 DEF Restore!PutFiles
  <2>4. CourseOf(q)' /\ Handing(q)' /\ Halted(q)' /\ Restore!Restoring(q)' /\ ~Replaced(q)'
    BY <2>1, <2>2, <2>3 DEF CourseOf, Halted, Handing, Before, Restore!At, Restore!Restoring, Replaced
  <2> QED
    BY <1>4, <1>5, <1>6, <1>7, <2>1, <2>2, <2>4, OneRestores DEF Reported
<1>11. CASE Restore!Load(q)
  <2>1. /\ Restore!Restoring(q) /\ Restore!At(q, "load") /\ Handing(q) /\ Halted(q)
        /\ UNCHANGED <<jobs, running, working, stuck, survived>>
    BY <1>11 DEF Restore!Load, Restore!At, Restore!Restoring, Handing, Halted
  <2>2. ~asks[q].restored /\ ~working /\ data = state.from /\ asks[q].paused = TRUE /\ ~Replaced(q)
    BY <1>1, <1>4, <2>1 DEF CourseOf, Halted, Handing, Before, Restore!At, AskRecord, Replaced
  <2>3. state'.status = "restoring" /\ state'.from = state.from
    BY <1>11 DEF Restore!Load, Restore!ShowPhase, Restore!TypeOK
  <2>4. CASE data' = asks[q].id /\ forward' = FALSE /\ Restore!Go(q, "upgrade")
    <3>1. /\ asks'[q].restored = FALSE /\ asks'[q].paused = TRUE /\ asks'[q].id = asks[q].id
          /\ asks'[q].step = "upgrade"
      BY <1>1, <2>2, <2>4, AskGoes DEF AskRecord, Restore!Steps
    <3>2. CourseOf(q)' /\ Handing(q)' /\ Halted(q)' /\ Restore!Restoring(q)' /\ Replaced(q)'
      BY <2>1, <2>2, <2>4, <3>1 DEF CourseOf, Halted, Handing, Before, Restore!At, Restore!Restoring, Replaced
    <3> QED
      BY <1>5, <1>7, <2>1, <2>2, <2>3, <3>2, OneRestores DEF Reported
  <2>5. CASE Restore!Trouble /\ Restore!Caught(q, "unchanged") /\ UNCHANGED <<data, forward>>
    <3>1. /\ asks'[q].restored = FALSE /\ asks'[q].paused = TRUE
          /\ asks'[q].step = "recover" /\ asks'[q].says = "unchanged"
      BY <1>1, <1>2, <2>2, <2>5, AskCaught DEF AskRecord
    <3>2. CourseOf(q)' /\ Handing(q)' /\ Halted(q)' /\ Restore!Restoring(q)' /\ ~Replaced(q)'
      BY <2>1, <2>2, <2>3, <2>5, <3>1
      DEF CourseOf, Halted, Handing, Before, Restore!At, Restore!Restoring, Replaced
    <3> QED
      BY <1>5, <1>7, <2>1, <2>2, <2>3, <2>5, <3>2, OneRestores DEF Reported
  <2> QED
    BY <1>11, <2>4, <2>5 DEF Restore!Load
<1>12. CASE Restore!Upgrade(q)
  <2>1. /\ Restore!Restoring(q) /\ Restore!At(q, "upgrade") /\ Handing(q) /\ Halted(q)
        /\ UNCHANGED <<data, jobs, running, working, stuck>>
    BY <1>12 DEF Restore!Upgrade, Restore!At, Restore!Restoring, Handing, Halted
  <2>2. ~asks[q].restored /\ ~working /\ data = asks[q].id /\ asks[q].paused = TRUE
    BY <1>1, <1>4, <2>1 DEF CourseOf, Halted, Handing, Before, Restore!At, AskRecord
  <2>3. state'.status = "restoring" /\ state'.from = state.from
    BY <1>12 DEF Restore!Upgrade, Restore!ShowPhase, Restore!TypeOK
  <2>4. CASE /\ forward' = TRUE /\ UNCHANGED <<survived, trouble>>
             /\ asks' = [asks EXCEPT ![q].step = "previews", ![q].restored = TRUE]
    <3>1. /\ asks'[q].restored = TRUE /\ asks'[q].paused = TRUE /\ asks'[q].id = asks[q].id
          /\ asks'[q].step = "previews"
      BY <2>2, <2>4, AskIsRestored
    <3>2. CourseOf(q)' /\ Handing(q)' /\ Halted(q)' /\ Restore!Restoring(q)' /\ Replaced(q)'
      BY <2>1, <2>2, <2>4, <3>1 DEF CourseOf, Halted, Handing, Before, Restore!At, Restore!Restoring, Replaced
    <3> QED
      BY <1>5, <1>7, <2>1, <2>3, <2>4, <3>2, OneRestores DEF Reported
  <2>5. CASE /\ Restore!Trouble /\ Restore!Caught(q, "changed") /\ UNCHANGED forward
             /\ survived' = (survived \/ ~(jobs \subseteq {data}))
    <3>1. /\ asks'[q].restored = FALSE /\ asks'[q].paused = TRUE
          /\ asks'[q].step = "recover" /\ asks'[q].says = "changed"
      BY <1>1, <1>2, <2>2, <2>5, AskCaught DEF AskRecord
    <3>2. CourseOf(q)' /\ Handing(q)' /\ Halted(q)' /\ Restore!Restoring(q)'
      BY <2>1, <2>2, <3>1 DEF CourseOf, Halted, Handing, Before, Restore!At, Restore!Restoring
    <3> QED
      BY <1>5, <1>7, <2>1, <2>3, <2>5, <3>2, OneRestores DEF Reported
  <2> QED
    BY <1>12, <2>4, <2>5 DEF Restore!Upgrade
<1>13. CASE Restore!Previews(q)
  <2>1. /\ Restore!Restoring(q) /\ Restore!At(q, "previews") /\ Handing(q) /\ Halted(q)
        /\ UNCHANGED <<state, data, forward, jobs, running, working, stuck, survived>>
    BY <1>13 DEF Restore!Previews, Restore!At, Restore!Restoring, Handing, Halted
  <2>2. asks[q].restored = TRUE /\ ~working /\ data = asks[q].id /\ asks[q].paused = TRUE /\ forward
    BY <1>1, <1>4, <2>1 DEF CourseOf, Halted, Handing, Before, Restore!At, AskRecord
  <2>3. /\ asks'[q].restored = TRUE /\ asks'[q].paused = TRUE /\ asks'[q].id = asks[q].id
        /\ asks'[q].step = "resume" \/ (asks'[q].step = "recover" /\ asks'[q].says = "changed")
    <3>1. CASE Restore!Go(q, "resume")
      BY <1>2, <2>2, <3>1, AskGoes
    <3>2. CASE Restore!Caught(q, "changed")
      BY <1>2, <2>2, <3>2, AskCaught
    <3> QED
      BY <1>13, <3>1, <3>2 DEF Restore!Previews
  <2>4. CourseOf(q)' /\ Handing(q)' /\ Halted(q)' /\ Restore!Restoring(q)' /\ Replaced(q)'
    BY <2>1, <2>2, <2>3 DEF CourseOf, Halted, Handing, Before, Restore!At, Restore!Restoring, Replaced
  <2> QED
    BY <1>4, <1>5, <1>6, <1>7, <2>1, <2>4, OneRestores DEF Reported
<1>14. CASE Restore!Resume(q)
  <2>1. /\ Restore!Restoring(q) /\ Restore!At(q, "resume") /\ Handing(q) /\ Halted(q)
        /\ UNCHANGED <<state, data, forward, running, stuck>>
    BY <1>14 DEF Restore!Resume, Restore!At, Restore!Restoring, Handing, Halted
  <2>2. asks[q].restored = TRUE /\ ~working /\ data = asks[q].id /\ asks[q].paused = TRUE /\ forward
    BY <1>1, <1>4, <2>1 DEF CourseOf, Halted, Handing, Before, Restore!At, AskRecord
  <2>3. CASE /\ Restore!Discard /\ working' = TRUE
             /\ asks' = [asks EXCEPT ![q].step = "finish", ![q].paused = FALSE]
    <3>1. /\ asks'[q].restored = TRUE /\ asks'[q].paused = FALSE /\ asks'[q].id = asks[q].id
          /\ asks'[q].step = "finish"
      BY <2>2, <2>3, AskPauses DEF Restore!Steps
    <3>2. CourseOf(q)' /\ ~Handing(q)' /\ ~Halted(q)' /\ Restore!Restoring(q)'
      BY <2>1, <2>2, <3>1 DEF CourseOf, Halted, Handing, Before, Restore!At, Restore!Restoring
    <3>3. survived' \/ (~survived /\ jobs' \subseteq {data})
      BY <2>3, Discards DEF Restore!Discard
    <3> QED
      BY <1>4, <1>5, <1>6, <1>7, <2>1, <2>3, <3>2, <3>3, OneRestores DEF Reported
  <2>4. CASE Restore!Trouble /\ Restore!Caught(q, "changed") /\ UNCHANGED <<jobs, survived, working>>
    <3>1. /\ asks'[q].restored = TRUE /\ asks'[q].paused = TRUE
          /\ asks'[q].step = "recover" /\ asks'[q].says = "changed"
      BY <1>2, <2>2, <2>4, AskCaught
    <3>2. CourseOf(q)' /\ Handing(q)' /\ Halted(q)' /\ Restore!Restoring(q)' /\ Replaced(q)'
      BY <2>1, <2>2, <2>4, <3>1 DEF CourseOf, Halted, Handing, Before, Restore!At, Restore!Restoring, Replaced
    <3> QED
      BY <1>4, <1>5, <1>6, <1>7, <2>1, <2>4, <3>2, OneRestores DEF Reported
  <2> QED
    BY <1>14, <2>3, <2>4 DEF Restore!Resume
<1>15. CASE Restore!Finish(q)
  <2>1. /\ Restore!Restoring(q) /\ Restore!At(q, "finish") /\ ~Handing(q) /\ ~Replaced(q)
        /\ UNCHANGED <<data, forward, running, working, stuck, survived>>
    BY <1>15 DEF Restore!Finish, Restore!At, Restore!Restoring, Handing, Replaced
  <2>2. data = asks[q].id /\ asks[q].paused = FALSE /\ forward
    BY <1>1, <1>4, <2>1 DEF CourseOf, Halted, Handing, Restore!At, AskRecord
  <2>3. survived \/ stuck \/ (jobs \subseteq {data} /\ running \subseteq {data})
    BY <1>5, <2>1
  <2>4. working \/ stuck
    BY <2>1, Restores
  <2>5. CASE /\ jobs' = jobs \cup {data} /\ Restore!Rest(q)
             /\ state' = [state EXCEPT !.status = "done", !.id = asks[q].id, !.says = "nothing"]
    <3>1. asks'[q].step = "idle" /\ asks'[q].restored = FALSE /\ asks'[q].paused = FALSE
      BY <2>5, AskRests
    <3>2. CourseOf(q)' /\ ~Halted(q)' /\ ~Restore!Restoring(q)'
      BY <3>1 DEF CourseOf, Halted, Handing, Before, Restore!At, Restore!Restoring
    <3>3. state'.status = "done" /\ state'.id = asks[q].id
      BY <2>5 DEF Restore!TypeOK
    <3> QED
      BY <1>7, <2>1, <2>2, <2>3, <2>4, <2>5, <3>2, <3>3, OneRestores DEF Reported
  <2>6. CASE Restore!Trouble /\ Restore!Caught(q, "changed") /\ UNCHANGED <<state, staged, jobs>>
    <3>1. asks'[q].step = "report" /\ asks'[q].paused = FALSE /\ asks'[q].says = "changed"
      BY <1>2, <2>2, <2>6, AskCaught
    <3>2. CourseOf(q)' /\ ~Halted(q)' /\ Restore!Restoring(q)'
      BY <3>1 DEF CourseOf, Halted, Handing, Before, Restore!At, Restore!Restoring
    <3> QED
      BY <1>4, <1>6, <1>7, <2>1, <2>3, <2>4, <2>6, <3>2, OneRestores DEF Reported
  <2> QED
    BY <1>15, <2>5, <2>6 DEF Restore!Finish
<1>16. CASE Restore!Recover(q)
  <2>1. /\ Restore!Restoring(q) /\ Restore!At(q, "recover") /\ Handing(q) /\ Halted(q)
        /\ UNCHANGED <<state, data, forward, running>> /\ Restore!Go(q, "report")
    BY <1>16 DEF Restore!Recover, Restore!At, Restore!Restoring, Handing, Halted
  <2>2. asks'[q].step = "report" /\ asks'[q].says = asks[q].says
    BY <1>2, <2>1, AskGoes
  <2>3. CourseOf(q)' /\ ~Halted(q)' /\ Restore!Restoring(q)'
    <3>1. asks[q].says = "unchanged" => data = state.from
      BY <1>4, <2>1 DEF CourseOf, Before, Restore!At
    <3> QED
      BY <2>1, <2>2, <3>1 DEF CourseOf, Halted, Handing, Before, Restore!At, Restore!Restoring
  <2>4. CASE /\ working' = TRUE /\ UNCHANGED stuck
             /\ IF asks[q].restored THEN Restore!Discard ELSE UNCHANGED <<jobs, survived, trouble>>
    <3>1. survived' \/ stuck \/ (jobs' \subseteq {data} /\ running \subseteq {data})
      <4>1. CASE asks[q].restored
        <5>1. survived' \/ (~survived /\ jobs' \subseteq {data})
          BY <2>4, <4>1, Discards DEF Restore!Discard
        <5> QED
          BY <1>5, <2>1, <5>1
      <4>2. CASE ~asks[q].restored
        BY <1>5, <2>1, <2>4, <4>2 DEF Replaced, Restore!At
      <4> QED
        BY <4>1, <4>2
    <3> QED
      BY <1>4, <1>6, <1>7, <2>1, <2>3, <2>4, <3>1, OneRestores DEF Reported
  <2>5. CASE Restore!Trouble /\ stuck' = TRUE /\ UNCHANGED <<jobs, survived, working>>
    BY <1>4, <1>6, <1>7, <2>1, <2>3, <2>5, OneRestores DEF Reported
  <2> QED
    BY <1>16, <2>4, <2>5 DEF Restore!Recover
<1>17. CASE Restore!Report(q)
  <2>1. /\ Restore!Restoring(q) /\ Restore!At(q, "report") /\ ~Handing(q) /\ ~Replaced(q) /\ Restore!Rest(q)
        /\ UNCHANGED <<data, forward, jobs, running, working, stuck, survived>>
    BY <1>17 DEF Restore!Report, Restore!At, Restore!Restoring, Handing, Replaced
  <2>2. asks[q].says = "unchanged" => data = state.from
    BY <1>4, <2>1 DEF CourseOf, Before, Restore!At
  <2>3. survived \/ stuck \/ (jobs \subseteq {data} /\ running \subseteq {data})
    BY <1>5, <2>1
  <2>4. working \/ stuck
    BY <2>1, Restores
  <2>5. asks'[q].step = "idle" /\ asks'[q].restored = FALSE /\ asks'[q].paused = FALSE
    BY <2>1, AskRests
  <2>6. CourseOf(q)' /\ ~Halted(q)' /\ ~Restore!Restoring(q)'
    BY <2>5 DEF CourseOf, Halted, Handing, Before, Restore!At, Restore!Restoring
  <2>7. state'.status = "failed" /\ state'.says = asks[q].says /\ state'.from = state.from
    BY <1>17 DEF Restore!Report, Restore!TypeOK
  <2> QED
    BY <1>7, <2>1, <2>2, <2>3, <2>4, <2>6, <2>7, OneRestores DEF Reported
<1> QED
  BY <1>3, <1>8, <1>9, <1>10, <1>11, <1>12, <1>13, <1>14, <1>15, <1>16, <1>17, <1>18, <1>19

\* What queues, takes, finishes and migrates, and a worker that dies and boots.
LEMMA OthersStand ==
  ASSUME Restore!TypeOK, Restore!TypeOK', Standing, ~crossed',
         \/ \E d \in Restore!Database : Restore!Take(d) \/ Restore!Handled(d)
         \/ Restore!Enqueue \/ Restore!Crash \/ Restore!Migrate
  PROVE  Standing'
<1>1. CASE Restore!Crash
  <2>1. \A q \in Request : asks'[q].step = "idle" /\ asks'[q].restored = FALSE /\ asks'[q].paused = FALSE
    BY <1>1 DEF Restore!Crash, Restore!Idle
  <2>2. \A q \in Request : ~Restore!Restoring(q)' /\ CourseOf(q)' /\ ~Halted(q)' /\ ~Handing(q)'
    BY <2>1 DEF Restore!Restoring, CourseOf, Halted, Handing, Before, Restore!At
  <2>3. UNCHANGED <<data, forward>> /\ working' = TRUE /\ running' = {}
    BY <1>1 DEF Restore!Crash
  <2>4. Reported' /\ state'.status # "restoring"
    BY <1>1, <2>3 DEF Restore!Crash, Standing, Shown, Reported, Restore!TypeOK
  <2>5. survived' \/ jobs' \subseteq {data'}
    BY <1>1, <2>3 DEF Restore!Crash
  <2> QED
    BY <2>2, <2>3, <2>4, <2>5 DEF Standing, OneAtATime, Shown, Served, Dropped
<1>2. CASE ~Restore!Crash
  <2>1. UNCHANGED <<state, asks, data, stuck, survived, working>> /\ (forward => forward')
    BY <1>2 DEF Restore!Take, Restore!Handled, Restore!Enqueue, Restore!Migrate
  <2>2. \A q \in Request : CourseOf(q)' /\ (Halted(q)' <=> Halted(q)) /\ (Replaced(q)' <=> Replaced(q))
    BY <2>1 DEF Standing, CourseOf, Halted, Handing, Before, Restore!At, Replaced
  <2>3. OneAtATime' /\ Shown' /\ Served'
    BY <2>1 DEF Standing, OneAtATime, Shown, Reported, Served, Restore!Restoring, Handing
  <2>4. ASSUME Dropped PROVE Dropped'
    <3>1. CASE Restore!Enqueue \/ Restore!Migrate
      BY <2>1, <2>2, <2>4, <3>1 DEF Restore!Enqueue, Restore!Migrate, Dropped
    <3>2. CASE \E d \in Restore!Database : Restore!Handled(d)
      BY <2>1, <2>2, <2>4, <3>2 DEF Restore!Handled, Dropped
    <3>3. CASE \E d \in Restore!Database : Restore!Take(d)
      <4>1. PICK d \in Restore!Database : Restore!Take(d)
        BY <3>3
      <4>2. working /\ d \in jobs /\ jobs' = jobs \ {d} /\ running' = running \cup {d}
        BY <4>1 DEF Restore!Take
      <4>3. \A q \in Request : ~Halted(q) /\ ~Replaced(q)
        BY <4>2 DEF Standing, CourseOf, Halted, Handing, Replaced, Restore!At
      <4> QED
        BY <2>1, <2>2, <2>4, <4>2, <4>3 DEF Dropped
    <3> QED
      BY <1>2, <3>1, <3>2, <3>3
  <2> QED
    BY <2>1, <2>2, <2>3, <2>4 DEF Standing
<1> QED
  BY <1>1, <1>2

\* The invariant holds in every reachable state.
LEMMA RestoresStand == Restore!Spec => []RestoreInv
<1>1. RestoreInv /\ [Restore!Next]_(Restore!vars) => RestoreInv'
  <2> SUFFICES ASSUME RestoreInv, [Restore!Next]_(Restore!vars) PROVE RestoreInv'
    OBVIOUS
  <2>1. CASE UNCHANGED Restore!vars
    BY <2>1
    DEF RestoreInv, Restore!vars, Restore!TypeOK, Standing, OneAtATime, CourseOf, Shown, Reported, Served,
        Dropped,
                Restore!Restoring, Handing, Halted, Before, Replaced, Restore!At
  <2>2. CASE Restore!Next
    <3>1. Restore!TypeOK /\ Restore!TypeOK'
      BY <2>2, RestoreTypes DEF RestoreInv
    <3>2. crossed => crossed'
      BY <2>2
      DEF Restore!Next, Restore!Receiving, Restore!Clear, Restore!Receive, Restore!Apply, Restore!Verify,
          Restore!Pause, Restore!Drain, Restore!Prepare, Restore!MakeRoom, Restore!PutFiles, Restore!Load,
          Restore!Upgrade, Restore!Previews,
                  Restore!Resume, Restore!Finish, Restore!Recover, Restore!Report, Restore!Take,
                  Restore!Handled, Restore!Enqueue, Restore!Crash, Restore!Migrate
    <3> SUFFICES ASSUME ~crossed' PROVE Standing'
      BY <3>1 DEF RestoreInv
    <3>3. Standing
      BY <3>2 DEF RestoreInv
    <3>4. ASSUME NEW q \in Request, ~Restore!Restoring(q), ~asks[q].restored, ~asks[q].paused,
                 \/ Restore!Receiving(q) \/ Restore!Clear(q) \/ Restore!Receive(q)
                 \/ \E u \in Restore!Upload : Restore!Apply(q, u)
          PROVE  Standing'
      <4>1. \A s \in {"clear", "receive"} : Restore!Go(q, s) =>
              /\ asks'[q].step \in {"clear", "receive"} /\ asks'[q].restored = asks[q].restored
              /\ asks'[q].paused = asks[q].paused /\ \A p \in Request \ {q} : asks'[p] = asks[p]
        <5>1. {"clear", "receive"} \subseteq Restore!Steps
          BY DEF Restore!Steps
        <5> QED
          BY <3>1, <5>1, AskGoes
      <4>2. /\ asks'[q].step \in {"idle", "clear", "receive", "verify"}
            /\ ~asks'[q].restored /\ ~asks'[q].paused
            /\ \A p \in Request \ {q} : asks'[p] = asks[p]
        <5>1. CASE Restore!Receiving(q) \/ Restore!Clear(q)
          BY <3>4, <4>1, <5>1 DEF Restore!Receiving, Restore!Clear
        <5>2. CASE Restore!Receive(q)
          BY <3>1, <5>2, AskRests DEF Restore!Receive
        <5>3. CASE \E u \in Restore!Upload : Restore!Apply(q, u)
          <6>1. PICK u \in Restore!Upload : asks' = [asks EXCEPT ![q].step = "verify", ![q].id = u]
            BY <5>3 DEF Restore!Apply
          <6>2. asks \in [Request -> AskRecord]
            BY <3>1 DEF Restore!TypeOK, AskRecord
          <6>3. \A p \in Request \ {q} : asks'[p] = asks[p]
            BY <6>1, <6>2
          <6>4. asks'[q] = [[asks[q] EXCEPT !.step = "verify"] EXCEPT !.id = u]
            BY <6>1, <6>2
          <6>5. asks'[q].step = "verify" /\ asks'[q].restored = asks[q].restored
                  /\ asks'[q].paused = asks[q].paused
            BY <6>2, <6>4 DEF AskRecord
          <6> QED
            BY <3>4, <6>3, <6>5
        <5> QED
          BY <3>4, <5>1, <5>2, <5>3
      <4>3. UNCHANGED <<data, forward, jobs, running, working, stuck, survived>>
        BY <3>4 DEF Restore!Receiving, Restore!Clear, Restore!Receive, Restore!Apply
      <4>4. /\ state'.status \in {state.status, "uploaded"} /\ state'.from = state.from
            /\ state'.status # "uploaded" => state' = state
        BY <3>1, <3>4 DEF Restore!Receiving, Restore!Clear, Restore!Receive, Restore!Apply, Restore!TypeOK
      <4>5. ~Restore!Restoring(q)'
        BY <4>2 DEF Restore!Restoring
      <4> QED
        BY <3>1, <3>3, <3>4, <4>2, <4>3, <4>4, <4>5, NoneRestores
    <3>5. ASSUME NEW q \in Request,
                 \/ Restore!Receiving(q) \/ Restore!Clear(q) \/ Restore!Receive(q)
                 \/ \E u \in Restore!Upload : Restore!Apply(q, u)
          PROVE  Standing'
      <4>1. ~Restore!Restoring(q)
        BY <3>5
        DEF Restore!Receiving, Restore!Clear, Restore!Receive, Restore!Apply, Restore!At, Restore!Restoring
      <4>2. ~asks[q].restored /\ ~asks[q].paused
        BY <3>3, <4>1 DEF Standing, CourseOf, Restore!Restoring, Halted, Handing, Restore!At
      <4> QED
        BY <3>4, <3>5, <4>1, <4>2
    <3> QED
      BY <2>2, <3>1, <3>3, <3>5, RestoringStands, OthersStand DEF Restore!Next
  <2> QED
    BY <2>1, <2>2
<1> QED
  BY <1>1, RestoreBegins, PTL DEF Restore!Spec

----------------------------------------------------------------------------
(* The model files a backup carries. *)

\* A request that has put them all in their places.
Furnished(q) == asks[q].step \in {"load", "upgrade", "previews", "resume", "finish"}

\* They lie there from then on, until another restore begins.
Filed ==
  /\ \A q \in Request : Furnished(q) /\ asks[q].id \in WithFiles => files = {asks[q].id}
  /\ data = state.from \/ data \notin WithFiles \/ files = {data}
  /\ state.status = "done" /\ state.id \in WithFiles => files = {state.id}

\* A step that touches no file and no database keeps them where they lie, if the
\* requests past the copying were past it before, and the page says no more.
LEMMA FilesStay ==
  ASSUME Filed, UNCHANGED <<files, data>>,
         \A q \in Request : Furnished(q)' => Furnished(q) /\ asks'[q].id = asks[q].id,
         state'.from = state.from \/ state'.from = data,
         state'.status = "done" => state.status = "done" /\ state'.id = state.id
  PROVE  Filed'
<1>1. \A q \in Request : Furnished(q)' /\ asks'[q].id \in WithFiles => files' = {asks'[q].id}
  BY DEF Filed
<1>2. data' = state'.from \/ data' \notin WithFiles \/ files' = {data'}
  BY DEF Filed
<1>3. state'.status = "done" /\ state'.id \in WithFiles => files' = {state'.id}
  BY DEF Filed
<1> QED
  BY <1>1, <1>2, <1>3 DEF Filed

\* Every step of a request keeps them so.
LEMMA RequestFiles ==
  ASSUME Restore!TypeOK, Restore!TypeOK', Standing, Filed, NEW q \in Request, ~crossed',
         \/ Restore!Receiving(q) \/ Restore!Clear(q) \/ Restore!Receive(q)
         \/ \E u \in Restore!Upload : Restore!Apply(q, u)
         \/ Restore!Verify(q) \/ Restore!Pause(q) \/ Restore!Drain(q) \/ Restore!Prepare(q)
         \/ Restore!MakeRoom(q) \/ Restore!PutFiles(q) \/ Restore!Load(q) \/ Restore!Upgrade(q)
         \/ Restore!Previews(q) \/ Restore!Resume(q) \/ Restore!Finish(q) \/ Restore!Recover(q)
         \/ Restore!Report(q)
  PROVE  Filed'
<1>1. asks \in [Request -> AskRecord] /\ asks[q] \in AskRecord
  BY DEF Restore!TypeOK, AskRecord
<1>2. {"clear", "receive", "pause", "files", "copy", "load", "upgrade", "resume", "report"} \subseteq Restore!Steps
        /\ {"unchanged", "changed"} \subseteq Restore!Says
  BY DEF Restore!Steps, Restore!Says
<1>3. ASSUME NEW s \in Restore!Steps, Restore!Go(q, s)
      PROVE  asks'[q].step = s /\ asks'[q].id = asks[q].id /\ \A p \in Request \ {q} : asks'[p] = asks[p]
  BY <1>3, AskGoes
<1>4. ASSUME Restore!Rest(q)
      PROVE  ~Furnished(q)' /\ \A p \in Request \ {q} : asks'[p] = asks[p]
  BY <1>4, AskRests DEF Furnished
<1>5. ASSUME NEW says \in Restore!Says, Restore!Caught(q, says)
      PROVE  ~Furnished(q)' /\ \A p \in Request \ {q} : asks'[p] = asks[p]
  BY <1>5, AskCaught DEF Furnished
<1>6. ASSUME Restore!Restoring(q) PROVE state.status \in {"restoring", "uploaded"}
  BY <1>6 DEF Standing, Shown
<1>7. ASSUME \A p \in Request \ {q} : asks'[p] = asks[p], ~Furnished(q)'
      PROVE  \A p \in Request : Furnished(p)' => Furnished(p) /\ asks'[p].id = asks[p].id
  BY <1>7 DEF Furnished
<1>8. ASSUME \A p \in Request \ {q} : asks'[p] = asks[p], Furnished(q), asks'[q].id = asks[q].id
      PROVE  \A p \in Request : Furnished(p)' => Furnished(p) /\ asks'[p].id = asks[p].id
  BY <1>8 DEF Furnished
<1>9. CASE Restore!Receiving(q) \/ Restore!Clear(q)
  <2>1. ~Furnished(q)' /\ \A p \in Request \ {q} : asks'[p] = asks[p]
    BY <1>2, <1>3, <1>9 DEF Restore!Receiving, Restore!Clear, Furnished
  <2> QED
    BY <1>7, <1>9, <2>1, FilesStay DEF Restore!Receiving, Restore!Clear
<1>10. CASE Restore!Receive(q)
  <2>1. state'.from = state.from /\ (state'.status = "done" => state' = state)
    BY <1>10 DEF Restore!Receive, Restore!TypeOK
  <2> QED
    BY <1>4, <1>7, <1>10, <2>1, FilesStay DEF Restore!Receive
<1>11. CASE \E u \in Restore!Upload : Restore!Apply(q, u)
  <2>1. ~Furnished(q)' /\ \A p \in Request \ {q} : asks'[p] = asks[p]
    <3>1. PICK u \in Restore!Upload : asks' = [asks EXCEPT ![q].step = "verify", ![q].id = u]
      BY <1>11 DEF Restore!Apply
    <3>2. asks'[q] = [[asks[q] EXCEPT !.step = "verify"] EXCEPT !.id = u]
      BY <1>1, <3>1
    <3>3. asks'[q].step = "verify" /\ \A p \in Request \ {q} : asks'[p] = asks[p]
      BY <1>1, <3>1, <3>2 DEF AskRecord
    <3> QED
      BY <3>3 DEF Furnished
  <2> QED
    BY <1>7, <1>11, <2>1, FilesStay DEF Restore!Apply
<1>12. CASE Restore!Verify(q)
  <2>1. ~Furnished(q)' /\ \A p \in Request \ {q} : asks'[p] = asks[p]
    BY <1>2, <1>3, <1>4, <1>12 DEF Restore!Verify, Furnished
  <2>2. /\ state'.from \in {state.from, data}
        /\ state'.status = "done" => state' = state
    BY <1>12 DEF Restore!Verify
  <2> QED
    BY <1>7, <1>12, <2>1, <2>2, FilesStay DEF Restore!Verify
<1>13. CASE Restore!Pause(q) \/ Restore!Drain(q)
  <2>1. ~Furnished(q)' /\ \A p \in Request \ {q} : asks'[p] = asks[p]
    <3>1. CASE Restore!Caught(q, "unchanged")
      BY <1>2, <1>5, <3>1
    <3>2. CASE ~Restore!Caught(q, "unchanged")
      <4>1. PICK s \in {"drain", "prepare"}, b \in BOOLEAN :
              asks' = [asks EXCEPT ![q].step = s, ![q].paused = b]
        <5>1. CASE working
          BY <1>13, <3>2, <5>1 DEF Restore!Pause, Restore!Drain
        <5>2. CASE ~working
          BY <1>13, <3>2, <5>2 DEF Restore!Pause, Restore!Drain
        <5> QED
          BY <5>1, <5>2
      <4>2. s \in Restore!Steps
        BY DEF Restore!Steps
      <4> QED
        BY <4>1, <4>2, AskPauses DEF Furnished
    <3> QED
      BY <3>1, <3>2
  <2> QED
    BY <1>7, <1>13, <2>1, FilesStay DEF Restore!Pause, Restore!Drain
<1>14. CASE Restore!Prepare(q)
  <2>1. ~Furnished(q)' /\ \A p \in Request \ {q} : asks'[p] = asks[p]
    BY <1>2, <1>3, <1>5, <1>14 DEF Restore!Prepare, Furnished
  <2>2. state'.from = state.from /\ state'.status = "restoring"
    BY <1>14 DEF Restore!Prepare, Restore!ShowPhase, Restore!TypeOK
  <2> QED
    BY <1>7, <1>14, <2>1, <2>2, FilesStay DEF Restore!Prepare
<1>15. CASE Restore!MakeRoom(q)
  <2>1. state'.from = state.from /\ state'.status = "restoring" /\ UNCHANGED <<files, data>>
    BY <1>15 DEF Restore!MakeRoom, Restore!ShowPhase, Restore!TypeOK
  <2>2. CASE Restore!Caught(q, "unchanged")
    BY <1>2, <1>5, <1>7, <2>1, <2>2, FilesStay
  <2>3. CASE Restore!Go(q, IF asks[q].id \in WithFiles THEN "copy" ELSE "load")
    <3>1. /\ asks'[q].step = IF asks[q].id \in WithFiles THEN "copy" ELSE "load"
          /\ asks'[q].id = asks[q].id /\ \A p \in Request \ {q} : asks'[p] = asks[p]
      BY <1>2, <1>3, <2>3
    <3>2. \A p \in Request : Furnished(p)' /\ asks'[p].id \in WithFiles => files' = {asks'[p].id}
      BY <2>1, <3>1 DEF Filed, Furnished
    <3> QED
      BY <2>1, <3>2 DEF Filed
  <2> QED
    BY <1>15, <2>2, <2>3 DEF Restore!MakeRoom
<1>16. ASSUME Restore!Restoring(q) PROVE \A p \in Request \ {q} : ~Furnished(p)
  BY <1>16 DEF Standing, OneAtATime, Furnished, Restore!Restoring
<1>17. CASE Restore!PutFiles(q)
  <2>1. Restore!Restoring(q) /\ data = state.from /\ UNCHANGED <<state, data>> /\ crossed = FALSE
    BY <1>17 DEF Restore!PutFiles, Restore!At, Restore!Restoring, Standing, CourseOf, Before, Restore!TypeOK
  <2>2. \A p \in Request \ {q} : asks'[p] = asks[p] /\ ~Furnished(p)'
    <3>1. \A p \in Request \ {q} : asks'[p] = asks[p]
      BY <1>2, <1>3, <1>5, <1>17 DEF Restore!PutFiles
    <3> QED
      BY <1>16, <2>1, <3>1 DEF Furnished
  <2>3. Furnished(q)' => files' = {asks'[q].id}
    <3>1. CASE files' = files \cup {asks[q].id} /\ UNCHANGED <<asks, trouble>>
      BY <1>17, <3>1 DEF Restore!PutFiles, Restore!At, Furnished
    <3>2. CASE Restore!Go(q, "load") /\ files' = {asks[q].id}
      BY <1>2, <1>3, <3>2
    <3>3. CASE Restore!Caught(q, "unchanged")
      BY <1>2, <1>5, <3>3
    <3> QED
      BY <1>17, <2>1, <3>1, <3>2, <3>3 DEF Restore!PutFiles
  <2>4. state'.status # "done"
    BY <1>6, <2>1
  <2> QED
    BY <2>1, <2>2, <2>3, <2>4 DEF Filed
<1>18. CASE Restore!Load(q)
  <2>1. /\ Restore!Restoring(q) /\ Furnished(q) /\ data = state.from /\ UNCHANGED files
        /\ state'.from = state.from /\ state'.status = "restoring"
    BY <1>18 DEF Restore!Load, Restore!ShowPhase, Restore!At, Restore!Restoring, Standing, CourseOf, Before,
                 Furnished, Restore!TypeOK
  <2>2. CASE data' = asks[q].id /\ Restore!Go(q, "upgrade")
    <3>1. asks'[q].id = asks[q].id /\ \A p \in Request \ {q} : asks'[p] = asks[p]
      BY <1>2, <1>3, <2>2
    <3>2. \A p \in Request : Furnished(p)' /\ asks'[p].id \in WithFiles => files' = {asks'[p].id}
      BY <1>8, <2>1, <3>1 DEF Filed
    <3>3. data' \in WithFiles => files' = {data'}
      BY <2>1, <2>2 DEF Filed
    <3> QED
      BY <2>1, <3>2, <3>3 DEF Filed
  <2>3. CASE Restore!Caught(q, "unchanged") /\ UNCHANGED data
    BY <1>2, <1>5, <1>7, <2>1, <2>3, FilesStay
  <2> QED
    BY <1>18, <2>2, <2>3 DEF Restore!Load
<1>19. CASE Restore!Upgrade(q) \/ Restore!Previews(q) \/ Restore!Resume(q)
  <2>1. Furnished(q) /\ Restore!Restoring(q) /\ UNCHANGED <<files, data>>
    BY <1>19 DEF Restore!Upgrade, Restore!Previews, Restore!Resume, Restore!At, Furnished, Restore!Restoring
  <2>2. asks'[q].id = asks[q].id /\ \A p \in Request \ {q} : asks'[p] = asks[p]
    <3>1. CASE Restore!Caught(q, "changed")
      BY <1>2, <3>1, AskCaught
    <3>2. CASE Restore!Go(q, "resume")
      BY <1>2, <1>3, <3>2
    <3>3. CASE \/ asks' = [asks EXCEPT ![q].step = "previews", ![q].restored = TRUE]
               \/ asks' = [asks EXCEPT ![q].step = "finish", ![q].paused = FALSE]
      BY <1>1, <3>3 DEF AskRecord
    <3> QED
      BY <1>19, <3>1, <3>2, <3>3 DEF Restore!Upgrade, Restore!Previews, Restore!Resume
  <2>3. state'.from = state.from /\ state'.status # "done"
    BY <1>6, <1>19, <2>1
    DEF Restore!Upgrade, Restore!Previews, Restore!Resume, Restore!ShowPhase, Restore!TypeOK
  <2> QED
    BY <1>8, <2>1, <2>2, <2>3, FilesStay
<1>20. CASE Restore!Finish(q)
  <2>1. Furnished(q) /\ UNCHANGED <<files, data>>
    BY <1>20 DEF Restore!Finish, Restore!At, Furnished
  <2>2. ~Furnished(q)' /\ \A p \in Request \ {q} : asks'[p] = asks[p]
    BY <1>2, <1>4, <1>5, <1>20 DEF Restore!Finish
  <2>3. /\ state'.from = state.from
        /\ state'.status = "done" => state'.id = asks[q].id \/ state' = state
    BY <1>20 DEF Restore!Finish, Restore!TypeOK
  <2>4. \A p \in Request : Furnished(p)' /\ asks'[p].id \in WithFiles => files' = {asks'[p].id}
    BY <1>7, <2>1, <2>2 DEF Filed
  <2>5. state'.status = "done" /\ state'.id \in WithFiles => files' = {state'.id}
    BY <2>1, <2>3 DEF Filed
  <2> QED
    BY <2>1, <2>3, <2>4, <2>5 DEF Filed
<1>21. CASE Restore!Recover(q) \/ Restore!Report(q)
  <2>1. ~Furnished(q)' /\ \A p \in Request \ {q} : asks'[p] = asks[p]
    BY <1>2, <1>3, <1>4, <1>21 DEF Restore!Recover, Restore!Report, Furnished
  <2>2. state'.from = state.from /\ (state'.status = "done" => state' = state)
    BY <1>21 DEF Restore!Recover, Restore!Report, Restore!TypeOK
  <2> QED
    BY <1>7, <1>21, <2>1, <2>2, FilesStay DEF Restore!Recover, Restore!Report
<1> QED
  BY <1>9, <1>10, <1>11, <1>12, <1>13, <1>14, <1>15, <1>17, <1>18, <1>19, <1>20, <1>21

\* They lie where they belong in every reachable state.
LEMMA FilesLie == Restore!Spec => [](crossed \/ Filed)
<1>1. Restore!Init => Filed
  BY DEF Restore!Init, Restore!Idle, Filed, Furnished
<1>2. RestoreInv /\ RestoreInv' /\ (crossed \/ Filed) /\ [Restore!Next]_(Restore!vars) => (crossed \/ Filed)'
  <2> SUFFICES ASSUME RestoreInv, RestoreInv', crossed \/ Filed, [Restore!Next]_(Restore!vars), ~crossed'
               PROVE  Filed'
    OBVIOUS
  <2>1. CASE UNCHANGED Restore!vars
    BY <2>1 DEF Restore!vars, Filed, Furnished
  <2>2. CASE Restore!Next
    <3>1. crossed => crossed'
      BY <2>2
      DEF Restore!Next, Restore!Receiving, Restore!Clear, Restore!Receive, Restore!Apply, Restore!Verify,
          Restore!Pause, Restore!Drain, Restore!Prepare, Restore!MakeRoom, Restore!PutFiles, Restore!Load,
          Restore!Upgrade, Restore!Previews, Restore!Resume, Restore!Finish, Restore!Recover, Restore!Report,
          Restore!Take, Restore!Handled, Restore!Enqueue, Restore!Crash, Restore!Migrate
    <3>2. Filed /\ Standing /\ Restore!TypeOK /\ Restore!TypeOK'
      BY <3>1 DEF RestoreInv
    <3>3. CASE \/ \E d \in Restore!Database : Restore!Take(d) \/ Restore!Handled(d)
               \/ Restore!Enqueue \/ Restore!Migrate
      <4>1. UNCHANGED <<state, data, files, asks>>
        BY <3>3 DEF Restore!Take, Restore!Handled, Restore!Enqueue, Restore!Migrate
      <4> QED
        BY <3>2, <4>1 DEF Filed, Furnished
    <3>4. CASE Restore!Crash
      <4>1. \A q \in Request : ~Furnished(q)'
        BY <3>4 DEF Restore!Crash, Restore!Idle, Furnished
      <4>2. UNCHANGED <<data, files>> /\ state'.from = state.from /\ (state'.status = "done" => state' = state)
        BY <3>2, <3>4 DEF Restore!Crash, Restore!TypeOK
      <4> QED
        BY <3>2, <4>1, <4>2, FilesStay
    <3> QED
      BY <2>2, <3>2, <3>3, <3>4, RequestFiles DEF Restore!Next
  <2> QED
    BY <2>1, <2>2
<1> QED
  BY <1>1, <1>2, RestoresStand, PTL DEF Restore!Spec

\* Every variable of a restore has its type, for any requests, uploads and troubles.
THEOREM RestoresAreTyped == Restore!Spec => []Restore!TypeOK
<1>1. RestoreInv => Restore!TypeOK
  BY DEF RestoreInv
<1> QED
  BY <1>1, RestoresStand, PTL

\* Whatever fails and wherever, a restore that is over leaves the handlers working,
\* no job of the database before and the truth about the database on its page, and
\* a database put in place finds the files its backup carries (backup/http.ts,
\* runRestore; restore.ts, restoreBackup), but for the ways BackupRestore names.
THEOREM RestoresAreClean == Restore!Spec => []RestoreIsClean
<1>1. RestoreInv /\ (crossed \/ Filed) => RestoreIsClean
  <2> SUFFICES ASSUME RestoreInv, crossed \/ Filed PROVE RestoreIsClean
    OBVIOUS
  <2>1. Restore!OldWorkIsDropped
    BY DEF RestoreInv, Restore!OldWorkIsDropped, Standing, Dropped
  <2>2. Restore!FilesArriveFirst
    BY DEF Restore!FilesArriveFirst, Filed
  <2>3. Restore!RestoreSettles
    <3> SUFFICES ASSUME ~crossed, \A q \in Request : ~Restore!Restoring(q)
                 PROVE  /\ working \/ stuck
                        /\ state.status # "restoring"
                        /\ state.status = "done" =>
                             data = state.id /\ forward /\ (data \in WithFiles => files = {data})
                        /\ state.status = "failed" /\ state.says = "unchanged" => data = state.from
      BY DEF Restore!RestoreSettles
    <3>1. Standing /\ Filed
      BY DEF RestoreInv
    <3>2. working \/ stuck
      BY <3>1 DEF Standing, Served, Handing, Restore!Restoring
    <3>3. state.status # "restoring" /\ Reported
      BY <3>1 DEF Standing, Shown
    <3> QED
      BY <3>1, <3>2, <3>3 DEF Reported, Filed
  <2> QED
    BY <2>1, <2>2, <2>3 DEF RestoreIsClean, Restore!RestoreIsClean
<1> QED
  BY <1>1, RestoresStand, FilesLie, PTL

=============================================================================
