------------------------------ MODULE Accounts ------------------------------
(***************************************************************************)
(* Accounts: the first one (setup/actions.ts), those an administrator adds *)
(* or changes (admin/users/actions.ts) and those made by redeeming an      *)
(* invitation (invite/[token]/actions.ts, invite-service.ts).              *)
(*                                                                         *)
(* Nothing here runs in a transaction.  Every statement commits alone, so  *)
(* every statement is an action, and the process may die between any two.  *)
(* Sessions are left to Passwords: a server action reads the row of the    *)
(* user who sent it, so its role and suspension are what decides.          *)
(***************************************************************************)
EXTENDS Integers, FiniteSets

CONSTANTS
  Person,      \* accounts that can come to be, as numbers, each with its own address
  Invite,      \* invitations
  Call,        \* server actions that can run at once
  Nobody,
  MaxChange, MaxDeath   \* bounds on an administrator's acts, on server actions that die

\* The roles below administrator are one role here.
Role == {"viewer", "admin"}
Origin == Invite \cup {"setup", "added"}

\* What it asks of its parameters; MCServices assumes it of an instance.
AccountsAssumption ==
  /\ Person \subseteq Nat /\ Nobody \notin Person /\ Nobody \notin Origin
  /\ Invite \cap {"setup", "added"} = {}
  /\ MaxChange \in Nat /\ MaxDeath \in Nat

VARIABLES
  role,        \* user.role, or "unborn" or "deleted" when there is no row
  banned,      \* accounts that are suspended
  origin,      \* how each account came to be
  offer,       \* [Invite -> the role it carries, or "none"]
  closed,      \* invitations that are revoked or have expired
  spentBy,     \* invitations.accepted_by
  acts,       \* where each server action is
  leftover,    \* new accounts whose server action died half-way
  raced,       \* a removal has once counted an administrator about to be removed
  count        \* bounded outside events

inviteVars == <<offer, closed, spentBy>>
userVars == <<role, banned, origin>>
vars == <<userVars, inviteVars, acts, leftover, raced, count>>

Exists(p) == role[p] \in Role
Admins == {p \in Person : role[p] = "admin" /\ p \notin banned}

\* Removals end an administrator; the other aims do not.
Removal == {"viewer", "suspend", "delete"}
Aim == Removal \cup {"admin", "restore"}
Idle == [step |-> "idle", who |-> Nobody, aim |-> "viewer"]
Step == {"idle", "look", "write", "create", "consume", "undo", "promote"}

At(c, step) == acts[c].step = step
Who(c) == acts[c].who
Go(c, step) == acts' = [acts EXCEPT ![c].step = step]
Begin(c, step, p, aim) == acts' = [acts EXCEPT ![c] = [step |-> step, who |-> p, aim |-> aim]]
Finish(c) == acts' = [acts EXCEPT ![c] = Idle]

----------------------------------------------------------------------------
(* setUserRole, setSuspended, deleteUser *)

Change(c) ==
  /\ At(c, "idle") /\ count.change < MaxChange
  /\ count' = [count EXCEPT !.change = @ + 1]
  /\ \E actor \in Admins, target \in Person, aim \in Aim :
       /\ Exists(target) /\ target # actor
       /\ Begin(c, IF aim \in Removal THEN "look" ELSE "write", target, aim)
  /\ UNCHANGED <<userVars, inviteVars, leftover, raced>>

\* Mutant: a suspended administrator counts.
OthersSuspendedToo(p) == {q \in Person : role[q] = "admin"} \ {p}

\* wouldStrandInstance
Others(p) == Admins \ {p}

\* A statement that is still to come and can end an administrator: a removal
\* past its check, or the role of a new account that somebody has since raised.
MayDemote(d) ==
  \/ At(d, "write") /\ acts[d].aim \in Removal
  \/ acts[d].step \in {"consume", "undo", "promote"}

Look(c) ==
  /\ At(c, "look")
  /\ IF Others(Who(c)) = {} THEN Finish(c) /\ UNCHANGED raced
     ELSE /\ Go(c, "write")
          /\ raced' = (raced \/ \E d \in Call \ {c} : Who(d) \in Others(Who(c)) /\ MayDemote(d))
  /\ UNCHANGED <<userVars, inviteVars, leftover, count>>

\* An UPDATE or DELETE of a row that has gone changes nothing.
Write(c) ==
  /\ At(c, "write")
  /\ LET p == Who(c)
         aim == acts[c].aim
     IN IF ~Exists(p) THEN UNCHANGED <<role, banned>>
        ELSE /\ role' = [role EXCEPT ![p] = CASE aim \in Role -> aim
                                              [] aim = "delete" -> "deleted"
                                              [] OTHER -> @]
             /\ banned' = CASE aim = "suspend" -> banned \cup {p}
                            [] aim \in {"restore", "delete"} -> banned \ {p}
                            [] OTHER -> banned
  /\ Finish(c)
  /\ UNCHANGED <<origin, inviteVars, leftover, raced, count>>

----------------------------------------------------------------------------
(* A new account: the check, the account, the invitation, the role. *)

\* Which number an account gets does not matter, so they are used in order.
MayBe(p) == origin[p] = Nobody /\ \A q \in Person : q < p => origin[q] # Nobody

Asked(c, p, from, aim) ==
  /\ At(c, "idle") /\ MayBe(p)
  /\ origin' = [origin EXCEPT ![p] = from]
  /\ Begin(c, "create", p, aim)
  /\ UNCHANGED <<role, banned, inviteVars, leftover, raced, count>>

\* createFirstAdmin, while there is no account
SetUp(c) ==
  /\ \A p \in Person : ~Exists(p)
  /\ \E p \in Person : Asked(c, p, "setup", "admin")

\* addUser
Add(c) ==
  /\ Admins # {}
  /\ \E p \in Person, r \in Role : Asked(c, p, "added", r)

\* Mutant: the invitation is still good if it has been spent.
UsableTwice(i) == offer[i] # "none" /\ i \notin closed

\* inviteByToken, and what consumeInvite asks of the row again
Usable(i) == offer[i] # "none" /\ i \notin closed /\ spentBy[i] = Nobody

\* acceptInvite
Accept(c) == \E i \in Invite, p \in Person : Usable(i) /\ Asked(c, p, i, offer[i])

\* signUpEmail, createUser: every account begins as a viewer.
Create(c) ==
  /\ At(c, "create")
  /\ LET p == Who(c)
     IN /\ role' = [role EXCEPT ![p] = "viewer"]
        /\ Go(c, IF origin[p] \in Invite THEN "consume" ELSE "promote")
  /\ UNCHANGED <<banned, origin, inviteVars, leftover, raced, count>>

\* consumeInvite; accepted_by refers to the account, which an administrator
\* may have deleted meanwhile.
Consume(c) ==
  /\ At(c, "consume")
  /\ LET i == origin[Who(c)]
     IN \/ /\ Usable(i) /\ Exists(Who(c))
           /\ spentBy' = [spentBy EXCEPT ![i] = Who(c)]
           /\ Go(c, "promote")
        \/ /\ ~Usable(i)
           /\ Go(c, "undo") /\ UNCHANGED spentBy
        \/ /\ Usable(i) /\ ~Exists(Who(c))
           /\ Finish(c) /\ UNCHANGED spentBy
  /\ UNCHANGED <<userVars, offer, closed, leftover, raced, count>>

Remove(p) ==
  /\ role' = [role EXCEPT ![p] = "deleted"]
  /\ banned' = banned \ {p}

\* The loser's account goes again.
Undo(c) ==
  /\ At(c, "undo")
  /\ Remove(Who(c))
  /\ Finish(c)
  /\ UNCHANGED <<origin, inviteVars, leftover, raced, count>>

Promote(c) ==
  /\ At(c, "promote")
  /\ role' = [role EXCEPT ![Who(c)] = IF @ \in Role THEN acts[c].aim ELSE @]
  /\ Finish(c)
  /\ UNCHANGED <<banned, origin, inviteVars, leftover, raced, count>>

----------------------------------------------------------------------------
(* Invitations, and the process that serves a call. *)

\* invite
Offer(i) ==
  /\ Admins # {} /\ offer[i] = "none"
  /\ \E r \in Role : offer' = [offer EXCEPT ![i] = r]
  /\ UNCHANGED <<userVars, closed, spentBy, acts, leftover, raced, count>>

\* cancelInvite, or the days it is good for are over
Withdraw(i) ==
  /\ offer[i] # "none" /\ i \notin closed
  /\ closed' = closed \cup {i}
  /\ UNCHANGED <<userVars, offer, spentBy, acts, leftover, raced, count>>

Die(c) ==
  /\ ~At(c, "idle") /\ count.death < MaxDeath
  /\ count' = [count EXCEPT !.death = @ + 1]
  /\ leftover' = IF acts[c].step \in {"consume", "undo", "promote"}
                 THEN leftover \cup {Who(c)} ELSE leftover
  /\ Finish(c)
  /\ UNCHANGED <<userVars, inviteVars, raced>>

Init ==
  /\ role = [p \in Person |-> "unborn"]
  /\ banned = {} /\ closed = {} /\ leftover = {}
  /\ origin = [p \in Person |-> Nobody]
  /\ offer = [i \in Invite |-> "none"]
  /\ spentBy = [i \in Invite |-> Nobody]
  /\ acts = [c \in Call |-> Idle]
  /\ raced = FALSE
  /\ count = [change |-> 0, death |-> 0]

Next ==
  \/ \E c \in Call :
       \/ Change(c) \/ Look(c) \/ Write(c)
       \/ SetUp(c) \/ Add(c) \/ Accept(c)
       \/ Create(c) \/ Consume(c) \/ Undo(c) \/ Promote(c) \/ Die(c)
  \/ \E i \in Invite : Offer(i) \/ Withdraw(i)

Spec == Init /\ [][Next]_vars

----------------------------------------------------------------------------

TypeOK ==
  /\ role \in [Person -> Role \cup {"unborn", "deleted"}]
  /\ banned \subseteq Person /\ leftover \subseteq Person
  /\ origin \in [Person -> Origin \cup {Nobody}]
  /\ offer \in [Invite -> Role \cup {"none"}]
  /\ closed \subseteq Invite
  /\ spentBy \in [Invite -> Person \cup {Nobody}]
  /\ acts \in [Call -> [step : Step, who : Person \cup {Nobody}, aim : Aim]]
  /\ raced \in BOOLEAN
  /\ count \in [change : 0..MaxChange, death : 0..MaxDeath]

InProgress(p) == \E c \in Call : Who(c) = p /\ acts[c].step \in {"create", "consume", "undo", "promote"}

\* An instance with accounts has an administrator who is not suspended,
\* whatever roles, suspensions and deletions follow each other.  Two things
\* take it away, and only these: a removal that counted an administrator whose
\* own removal, or whose late first role, was already on its way, and a
\* first-run setup that died before it made its account an administrator.
AdministratorRemains ==
  (\E p \in Person : Exists(p)) =>
    \/ Admins # {}
    \/ raced
    \/ \E p \in Person : origin[p] = "setup" /\ (InProgress(p) \/ p \in leftover)

\* An invitation makes one account and gives its role to one, whoever opens
\* the link together and whatever is revoked meanwhile; a second account is
\* one whose redemption is still running, or died.
InvitationMakesOneAccount ==
  \A p, q \in Person :
    p # q /\ Exists(p) /\ Exists(q) /\ origin[p] = origin[q] /\ origin[p] \in Invite =>
      \E r \in {p, q} : spentBy[origin[r]] # r /\ (InProgress(r) \/ r \in leftover)

=============================================================================
