------------------------------ MODULE Accounts ------------------------------
(***************************************************************************)
(* How a mobile number becomes an account: codes are issued, verified and  *)
(* spent on a sign-up or a recovery, while staff accounts are made, edited *)
(* and removed beside them.  All of it is about one mobile number, which   *)
(* an account holds as "+977..." (intl, what sign-up writes) or as staff   *)
(* typed it (local).  How a code is sent is in Deliveries.                 *)
(*                                                                         *)
(* user[u]      the accounts that hold the number; staff is what           *)
(*              is_staff_account computes, hired that it has an Employee   *)
(* challenge[c] SignupChallenge; recent: issued less than a minute ago     *)
(* request[s]   a request in flight and what it has read and locked: the   *)
(*              brand's row while issuing, the challenge's and the         *)
(*              account's rows while spending a code, none while editing   *)
(* spent[c]     how often a code of c has set an account's credentials     *)
(***************************************************************************)
EXTENDS Naturals, FiniteSets

CONSTANTS
  Brands, Users, Challenges, Requests,
  None,
  MaxTries,          \* wrong codes a challenge bears (5 in the code)
  MaxEdits           \* bound: changes made by staff

ASSUME AccountsAssumption ==
  /\ None \notin Users \cup Challenges \cup Brands
  /\ MaxTries \in Nat \ {0} /\ MaxEdits \in Nat

VARIABLES user, challenge, request, spent, edits

codes == <<challenge, spent>>
vars == <<user, codes, request, edits>>

NoAccount == [held |-> "none", staff |-> FALSE, hired |-> FALSE, active |-> FALSE,
              password |-> FALSE, profile |-> FALSE]
UserRow == [held: {"none", "intl", "local", "gone"}, staff: BOOLEAN, hired: BOOLEAN, active: BOOLEAN,
            password: BOOLEAN, profile: BOOLEAN]

Unissued == [brand |-> None, purpose |-> "SIGNUP", recent |-> FALSE, expired |-> FALSE,
             tries |-> 0, verified |-> FALSE, consumed |-> FALSE]
ChallengeRow == [brand: Brands \cup {None}, purpose: {"SIGNUP", "RECOVERY"}, recent: BOOLEAN,
                 expired: BOOLEAN, tries: 0..MaxTries, verified: BOOLEAN, consumed: BOOLEAN]

Idle == [does |-> "nothing", brand |-> None, purpose |-> "SIGNUP", code |-> None,
         replaces |-> {}, user |-> None, copy |-> NoAccount]
RequestRow == [does: {"nothing", "issue", "resolve", "spend", "edit"}, brand: Brands \cup {None},
               purpose: {"SIGNUP", "RECOVERY"}, code: Challenges \cup {None},
               replaces: SUBSET Challenges, user: Users \cup {None}, copy: UserRow]

TypeOK ==
  /\ user \in [Users -> UserRow]
  /\ challenge \in [Challenges -> ChallengeRow]
  /\ request \in [Requests -> RequestRow]
  /\ spent \in [Challenges -> Nat]
  /\ edits \in 0..MaxEdits

\* An account without a password that the outlet entered for a customer.
Shell == [NoAccount EXCEPT !.held = "local", !.active = TRUE]

Init ==
  /\ user \in {[u \in Users |-> NoAccount]} \cup
              {[u \in Users |-> IF u = v THEN Shell ELSE NoAccount] : v \in Users}
  /\ challenge = [c \in Challenges |-> Unissued]
  /\ request = [s \in Requests |-> Idle]
  /\ spent = [c \in Challenges |-> 0] /\ edits = 0

-----------------------------------------------------------------------------
(* Row locks, and what an account may do.                                  *)

BrandLocked(b) == \E s \in Requests : request[s].does = "issue" /\ request[s].brand = b
CodeLocked(c) == \E s \in Requests : request[s].code = c \/ c \in request[s].replaces
Fault_UserNotLocked(u) == FALSE
UserLocked(u) == \E s \in Requests : request[s].does = "spend" /\ request[s].user = u

Accounts == {u \in Users : user[u].held \in {"intl", "local"}}
Issued(c) == challenge[c].brand # None
Live(c) == Issued(c) /\ ~challenge[c].consumed /\ ~challenge[c].expired

\* The unique phone_number.
Taken(form, u) == \E v \in Users \ {u} : user[v].held = form

CanCompleteSignup(u) == ~user[u].staff /\ ~user[u].password /\ ~user[u].profile

\* What resolve_account says of the number: the account, and what comes next.
Resolved(u, next) ==
  /\ Cardinality(Accounts) <= 1
  /\ IF Accounts = {} THEN u = None /\ next = "signup"
     ELSE /\ u \in Accounts
          /\ IF CanCompleteSignup(u) THEN next = "signup"
             ELSE user[u].active /\ next = "login"

-----------------------------------------------------------------------------
(* Codes.                                                                  *)

\* Earlier codes that a new one replaces.
Replaced(p) == {d \in Challenges : Issued(d) /\ challenge[d].purpose = p /\ ~challenge[d].consumed}

\* start and recovery-start: resolve_account reads without a lock and sends staff to a
\* recovery of their own; then issue locks the brand, looks for a recent code of any
\* brand and replaces the earlier codes.
AskForCode(s, b) ==
  /\ request[s] = Idle /\ ~BrandLocked(b)
  /\ \A c \in Challenges : ~challenge[c].recent
  /\ \E u \in Users \cup {None}, next \in {"signup", "login"} :
       LET p == IF next = "signup" THEN "SIGNUP" ELSE "RECOVERY" IN
       /\ Resolved(u, next) /\ (u # None => ~user[u].staff)
       /\ \A d \in Replaced(p) : ~CodeLocked(d)
       /\ request' = [request EXCEPT ![s] = [Idle EXCEPT !.does = "issue", !.brand = b, !.purpose = p,
                                                       !.replaces = Replaced(p)]]
  /\ UNCHANGED <<user, codes, edits>>

\* Commit the new code.
Issue(s, c) ==
  /\ request[s].does = "issue" /\ ~Issued(c)
  /\ challenge' = [d \in Challenges |->
       IF d = c THEN [Unissued EXCEPT !.brand = request[s].brand, !.purpose = request[s].purpose,
                                      !.recent = TRUE]
       ELSE IF d \in request[s].replaces THEN [challenge[d] EXCEPT !.consumed = TRUE]
       ELSE challenge[d]]
  /\ request' = [request EXCEPT ![s] = Idle]
  /\ UNCHANGED <<user, spent, edits>>

Verify(c, right) ==
  /\ Live(c) /\ ~challenge[c].verified /\ challenge[c].tries < MaxTries
  /\ ~CodeLocked(c)
  /\ challenge' = [challenge EXCEPT ![c].tries = @ + 1, ![c].verified = right]
  /\ UNCHANGED <<user, spent, request, edits>>

Fault_CodeNotLocked(c) == challenge[c].verified /\ Live(c)

Spendable(c) == challenge[c].verified /\ Live(c) /\ ~CodeLocked(c)

\* register and reset_credentials: lock the row of a verified code ...
Spend(s, c) ==
  /\ request[s] = Idle /\ Spendable(c)
  /\ request' = [request EXCEPT ![s] = [Idle EXCEPT !.does = "resolve", !.code = c]]
  /\ UNCHANGED <<user, codes, edits>>

\* ... then the account's, and ask what may be done with it.
LockAccount(s) ==
  /\ request[s].does = "resolve"
  /\ \E u \in Users \cup {None}, next \in {"signup", "login"} :
       /\ Resolved(u, next) /\ (u # None => ~UserLocked(u))
       /\ IF challenge[request[s].code].purpose = "SIGNUP" THEN next = "signup"
          ELSE next = "login" /\ ~user[u].staff
       /\ request' = [request EXCEPT ![s].does = "spend", ![s].user = u]
  /\ UNCHANGED <<user, codes, edits>>

\* Write the account's credentials; a sign-up also makes the account or completes it.
\* The number, user name or email may prove taken: then nothing is written.
SetCredentials(s, u) ==
  LET c == request[s].code
      signup == challenge[c].purpose = "SIGNUP" IN
  /\ request[s].does = "spend"
  /\ IF request[s].user = None THEN user[u] = NoAccount ELSE u = request[s].user
  /\ signup => ~Taken("intl", u)
  /\ user' = [user EXCEPT ![u] =
       IF signup THEN [@ EXCEPT !.held = "intl", !.active = TRUE, !.password = TRUE, !.profile = TRUE]
       ELSE [@ EXCEPT !.password = TRUE, !.profile = TRUE]]
  /\ challenge' = [challenge EXCEPT ![c].consumed = TRUE]
  /\ spent' = [spent EXCEPT ![c] = @ + 1]
  /\ request' = [request EXCEPT ![s] = Idle]
  /\ UNCHANGED edits

\* Refused, or the worker died: the transaction is rolled back.
GiveUp(s) ==
  /\ request[s].does # "nothing"
  /\ request' = [request EXCEPT ![s] = Idle]
  /\ UNCHANGED <<user, codes, edits>>

MinutePasses(c) ==
  /\ challenge[c].recent
  /\ challenge' = [challenge EXCEPT ![c].recent = FALSE]
  /\ UNCHANGED <<user, spent, request, edits>>

CodeExpires(c) ==
  /\ Issued(c) /\ ~challenge[c].recent /\ ~challenge[c].expired
  /\ challenge' = [challenge EXCEPT ![c].expired = TRUE]
  /\ UNCHANGED <<user, spent, request, edits>>

-----------------------------------------------------------------------------
(* Staff.                                                                  *)

StaffChange == edits < MaxEdits /\ edits' = edits + 1

\* employee_create: the number as typed, on an account of its own.
EmployeeCreate(u, form) ==
  /\ StaffChange
  /\ user[u] = NoAccount /\ ~Taken(form, u)
  /\ user' = [user EXCEPT ![u] = [held |-> form, staff |-> TRUE, hired |-> TRUE, active |-> TRUE,
                                  password |-> TRUE, profile |-> FALSE]]
  /\ UNCHANGED <<codes, request>>

\* EmployeeDetailAPIView.patch reads the employee and the account without a lock ...
EditStart(s, u) ==
  /\ request[s] = Idle /\ user[u].hired
  /\ request' = [request EXCEPT ![s] = [Idle EXCEPT !.does = "edit", !.user = u, !.copy = user[u]]]
  /\ UNCHANGED <<user, codes, edits>>

\* ... and saves both rows whole, inserting them again if they are gone.
EditSave(s, active, form) ==
  LET u == request[s].user IN
  /\ StaffChange
  /\ request[s].does = "edit" /\ ~UserLocked(u) /\ ~Taken(form, u)
  /\ user' = [user EXCEPT ![u] = [request[s].copy EXCEPT !.active = active, !.held = form]]
  /\ request' = [request EXCEPT ![s] = Idle]
  /\ UNCHANGED codes

EmployeeDelete(u) ==
  /\ StaffChange
  /\ user[u].hired /\ ~UserLocked(u)
  /\ user' = [user EXCEPT ![u] = [NoAccount EXCEPT !.held = "gone"]]
  /\ UNCHANGED <<codes, request>>

\* branch_create and restaurant_create raise an account that exists to staff.
Promote(u) ==
  /\ StaffChange
  /\ u \in Accounts /\ ~user[u].staff /\ ~UserLocked(u)
  /\ user' = [user EXCEPT ![u].staff = TRUE]
  /\ UNCHANGED <<codes, request>>

-----------------------------------------------------------------------------

StaffStep ==
  \/ \E u \in Users, form \in {"intl", "local"} : EmployeeCreate(u, form)
  \/ \E s \in Requests, u \in Users : EditStart(s, u)
  \/ \E s \in Requests, active \in BOOLEAN, form \in {"intl", "local"} : EditSave(s, active, form)
  \/ \E u \in Users : EmployeeDelete(u) \/ Promote(u)

CodeStep ==
  \/ \E s \in Requests, b \in Brands : AskForCode(s, b)
  \/ \E s \in Requests, c \in Challenges : Issue(s, c) \/ Spend(s, c)
  \/ \E c \in Challenges, right \in BOOLEAN : Verify(c, right)
  \/ \E s \in Requests, u \in Users : SetCredentials(s, u)
  \/ \E s \in Requests : LockAccount(s) \/ GiveUp(s)
  \/ \E c \in Challenges : MinutePasses(c) \/ CodeExpires(c)

Next == CodeStep \/ StaffStep

Spec == Init /\ [][Next]_vars

-----------------------------------------------------------------------------
(* Properties.                                                             *)

\* A code sets an account's credentials at most once, and only after it was answered
\* rightly: two requests with the same token wait for each other on the challenge's row
\* (register, reset_credentials).
CodesSpentOnce ==
  \A c \in Challenges :
    /\ spent[c] <= 1
    /\ spent[c] = 1 => challenge[c].verified /\ challenge[c].consumed

\* A new code replaces the earlier ones, even those already verified.  Issuing is
\* serialised by the brand's row, so two codes that could both be used for the same
\* purpose come from requests to two brands that overlapped (issue).
OneCodePerBrand ==
  \A c, d \in Challenges :
    (/\ c # d /\ Issued(c) /\ Issued(d) /\ challenge[c].purpose = challenge[d].purpose
     /\ ~challenge[c].consumed /\ ~challenge[d].consumed)
      => challenge[c].brand # challenge[d].brand

\* There is one code at a time that can be used, and it is used once.
OneCodeOneUse == CodesSpentOnce /\ OneCodePerBrand

\* An SMS code never sets the credentials of an account that is staff by the time they
\* are written, although accounts are raised to staff while a code is being spent
\* (resolve_account with lock, require_customer_recovery).
StaffUntouched ==
  [][\A s \in Requests :
       (spent' # spent /\ request[s].does = "spend" /\ request'[s] = Idle /\ request[s].user # None)
         => ~user[request[s].user].staff]_vars

=============================================================================
