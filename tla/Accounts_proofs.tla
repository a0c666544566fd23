-------------------------- MODULE Accounts_proofs --------------------------
(***************************************************************************)
(* Theorems about Accounts for any number of brands, accounts, codes and   *)
(* requests: a code is spent once, and never on an account of staff.       *)
(* After them what people do with their accounts: Outlets, for any         *)
(* finitely many outlets and any number of overlapping requests,           *)
(* Attendance, for any sheet and any number of editors, and Chat, for any  *)
(* number of apps and messages.                                            *)
(***************************************************************************)
EXTENDS Accounts, Outlets, Attendance, Chat, FiniteSetTheorems, WellFoundedInduction, TLAPS

-----------------------------------------------------------------------------
(* The inductive invariant.                                                *)

\* A code that was never issued is blank.
UnissuedBlank == \A c \in Challenges : ~Issued(c) => challenge[c] = Unissued /\ spent[c] = 0

\* What a request holds while it spends a code and while it issues one.
Spending(s) == request[s].does \in {"resolve", "spend"}
Issuing(s) == request[s].does = "issue"

CodesHeld ==
  \A s \in Requests :
    /\ IF Spending(s)
       THEN /\ request[s].code \in Challenges
            /\ Issued(request[s].code)
            /\ challenge[request[s].code].verified /\ ~challenge[request[s].code].consumed
       ELSE request[s].code = None
    /\ Issuing(s) => request[s].brand \in Brands /\ \A d \in request[s].replaces : Issued(d)
    /\ ~Issuing(s) => request[s].replaces = {}

\* No two requests hold the same code, and none replaces one that is being spent.
CodesApart ==
  \A s, t \in Requests : s # t /\ Spending(s) =>
    request[t].code # request[s].code /\ request[s].code \notin request[t].replaces

\* Two requests that issue are of two brands, and each replaces the codes of its own
\* brand and purpose that can still be used.
BrandsApart ==
  \A s, t \in Requests : s # t /\ Issuing(s) /\ Issuing(t) => request[s].brand # request[t].brand

ReplacesAll ==
  \A s \in Requests, d \in Challenges :
    (/\ Issuing(s) /\ Issued(d) /\ ~challenge[d].consumed
     /\ challenge[d].brand = request[s].brand /\ challenge[d].purpose = request[s].purpose)
      => d \in request[s].replaces

\* The account whose row a request has locked exists and is not staff.
AccountsHeld ==
  \A s \in Requests : request[s].does = "spend" /\ request[s].user # None =>
    /\ request[s].user \in Users
    /\ user[request[s].user].held \in {"intl", "local"} /\ ~user[request[s].user].staff

CodesInv ==
  /\ UnissuedBlank /\ CodesHeld /\ CodesApart /\ BrandsApart /\ ReplacesAll
  /\ CodesSpentOnce /\ OneCodePerBrand

IInv == TypeOK /\ CodesInv /\ AccountsHeld

-----------------------------------------------------------------------------
(* Types.                                                                  *)

LEMMA NullTypes == NoAccount \in UserRow /\ Shell \in UserRow /\ Unissued \in ChallengeRow /\ Idle \in RequestRow
<1>1. NoAccount \in UserRow /\ Shell \in UserRow
  BY DEF NoAccount, Shell, UserRow
<1>2. Unissued \in ChallengeRow
  BY AccountsAssumption DEF Unissued, ChallengeRow
<1>3. Idle \in RequestRow
  BY <1>1 DEF Idle, RequestRow
<1> QED
  BY <1>1, <1>2, <1>3

LEMMA Rows ==
  ASSUME TypeOK
  PROVE  /\ \A u \in Users : user[u] \in UserRow
         /\ \A c \in Challenges : challenge[c] \in ChallengeRow /\ spent[c] \in Nat
         /\ \A s \in Requests : request[s] \in RequestRow
BY DEF TypeOK

LEMMA RowTypes ==
  ASSUME TypeOK
  PROVE  /\ \A s, r : r \in RequestRow => [request EXCEPT ![s] = r] \in [Requests -> RequestRow]
         /\ \A c, r : r \in ChallengeRow => [challenge EXCEPT ![c] = r] \in [Challenges -> ChallengeRow]
         /\ \A u, r : r \in UserRow => [user EXCEPT ![u] = r] \in [Users -> UserRow]
BY DEF TypeOK

-----------------------------------------------------------------------------
(* What is needed for the codes to stay in order.                          *)

\* A request takes on r, and the codes are as they were.
LEMMA RequestChanges ==
  ASSUME TypeOK, CodesInv, NEW s \in Requests, NEW r \in RequestRow,
         request' = [request EXCEPT ![s] = r], UNCHANGED codes,
         IF r.does \in {"resolve", "spend"}
         THEN /\ r.code \in Challenges /\ Issued(r.code)
              /\ challenge[r.code].verified /\ ~challenge[r.code].consumed
              /\ \A t \in Requests \ {s} : request[t].code # r.code /\ r.code \notin request[t].replaces
         ELSE r.code = None,
         IF r.does = "issue"
         THEN /\ r.brand \in Brands /\ \A d \in r.replaces : Issued(d)
              /\ \A t \in Requests \ {s} : /\ Issuing(t) => request[t].brand # r.brand
                                           /\ request[t].code \notin r.replaces
              /\ \A d \in Challenges :
                   (/\ Issued(d) /\ ~challenge[d].consumed
                    /\ challenge[d].brand = r.brand /\ challenge[d].purpose = r.purpose) => d \in r.replaces
         ELSE r.replaces = {}
  PROVE  CodesInv'
<1> USE DEF CodesInv
<1>1. \A t \in Requests : request'[t] = IF t = s THEN r ELSE request[t]
  BY DEF TypeOK
<1>2. challenge' = challenge /\ spent' = spent
  BY DEF codes
<1>3. (UnissuedBlank /\ CodesSpentOnce /\ OneCodePerBrand)'
  BY <1>2 DEF UnissuedBlank, CodesSpentOnce, OneCodePerBrand, Issued
<1>4. CodesHeld'
  BY <1>1, <1>2 DEF CodesHeld, Spending, Issuing, Issued
<1>5. CodesApart'
  <2> SUFFICES ASSUME NEW x \in Requests, NEW y \in Requests, x # y, Spending(x)'
               PROVE  request'[y].code # request'[x].code /\ request'[x].code \notin request'[y].replaces
    BY DEF CodesApart, Spending
  <2>1. CASE x = s
    BY <1>1, <2>1 DEF Spending
  <2>2. CASE y = s
    <3>1. request'[x] = request[x] /\ request'[y] = r /\ Spending(x)
      BY <1>1, <2>2 DEF Spending
    <3>2. request[x].code \in Challenges
      BY <3>1 DEF CodesHeld
    <3>3. request[x].code # None
      BY <3>2, AccountsAssumption
    <3> QED
      BY <2>2, <3>1, <3>3 DEF CodesHeld
  <2>3. CASE x # s /\ y # s
    BY <1>1, <2>3 DEF CodesApart, Spending
  <2> QED
    BY <2>1, <2>2, <2>3
<1>6. BrandsApart'
  BY <1>1 DEF BrandsApart, Issuing
<1>7. ReplacesAll'
  BY <1>1, <1>2 DEF ReplacesAll, Issuing, Issued
<1> QED
  BY <1>3, <1>4, <1>5, <1>6, <1>7

\* A request is over, and the codes are as they were.
LEMMA RequestEnds ==
  ASSUME TypeOK, CodesInv, NEW s \in Requests, request' = [request EXCEPT ![s] = Idle], UNCHANGED codes
  PROVE  CodesInv'
<1>1. Idle \in RequestRow /\ Idle.does = "nothing" /\ Idle.code = None /\ Idle.replaces = {}
  BY NullTypes DEF Idle
<1> HIDE DEF Idle
<1> QED
  BY <1>1, RequestChanges

\* No request, and no code moves.
LEMMA CodesStay ==
  ASSUME CodesInv, UNCHANGED <<codes, request>>
  PROVE  CodesInv'
BY DEF CodesInv, codes, UnissuedBlank, CodesHeld, CodesApart, BrandsApart, ReplacesAll, CodesSpentOnce,
       OneCodePerBrand, Spending, Issuing, Issued

\* A code is tried, or grows old: it stays who it is for, and whether it may be used.
LEMMA CodeAges ==
  ASSUME TypeOK, CodesInv, NEW c \in Challenges, NEW r \in ChallengeRow,
         challenge' = [challenge EXCEPT ![c] = r], UNCHANGED <<spent, request>>, Issued(c),
         r.brand = challenge[c].brand, r.purpose = challenge[c].purpose,
         r.consumed = challenge[c].consumed, challenge[c].verified => r.verified
  PROVE  CodesInv'
<1> USE DEF CodesInv
<1>1. \A d \in Challenges : challenge'[d] = IF d = c THEN r ELSE challenge[d]
  BY DEF TypeOK
<1>2. \A d \in Challenges : Issued(d)' <=> Issued(d)
  BY <1>1 DEF Issued
<1>3. UnissuedBlank'
  BY <1>1, <1>2 DEF UnissuedBlank
<1>4. CodesSpentOnce' /\ OneCodePerBrand'
  BY <1>1, <1>2 DEF CodesSpentOnce, OneCodePerBrand
<1>5. CodesHeld'
  BY <1>1, <1>2 DEF CodesHeld, Spending, Issuing, Issued
<1>6. (CodesApart /\ BrandsApart)'
  BY DEF CodesApart, BrandsApart, Spending, Issuing
<1>7. ReplacesAll'
  BY <1>1, <1>2 DEF ReplacesAll, Issuing
<1> QED
  BY <1>3, <1>4, <1>5, <1>6, <1>7

\* A new code replaces the usable codes of its brand and purpose.
LEMMA CodeIssued ==
  ASSUME TypeOK, CodesInv, NEW s \in Requests, NEW c \in Challenges, Issue(s, c)
  PROVE  TypeOK' /\ CodesInv'
<1> USE DEF CodesInv
<1> DEFINE r == [Unissued EXCEPT !.brand = request[s].brand, !.purpose = request[s].purpose,
                                 !.recent = TRUE]
           R == request[s].replaces
<1>1. /\ Issuing(s) /\ ~Issued(c) /\ ~Spending(s) /\ request[s] \in RequestRow
      /\ request' = [request EXCEPT ![s] = Idle] /\ user' = user /\ spent' = spent /\ edits' = edits
  BY Rows DEF Issue, Issuing, Spending
<1>2. /\ request[s].brand \in Brands /\ request[s].purpose \in {"SIGNUP", "RECOVERY"}
      /\ R \subseteq Challenges
  BY <1>1 DEF CodesHeld, RequestRow
<1>3. /\ r \in ChallengeRow /\ r.brand = request[s].brand /\ r.purpose = request[s].purpose
      /\ ~r.consumed /\ ~r.verified /\ r.brand # None
  <2>1. r \in ChallengeRow
    BY <1>2, NullTypes DEF ChallengeRow
  <2> QED
    BY <1>2, <2>1, AccountsAssumption DEF Unissued
<1>4. \A d \in Challenges :
        challenge'[d] = IF d = c THEN r
                        ELSE IF d \in R THEN [challenge[d] EXCEPT !.consumed = TRUE]
                        ELSE challenge[d]
  BY DEF Issue
<1> HIDE DEF r
<1>5. \A d \in Challenges :
        /\ d # c => /\ challenge'[d].brand = challenge[d].brand
                    /\ challenge'[d].purpose = challenge[d].purpose
                    /\ challenge'[d].verified = challenge[d].verified
        /\ d # c /\ d \in R => challenge'[d].consumed
        /\ d # c /\ d \notin R => challenge'[d] = challenge[d]
        /\ challenge'[d] \in ChallengeRow
  <2> SUFFICES ASSUME NEW d \in Challenges
               PROVE  /\ d # c => /\ challenge'[d].brand = challenge[d].brand
                                  /\ challenge'[d].purpose = challenge[d].purpose
                                  /\ challenge'[d].verified = challenge[d].verified
                      /\ d # c /\ d \in R => challenge'[d].consumed
                      /\ d # c /\ d \notin R => challenge'[d] = challenge[d]
                      /\ challenge'[d] \in ChallengeRow
    OBVIOUS
  <2>1. challenge[d] \in ChallengeRow
    BY Rows
  <2>2. CASE d = c
    BY <1>3, <1>4, <2>2
  <2>3. CASE d # c /\ d \in R
    <3>1. challenge'[d] = [challenge[d] EXCEPT !.consumed = TRUE]
      BY <1>4, <2>3
    <3> QED
      BY <2>1, <2>3, <3>1 DEF ChallengeRow
  <2>4. CASE d # c /\ d \notin R
    BY <1>4, <2>1, <2>4
  <2> QED
    BY <2>2, <2>3, <2>4
<1>6. challenge'[c] = r
  BY <1>4
<1>7. \A t \in Requests : request'[t] = IF t = s THEN Idle ELSE request[t]
  BY <1>1 DEF TypeOK
<1>8. Idle \in RequestRow /\ Idle.does = "nothing" /\ Idle.code = None /\ Idle.replaces = {}
  BY NullTypes DEF Idle
<1>9. TypeOK'
  <2>1. challenge' \in [Challenges -> ChallengeRow]
    BY <1>5 DEF Issue
  <2> QED
    BY <1>1, <1>8, <2>1 DEF TypeOK
<1>10. \A d \in Challenges : Issued(d)' <=> Issued(d) \/ d = c
  BY <1>3, <1>5, <1>6 DEF Issued
<1>11. UnissuedBlank'
  BY <1>1, <1>5, <1>10 DEF UnissuedBlank, CodesHeld
<1>12. CodesSpentOnce'
  <2> SUFFICES ASSUME NEW d \in Challenges
               PROVE  spent[d] <= 1 /\ (spent[d] = 1 => challenge'[d].verified /\ challenge'[d].consumed)
    BY <1>1 DEF CodesSpentOnce
  <2>1. CASE d = c
    BY <1>1, <2>1 DEF UnissuedBlank
  <2>2. CASE d # c
    BY <1>5, <2>2 DEF CodesSpentOnce
  <2> QED
    BY <2>1, <2>2
<1>13. CodesHeld'
  <2> SUFFICES ASSUME NEW t \in Requests, t # s
               PROVE  /\ IF Spending(t)
                         THEN /\ request[t].code \in Challenges
                              /\ challenge'[request[t].code].brand # None
                              /\ challenge'[request[t].code].verified
                              /\ ~challenge'[request[t].code].consumed
                         ELSE request[t].code = None
                      /\ Issuing(t) => request[t].brand \in Brands /\ \A d \in request[t].replaces : Issued(d)'
                      /\ ~Issuing(t) => request[t].replaces = {}
    BY <1>7, <1>8 DEF CodesHeld, Spending, Issuing, Issued
  <2>1. CASE Spending(t)
    <3> DEFINE e == request[t].code
    <3>1. e \in Challenges /\ Issued(e) /\ challenge[e].verified /\ ~challenge[e].consumed
      BY <2>1 DEF CodesHeld
    <3>2. e \notin R
      BY <2>1 DEF CodesApart
    <3>3. e # c /\ challenge'[e] = challenge[e]
      BY <1>1, <1>5, <3>1, <3>2
    <3> QED
      BY <2>1, <3>1, <3>3 DEF CodesHeld, Spending, Issuing, Issued
  <2>2. CASE ~Spending(t)
    <3>1. Issuing(t) => request[t].replaces \subseteq Challenges
      BY Rows DEF RequestRow
    <3> QED
      BY <1>10, <2>2, <3>1 DEF CodesHeld
  <2> QED
    BY <2>1, <2>2
<1>14. CodesApart'
  <2> SUFFICES ASSUME NEW x \in Requests, NEW y \in Requests, x # y, Spending(x)'
               PROVE  request'[y].code # request'[x].code /\ request'[x].code \notin request'[y].replaces
    BY DEF CodesApart, Spending
  <2>1. x # s /\ Spending(x) /\ request'[x] = request[x]
    BY <1>7, <1>8 DEF Spending
  <2>2. request[x].code \in Challenges
    BY <2>1 DEF CodesHeld
  <2>3. request[x].code # None
    BY <2>2, AccountsAssumption
  <2> QED
    BY <1>7, <1>8, <2>1, <2>3 DEF CodesApart
<1>15. BrandsApart'
  BY <1>7, <1>8 DEF BrandsApart, Issuing
<1>16. ReplacesAll'
  <2> SUFFICES ASSUME NEW t \in Requests, NEW d \in Challenges, Issuing(t)',
                      Issued(d)', ~challenge'[d].consumed,
                      challenge'[d].brand = request'[t].brand, challenge'[d].purpose = request'[t].purpose
               PROVE  d \in request'[t].replaces
    BY DEF ReplacesAll, Issuing
  <2>1. t # s /\ request'[t] = request[t] /\ Issuing(t)
    BY <1>7, <1>8 DEF Issuing
  <2>2. d # c
    BY <1>1, <1>3, <1>6, <2>1 DEF BrandsApart
  <2> QED
    BY <1>5, <1>10, <2>1, <2>2 DEF ReplacesAll
<1>17. OneCodePerBrand'
  <2>1. \A d \in Challenges :
          (Issued(d)' /\ d # c /\ challenge'[d].purpose = r.purpose /\ ~challenge'[d].consumed)
            => challenge'[d].brand # r.brand
    BY <1>1, <1>3, <1>5, <1>10 DEF ReplacesAll
  <2>2. \A d, e \in Challenges :
          (/\ d # e /\ d # c /\ e # c /\ Issued(d)' /\ Issued(e)'
           /\ challenge'[d].purpose = challenge'[e].purpose
           /\ ~challenge'[d].consumed /\ ~challenge'[e].consumed)
             => challenge'[d].brand # challenge'[e].brand
    BY <1>5, <1>10 DEF OneCodePerBrand
  <2> QED
    BY <1>6, <2>1, <2>2 DEF OneCodePerBrand
<1> QED
  BY <1>9, <1>11, <1>12, <1>13, <1>14, <1>15, <1>16, <1>17

\* The credentials are written, and the code is spent.
LEMMA CodeSpent ==
  ASSUME TypeOK, CodesInv, NEW s \in Requests, NEW u \in Users, SetCredentials(s, u)
  PROVE  TypeOK' /\ CodesInv'
<1> USE DEF CodesInv
<1> DEFINE c == request[s].code
           r == [challenge[c] EXCEPT !.consumed = TRUE]
<1>1. /\ request[s].does = "spend" /\ request[s] \in RequestRow
      /\ request' = [request EXCEPT ![s] = Idle]
      /\ challenge' = [challenge EXCEPT ![c].consumed = TRUE]
      /\ spent' = [spent EXCEPT ![c] = @ + 1] /\ edits' = edits
  BY Rows DEF SetCredentials
<1>2. /\ c \in Challenges /\ Issued(c) /\ challenge[c].verified /\ ~challenge[c].consumed
      /\ c # None /\ Spending(s)
  BY <1>1, AccountsAssumption DEF CodesHeld, Spending
<1>3. challenge[c] \in ChallengeRow /\ spent[c] = 0
  BY <1>2, Rows DEF CodesSpentOnce
<1>4. /\ r \in ChallengeRow /\ r.brand = challenge[c].brand /\ r.purpose = challenge[c].purpose
      /\ r.verified /\ r.consumed
  BY <1>2, <1>3 DEF ChallengeRow
<1>5. \A d \in Challenges : /\ challenge'[d] = IF d = c THEN r ELSE challenge[d]
                            /\ spent'[d] = IF d = c THEN 1 ELSE spent[d]
  BY <1>1, <1>2, <1>3 DEF TypeOK
<1>6. \A t \in Requests : request'[t] = IF t = s THEN Idle ELSE request[t]
  BY <1>1 DEF TypeOK
<1>7. Idle \in RequestRow /\ Idle.does = "nothing" /\ Idle.code = None /\ Idle.replaces = {}
  BY NullTypes DEF Idle
<1>8. TypeOK'
  <2> DEFINE w == IF challenge[c].purpose = "SIGNUP"
                  THEN [user[u] EXCEPT !.held = "intl", !.active = TRUE, !.password = TRUE, !.profile = TRUE]
                  ELSE [user[u] EXCEPT !.password = TRUE, !.profile = TRUE]
  <2>1. w \in UserRow
    <3>1. user[u] \in UserRow
      BY Rows
    <3> QED
      BY <3>1 DEF UserRow
  <2>2. user' = [user EXCEPT ![u] = w]
    BY DEF SetCredentials
  <2> HIDE DEF w
  <2>3. user' \in [Users -> UserRow]
    BY <2>1, <2>2, RowTypes
  <2>4. challenge' \in [Challenges -> ChallengeRow] /\ spent' \in [Challenges -> Nat]
    <3>1. challenge' = [challenge EXCEPT ![c] = r]
      BY <1>1
    <3>2. spent' \in [Challenges -> Nat]
      <4>1. spent \in [Challenges -> Nat]
        BY DEF TypeOK
      <4>2. spent' = [spent EXCEPT ![c] = spent[c] + 1]
        BY <1>1
      <4> HIDE DEF c
      <4> QED
        BY <1>2, <4>1, <4>2
    <3> HIDE DEF r
    <3> QED
      BY <1>4, <3>1, <3>2, RowTypes
  <2>5. request' \in [Requests -> RequestRow]
    BY <1>1, <1>7, RowTypes
  <2> QED
    BY <1>1, <2>3, <2>4, <2>5 DEF TypeOK
<1> HIDE DEF c, r
<1>9. \A d \in Challenges : Issued(d)' <=> Issued(d)
  BY <1>4, <1>5 DEF Issued
<1>10. UnissuedBlank'
  BY <1>2, <1>5, <1>9 DEF UnissuedBlank
<1>11. CodesSpentOnce'
  BY <1>4, <1>5, <1>3 DEF CodesSpentOnce
<1>12. OneCodePerBrand'
  BY <1>4, <1>5, <1>9 DEF OneCodePerBrand
<1>13. CodesHeld'
  <2> SUFFICES ASSUME NEW t \in Requests, t # s
               PROVE  /\ IF Spending(t)
                         THEN /\ request[t].code \in Challenges
                              /\ challenge'[request[t].code].brand # None
                              /\ challenge'[request[t].code].verified
                              /\ ~challenge'[request[t].code].consumed
                         ELSE request[t].code = None
                      /\ Issuing(t) => request[t].brand \in Brands /\ \A d \in request[t].replaces : Issued(d)'
                      /\ ~Issuing(t) => request[t].replaces = {}
    BY <1>6, <1>7 DEF CodesHeld, Spending, Issuing, Issued
  <2>1. request[t].code # c
    BY <1>2 DEF CodesApart, c
  <2>2. Issuing(t) => request[t].replaces \subseteq Challenges
    BY Rows DEF RequestRow
  <2> QED
    BY <1>5, <1>9, <2>1, <2>2 DEF CodesHeld, Issued
<1>14. CodesApart'
  <2> SUFFICES ASSUME NEW x \in Requests, NEW y \in Requests, x # y, Spending(x)'
               PROVE  request'[y].code # request'[x].code /\ request'[x].code \notin request'[y].replaces
    BY DEF CodesApart, Spending
  <2>1. x # s /\ Spending(x) /\ request'[x] = request[x]
    BY <1>6, <1>7 DEF Spending
  <2>2. request[x].code # None
    BY <2>1, AccountsAssumption DEF CodesHeld
  <2> QED
    BY <1>6, <1>7, <2>1, <2>2 DEF CodesApart
<1>15. BrandsApart'
  BY <1>6, <1>7 DEF BrandsApart, Issuing
<1>16. ReplacesAll'
  BY <1>4, <1>5, <1>6, <1>7, <1>9 DEF ReplacesAll, Issuing
<1> QED
  BY <1>8, <1>10, <1>11, <1>12, <1>13, <1>14, <1>15, <1>16

-----------------------------------------------------------------------------
(* What is needed for locked accounts to stay what they were found to be.  *)

\* An account changes that no request has locked, or that keeps its number and is not
\* raised to staff.
LEMMA AccountChanges ==
  ASSUME TypeOK, AccountsHeld, NEW u \in Users, NEW r \in UserRow, user' = [user EXCEPT ![u] = r],
         \/ ~UserLocked(u)
         \/ /\ user[u].held \in {"intl", "local"} => r.held \in {"intl", "local"}
            /\ r.staff = user[u].staff
         \/ user[u].held \notin {"intl", "local"},
         \A s \in Requests : request'[s].does = "spend" => request'[s] = request[s]
  PROVE  AccountsHeld'
<1>1. \A v \in Users : user'[v] = IF v = u THEN r ELSE user[v]
  BY DEF TypeOK
<1> SUFFICES ASSUME NEW s \in Requests, request'[s].does = "spend", request'[s].user # None
             PROVE  /\ request'[s].user \in Users
                    /\ user'[request'[s].user].held \in {"intl", "local"} /\ ~user'[request'[s].user].staff
  BY DEF AccountsHeld
<1>2. /\ request'[s] = request[s] /\ request[s].user \in Users
      /\ user[request[s].user].held \in {"intl", "local"} /\ ~user[request[s].user].staff
  BY DEF AccountsHeld
<1>3. CASE request[s].user # u
  BY <1>1, <1>2, <1>3
<1>4. CASE request[s].user = u
  <2>1. UserLocked(u)
    BY <1>2, <1>4 DEF UserLocked
  <2> QED
    BY <1>1, <1>2, <1>4, <2>1
<1> QED
  BY <1>3, <1>4

\* No account changes, and no request locks one.
LEMMA AccountsStay ==
  ASSUME AccountsHeld, user' = user,
         \A s \in Requests : request'[s].does = "spend" => request'[s] = request[s]
  PROVE  AccountsHeld'
BY DEF AccountsHeld

-----------------------------------------------------------------------------
(* Steps.                                                                  *)

LEMMA InitIInv == Init => IInv
<1> SUFFICES ASSUME Init PROVE IInv
  OBVIOUS
<1>1. user \in [Users -> UserRow]
  BY NullTypes DEF Init
<1>2. TypeOK
  BY <1>1, NullTypes, AccountsAssumption DEF Init, TypeOK
<1>3. CodesInv
  BY DEF Init, CodesInv, UnissuedBlank, CodesHeld, CodesApart, BrandsApart, ReplacesAll, CodesSpentOnce,
         OneCodePerBrand, Spending, Issuing, Issued, Unissued, Idle
<1>4. AccountsHeld
  BY DEF Init, AccountsHeld, Idle
<1> QED
  BY <1>2, <1>3, <1>4 DEF IInv

\* Requests and codes.
LEMMA CodeSteps ==
  ASSUME IInv, CodeStep
  PROVE  IInv'
<1>0. TypeOK /\ CodesInv /\ AccountsHeld
  BY DEF IInv
<1> USE DEF IInv
<1>a. ASSUME NEW s \in Requests, NEW r \in RequestRow, request' = [request EXCEPT ![s] = r],
             r.does # "spend", user' = user
      PROVE  AccountsHeld'
  <2>1. \A t \in Requests : request'[t] = IF t = s THEN r ELSE request[t]
    BY <1>0, <1>a DEF TypeOK
  <2> QED
    BY <1>0, <1>a, <2>1, AccountsStay
<1>1. ASSUME NEW s \in Requests, NEW b \in Brands, AskForCode(s, b) PROVE IInv'
  <2> PICK u \in Users \cup {None}, next \in {"signup", "login"} :
        LET p == IF next = "signup" THEN "SIGNUP" ELSE "RECOVERY"
        IN /\ \A d \in Replaced(p) : ~CodeLocked(d)
           /\ request' = [request EXCEPT ![s] = [Idle EXCEPT !.does = "issue", !.brand = b, !.purpose = p,
                                                             !.replaces = Replaced(p)]]
    BY <1>1 DEF AskForCode
  <2> DEFINE p == IF next = "signup" THEN "SIGNUP" ELSE "RECOVERY"
             r == [Idle EXCEPT !.does = "issue", !.brand = b, !.purpose = p, !.replaces = Replaced(p)]
  <2>1. r \in RequestRow
    BY NullTypes DEF RequestRow, Replaced
  <2>2. r.does = "issue" /\ r.brand = b /\ r.purpose = p /\ r.replaces = Replaced(p) /\ r.code = None
    BY DEF Idle
  <2>3. \A d \in Replaced(p) : ~CodeLocked(d)
    OBVIOUS
  <2>4. request' = [request EXCEPT ![s] = r] /\ ~BrandLocked(b) /\ UNCHANGED <<user, codes, edits>>
    BY <1>1 DEF AskForCode
  <2> HIDE DEF r, p
  <2>5. \A t \in Requests \ {s} : /\ Issuing(t) => request[t].brand # b
                                  /\ request[t].code \notin Replaced(p)
    BY <2>3, <2>4 DEF BrandLocked, CodeLocked, Issuing
  <2>9. /\ \A d \in Replaced(p) : Issued(d)
        /\ \A d \in Challenges : Issued(d) /\ ~challenge[d].consumed /\ challenge[d].purpose = p
                                => d \in Replaced(p)
    BY DEF Replaced
  <2>10. /\ r.brand \in Brands /\ \A d \in r.replaces : Issued(d)
         /\ \A t \in Requests \ {s} : /\ Issuing(t) => request[t].brand # r.brand
                                      /\ request[t].code \notin r.replaces
         /\ \A d \in Challenges :
              (/\ Issued(d) /\ ~challenge[d].consumed
               /\ challenge[d].brand = r.brand /\ challenge[d].purpose = r.purpose) => d \in r.replaces
    BY <2>2, <2>5, <2>9
  <2>6. CodesInv'
    BY <1>0, <2>1, <2>2, <2>4, <2>10, RequestChanges
  <2>7. AccountsHeld'
    BY <1>a, <2>1, <2>2, <2>4
  <2>8. TypeOK'
    BY <1>0, <2>1, <2>4, RowTypes DEF TypeOK, codes
  <2> QED
    BY <2>6, <2>7, <2>8
<1>2. ASSUME NEW s \in Requests, NEW c \in Challenges, Issue(s, c) PROVE IInv'
  <2>1. request' = [request EXCEPT ![s] = Idle] /\ user' = user
    BY <1>2 DEF Issue
  <2>2. AccountsHeld'
    BY <1>a, <2>1, NullTypes DEF Idle
  <2> QED
    BY <1>0, <1>2, <2>2, CodeIssued
<1>3. ASSUME NEW s \in Requests, NEW c \in Challenges, Spend(s, c) PROVE IInv'
  <2> DEFINE r == [Idle EXCEPT !.does = "resolve", !.code = c]
  <2>1. r \in RequestRow /\ r.does = "resolve" /\ r.code = c /\ r.replaces = {}
    <3>1. r \in RequestRow
      BY NullTypes DEF RequestRow
    <3> QED
      BY <3>1 DEF Idle
  <2>2. /\ request' = [request EXCEPT ![s] = r] /\ UNCHANGED <<user, codes, edits>>
        /\ challenge[c].verified /\ ~challenge[c].consumed /\ Issued(c) /\ ~CodeLocked(c)
    BY <1>3 DEF Spend, Spendable, Live
  <2> HIDE DEF r
  <2>3. \A t \in Requests \ {s} : request[t].code # c /\ c \notin request[t].replaces
    BY <2>2 DEF CodeLocked
  <2>4. CodesInv'
    BY <1>0, <2>1, <2>2, <2>3, RequestChanges
  <2>5. AccountsHeld'
    BY <1>a, <2>1, <2>2
  <2>6. TypeOK'
    BY <1>0, <2>1, <2>2, RowTypes DEF TypeOK, codes
  <2> QED
    BY <2>4, <2>5, <2>6
<1>4. ASSUME NEW c \in Challenges, NEW right \in BOOLEAN, Verify(c, right) PROVE IInv'
  <2> DEFINE r == [challenge[c] EXCEPT !.tries = challenge[c].tries + 1, !.verified = right]
  <2>1. challenge[c] \in ChallengeRow /\ challenge[c].tries < MaxTries /\ Issued(c) /\ ~challenge[c].verified
    BY <1>0, <1>4, Rows DEF Verify, Live
  <2>2. r \in ChallengeRow
    <3>1. challenge[c].tries + 1 \in 0..MaxTries
      BY <2>1, AccountsAssumption DEF ChallengeRow
    <3> QED
      BY <2>1, <3>1 DEF ChallengeRow
  <2>3. r.brand = challenge[c].brand /\ r.purpose = challenge[c].purpose /\ r.consumed = challenge[c].consumed
    BY <2>1 DEF ChallengeRow
  <2>4. challenge' = [challenge EXCEPT ![c] = r] /\ UNCHANGED <<user, spent, request, edits>>
    BY <1>0, <1>4 DEF Verify, TypeOK
  <2> HIDE DEF r
  <2>5. CodesInv'
    BY <1>0, <2>1, <2>2, <2>3, <2>4, CodeAges
  <2> QED
    BY <1>0, <2>2, <2>4, <2>5, RowTypes, AccountsStay DEF TypeOK
<1>5. ASSUME NEW s \in Requests, NEW u \in Users, SetCredentials(s, u) PROVE IInv'
  <2> DEFINE c == request[s].code
             r == IF challenge[c].purpose = "SIGNUP"
                  THEN [user[u] EXCEPT !.held = "intl", !.active = TRUE, !.password = TRUE, !.profile = TRUE]
                  ELSE [user[u] EXCEPT !.password = TRUE, !.profile = TRUE]
  <2>1. user[u] \in UserRow
    BY <1>0, Rows
  <2>2. /\ r \in UserRow /\ r.staff = user[u].staff
        /\ user[u].held \in {"intl", "local"} => r.held \in {"intl", "local"}
    BY <2>1 DEF UserRow
  <2>3. user' = [user EXCEPT ![u] = r] /\ request' = [request EXCEPT ![s] = Idle]
    BY <1>5 DEF SetCredentials
  <2> HIDE DEF r
  <2>4. \A t \in Requests : request'[t] = IF t = s THEN Idle ELSE request[t]
    BY <1>0, <2>3 DEF TypeOK
  <2>5. AccountsHeld'
    <3>1. Idle.does = "nothing"
      BY DEF Idle
    <3> QED
      BY <1>0, <2>2, <2>3, <2>4, <3>1, AccountChanges
  <2> QED
    BY <1>0, <1>5, <2>5, CodeSpent
<1>6. ASSUME NEW s \in Requests, LockAccount(s) PROVE IInv'
  <2> PICK u \in Users \cup {None}, next \in {"signup", "login"} :
        /\ Resolved(u, next)
        /\ IF challenge[request[s].code].purpose = "SIGNUP" THEN next = "signup"
           ELSE next = "login" /\ ~user[u].staff
        /\ request' = [request EXCEPT ![s].does = "spend", ![s].user = u]
    BY <1>6 DEF LockAccount
  <2> DEFINE r == [request[s] EXCEPT !.does = "spend", !.user = u]
  <2>1. request[s] \in RequestRow /\ request[s].does = "resolve" /\ UNCHANGED <<user, codes, edits>>
    BY <1>0, <1>6, Rows DEF LockAccount
  <2>2. /\ r \in RequestRow /\ r.does = "spend" /\ r.user = u
        /\ r.code = request[s].code /\ r.replaces = request[s].replaces
    BY <2>1 DEF RequestRow
  <2>3. request' = [request EXCEPT ![s] = r]
    BY <1>0 DEF TypeOK
  <2> HIDE DEF r
  <2>4. Spending(s) /\ ~Issuing(s)
    BY <2>1 DEF Spending, Issuing
  <2>5. /\ r.code \in Challenges /\ Issued(r.code)
        /\ challenge[r.code].verified /\ ~challenge[r.code].consumed
        /\ \A t \in Requests \ {s} : request[t].code # r.code /\ r.code \notin request[t].replaces
        /\ r.replaces = {}
    BY <1>0, <2>2, <2>4 DEF CodesInv, CodesHeld, CodesApart
  <2>6. CodesInv'
    BY <1>0, <2>1, <2>2, <2>3, <2>5, RequestChanges
  <2>7. u # None => u \in Users /\ user[u].held \in {"intl", "local"} /\ ~user[u].staff
    BY DEF Resolved, Accounts, CanCompleteSignup
  <2>8. \A t \in Requests : request'[t] = IF t = s THEN r ELSE request[t]
    BY <1>0, <2>3 DEF TypeOK
  <2>9. AccountsHeld'
    BY <1>0, <2>1, <2>2, <2>7, <2>8 DEF AccountsHeld
  <2>10. TypeOK'
    BY <1>0, <2>1, <2>2, <2>3, RowTypes DEF TypeOK, codes
  <2> QED
    BY <2>6, <2>9, <2>10
<1>7. ASSUME NEW s \in Requests, GiveUp(s) PROVE IInv'
  <2>1. request' = [request EXCEPT ![s] = Idle] /\ UNCHANGED <<user, codes, edits>>
    BY <1>7 DEF GiveUp
  <2>2. Idle \in RequestRow /\ Idle.does = "nothing"
    BY NullTypes DEF Idle
  <2>3. TypeOK'
    BY <1>0, <2>1, <2>2, RowTypes DEF TypeOK, codes
  <2>4. AccountsHeld'
    BY <1>a, <2>1, <2>2
  <2> QED
    BY <1>0, <2>1, <2>3, <2>4, RequestEnds
<1>8. ASSUME NEW c \in Challenges, MinutePasses(c) \/ CodeExpires(c) PROVE IInv'
  <2>1. challenge[c] \in ChallengeRow
    BY <1>0, Rows
  <2>2. Issued(c)
    BY <1>0, <1>8 DEF MinutePasses, CodeExpires, CodesInv, UnissuedBlank, Unissued
  <2>3. PICK r : /\ r = [challenge[c] EXCEPT !.recent = FALSE] \/ r = [challenge[c] EXCEPT !.expired = TRUE]
                 /\ challenge' = [challenge EXCEPT ![c] = r] /\ UNCHANGED <<user, spent, request, edits>>
    BY <1>8 DEF MinutePasses, CodeExpires
  <2>4. /\ r \in ChallengeRow /\ r.brand = challenge[c].brand /\ r.purpose = challenge[c].purpose
        /\ r.consumed = challenge[c].consumed /\ r.verified = challenge[c].verified
    BY <2>1, <2>3 DEF ChallengeRow
  <2>5. CodesInv'
    BY <1>0, <2>2, <2>3, <2>4, CodeAges
  <2> QED
    BY <1>0, <2>3, <2>4, <2>5, RowTypes, AccountsStay DEF TypeOK
<1> HIDE DEF IInv
<1> QED
  BY <1>1, <1>2, <1>3, <1>4, <1>5, <1>6, <1>7, <1>8 DEF CodeStep

\* Staff.
LEMMA StaffSteps ==
  ASSUME IInv, StaffStep
  PROVE  IInv' /\ spent' = spent
<1>0. TypeOK /\ CodesInv /\ AccountsHeld
  BY DEF IInv
<1>a. StaffChange => edits' \in 0..MaxEdits
  BY <1>0, AccountsAssumption DEF TypeOK, StaffChange
<1>b. ASSUME NEW u \in Users, NEW r \in UserRow, user' = [user EXCEPT ![u] = r], StaffChange,
             ~UserLocked(u) \/ user[u].held \notin {"intl", "local"}, UNCHANGED <<codes, request>>
      PROVE  IInv' /\ spent' = spent
  <2>1. AccountsHeld'
    BY <1>0, <1>b, AccountChanges
  <2>2. CodesInv'
    BY <1>0, <1>b, CodesStay
  <2>3. TypeOK'
    BY <1>0, <1>a, <1>b, RowTypes DEF TypeOK, codes
  <2> QED
    BY <1>b, <2>1, <2>2, <2>3 DEF IInv, codes
<1>1. ASSUME NEW u \in Users, NEW form \in {"intl", "local"}, EmployeeCreate(u, form)
      PROVE  IInv' /\ spent' = spent
  <2> DEFINE r == [held |-> form, staff |-> TRUE, hired |-> TRUE, active |-> TRUE,
                   password |-> TRUE, profile |-> FALSE]
  <2>1. r \in UserRow
    BY DEF UserRow
  <2>2. user' = [user EXCEPT ![u] = r] /\ StaffChange /\ user[u] = NoAccount /\ UNCHANGED <<codes, request>>
    BY <1>1 DEF EmployeeCreate
  <2> HIDE DEF r
  <2> QED
    <3>1. user[u].held = "none"
      BY <2>2 DEF NoAccount
    <3> QED
      BY <1>b, <2>1, <2>2, <3>1
<1>2. ASSUME NEW s \in Requests, NEW u \in Users, EditStart(s, u)
      PROVE  IInv' /\ spent' = spent
  <2> DEFINE r == [Idle EXCEPT !.does = "edit", !.user = u, !.copy = user[u]]
  <2>1. r \in RequestRow
    BY <1>0, NullTypes, Rows DEF RequestRow
  <2>2. r.does = "edit" /\ r.code = None /\ r.replaces = {}
    BY DEF Idle
  <2>3. request' = [request EXCEPT ![s] = r] /\ UNCHANGED <<user, codes, edits>>
    BY <1>2 DEF EditStart
  <2> HIDE DEF r
  <2>4. \A t \in Requests : request'[t] = IF t = s THEN r ELSE request[t]
    BY <1>0, <2>3 DEF TypeOK
  <2>5. CodesInv'
    BY <1>0, <2>1, <2>2, <2>3, RequestChanges
  <2>6. AccountsHeld'
    BY <1>0, <2>2, <2>3, <2>4, AccountsStay
  <2>7. TypeOK'
    BY <1>0, <2>1, <2>3, RowTypes DEF TypeOK, codes
  <2> QED
    BY <2>3, <2>5, <2>6, <2>7 DEF IInv, codes
<1>3. ASSUME NEW s \in Requests, NEW active \in BOOLEAN, NEW form \in {"intl", "local"},
             EditSave(s, active, form)
      PROVE  IInv' /\ spent' = spent
  <2> DEFINE u == request[s].user
             r == [request[s].copy EXCEPT !.active = active, !.held = form]
  <2>1. r \in UserRow
    BY <1>0, Rows DEF RequestRow, UserRow
  <2>2. /\ StaffChange /\ ~UserLocked(u) /\ UNCHANGED codes
        /\ user' = [user EXCEPT ![u] = r] /\ request' = [request EXCEPT ![s] = Idle]
    BY <1>3 DEF EditSave
  <2> HIDE DEF r
  <2>3. Idle \in RequestRow /\ Idle.does = "nothing"
    BY NullTypes DEF Idle
  <2>4. \A t \in Requests : request'[t] = IF t = s THEN Idle ELSE request[t]
    BY <1>0, <2>2 DEF TypeOK
  <2>5. CodesInv'
    BY <1>0, <2>2, RequestEnds
  <2>6. AccountsHeld'
    <3>1. CASE u \in Users
      BY <1>0, <2>1, <2>2, <2>3, <2>4, <3>1, AccountChanges
    <3>2. CASE u \notin Users
      <4>1. user' = user
        BY <1>0, <2>2, <3>2 DEF TypeOK
      <4> QED
        BY <1>0, <2>3, <2>4, <4>1, AccountsStay
    <3> QED
      BY <3>1, <3>2
  <2>7. TypeOK'
    BY <1>0, <1>a, <2>1, <2>2, <2>3, RowTypes DEF TypeOK, codes
  <2> QED
    BY <2>2, <2>5, <2>6, <2>7 DEF IInv, codes
<1>4. ASSUME NEW u \in Users, EmployeeDelete(u) PROVE IInv' /\ spent' = spent
  <2>1. [NoAccount EXCEPT !.held = "gone"] \in UserRow
    BY NullTypes DEF UserRow
  <2> QED
    BY <1>4, <1>b, <2>1 DEF EmployeeDelete
<1>5. ASSUME NEW u \in Users, Promote(u) PROVE IInv' /\ spent' = spent
  <2>1. [user[u] EXCEPT !.staff = TRUE] \in UserRow
    BY <1>0, Rows DEF UserRow
  <2>2. /\ user' = [user EXCEPT ![u] = [user[u] EXCEPT !.staff = TRUE]]
        /\ StaffChange /\ ~UserLocked(u) /\ UNCHANGED <<codes, request>>
    BY <1>5 DEF Promote
  <2> QED
    BY <1>b, <2>1, <2>2
<1> QED
  BY <1>1, <1>2, <1>3, <1>4, <1>5 DEF StaffStep

LEMMA NextIInv == IInv /\ [Next]_vars => IInv'
<1>1. ASSUME IInv, Next PROVE IInv'
  BY <1>1, CodeSteps, StaffSteps DEF Next
<1>2. ASSUME IInv, UNCHANGED vars PROVE IInv'
  BY <1>2, CodesStay, AccountsStay DEF IInv, vars, codes, TypeOK
<1> QED
  BY <1>1, <1>2

-----------------------------------------------------------------------------
(* Theorems.                                                               *)

LEMMA AlwaysIInv == Spec => []IInv
BY InitIInv, NextIInv, PTL DEF Spec

\* Accounts, codes and requests keep their types.
THEOREM TypeCorrect == Spec => []TypeOK
<1>1. IInv => TypeOK
  BY DEF IInv
<1> QED
  BY <1>1, AlwaysIInv, PTL

\* A code sets credentials once, after it was answered rightly, and at one brand there is
\* one code at a time that can be used for a purpose, whatever requests overlap (issue,
\* register, reset_credentials).
THEOREM AlwaysOneCodeOneUse == Spec => []OneCodeOneUse
<1>1. IInv => OneCodeOneUse
  BY DEF IInv, CodesInv, OneCodeOneUse
<1> QED
  BY <1>1, AlwaysIInv, PTL

\* An SMS code never sets the credentials of an account that is staff by then: between
\* the account's lock and the write it is neither raised to staff nor replaced by an
\* account of staff (resolve_account, require_customer_recovery).
THEOREM StaffAlwaysUntouched == Spec => StaffUntouched
<1> DEFINE Untouched ==
      \A s \in Requests :
        (spent' # spent /\ request[s].does = "spend" /\ request'[s] = Idle /\ request[s].user # None)
          => ~user[request[s].user].staff
<1>1. IInv /\ [Next]_vars => [Untouched]_vars
  BY DEF IInv, AccountsHeld
<1> QED
  BY <1>1, AlwaysIInv, PTL DEF Spec, StaffUntouched

-----------------------------------------------------------------------------
(* Outlets.                                                                *)

\* What an order request holds goes by the row it has locked.
OrdersHold ==
  /\ \A o \in OrderRequests : order[o].step \in {"read", "locked"} => order[o].branch \in Branches
  /\ \A o \in OrderRequests : order[o].step = "read" => order[o].by = "web"
  /\ \A o \in OrderRequests : order[o].step = "locked" =>
       order[o].by = "web" \/ (order[o].accepted => outlet[order[o].branch].accepting)

\* No edit has saved a row that an order holds.
LocksApart ==
  \A o \in OrderRequests, w \in Edits :
    order[o].step = "locked" /\ edit[w].saved =>
      order[o].branch # edit[w].branch /\ order[o].branch \notin edit[w].demoted

RowsWhole ==
  /\ \A b \in Branches : outlet[b].main => outlet[b].exists
  /\ \A w \in Edits : edit[w] # NoEdit => edit[w].branch \in Branches /\ edit[w].row.exists

\* An edit that nothing overlaps knows which outlet is the main one.
EditAlone ==
  /\ \A v, w \in Edits : edit[v] # NoEdit /\ edit[w] # NoEdit => v = w
  /\ \A w \in Edits : edit[w].row.main => edit[w].main \/ edit[w].branch \in Mains
  /\ \A w \in Edits : edit[w].saved => edit[w].demoted = Demoted(w)
  /\ \A b, c \in Mains : b = c

OutletsInv == OutletsTypeOK /\ OrdersHold /\ LocksApart /\ RowsWhole /\ (mixed \/ EditAlone)

LEMMA InitOutletsInv == OutletsInit => OutletsInv
<1> SUFFICES ASSUME OutletsInit PROVE OutletsInv
  OBVIOUS
<1>1. \A b, c \in Mains : b = c
  <2>1. Mains \subseteq Branches /\ IsFiniteSet(Mains) /\ Cardinality(Mains) <= 1
    BY OutletsAssumption, FS_Subset DEF OutletsInit, Mains
  <2> SUFFICES ASSUME NEW b \in Mains, NEW c \in Mains, b # c PROVE FALSE
    OBVIOUS
  <2>2. {b, c} \subseteq Mains /\ Cardinality({b, c}) = 2
    <3>1. IsFiniteSet({b}) /\ Cardinality({b}) = 1
      BY FS_Singleton
    <3>2. Cardinality({b} \cup {c}) = 2
      BY <3>1, FS_AddElement
    <3>3. {b} \cup {c} = {b, c}
      OBVIOUS
    <3> QED
      BY <3>2, <3>3
  <2>3. Cardinality({b, c}) <= Cardinality(Mains)
    BY <2>1, <2>2, FS_Subset
  <2> QED
    BY <2>1, <2>2, <2>3, FS_CardinalityType
<1>2. outlet \in [Branches -> Branch] /\ \A b \in Branches : outlet[b].main => outlet[b].exists
  BY DEF OutletsInit, NoRow
<1>3. OutletsTypeOK
  <2>1. NoEdit \in Edit /\ NoOrder \in Order
    BY DEF NoEdit, Edit, NoRow, Branch, NoOrder, Order
  <2>2. NoSummary \in [branch: Branches \cup {Nothing}, accepting: BOOLEAN]
    BY DEF NoSummary
  <2>3. 0 \in 0..MaxAsked
    BY OutletsAssumption
  <2> QED
    BY <1>2, <2>1, <2>2, <2>3 DEF OutletsInit, OutletsTypeOK
<1>4. OrdersHold /\ LocksApart /\ RowsWhole
  BY <1>2 DEF OutletsInit, OrdersHold, LocksApart, RowsWhole, NoOrder, NoEdit
<1>5. EditAlone
  BY <1>1 DEF OutletsInit, EditAlone, NoEdit, NoRow
<1> QED
  BY <1>3, <1>4, <1>5 DEF OutletsInv

LEMMA AskKeeps ==
  ASSUME OutletsInv, NEW w \in Edits, NEW b \in Branches, NEW does \in {"create", "update", "toggle"},
         NEW main \in BOOLEAN \cup {Kept}, NEW accepting \in BOOLEAN \cup {Kept},
         Ask(w, b, does, main, accepting)
  PROVE  OutletsInv'
<1> DEFINE new == [NoEdit EXCEPT !.does = does, !.branch = b, !.main = main = TRUE,
                      !.row = [exists |-> TRUE, main |-> Chosen(main, outlet[b].main),
                               accepting |-> Chosen(accepting, outlet[b].accepting)]]
<1>1. /\ edit[w] = NoEdit /\ asked < MaxAsked
      /\ edit' = [edit EXCEPT ![w] = new]
      /\ asked' = asked + 1
      /\ mixed' = (mixed \/ \E v \in Edits : edit[v] # NoEdit)
      /\ UNCHANGED <<outlet, order, cache, summary>>
  BY DEF Ask, status
<1>2. outlet[b] \in Branch /\ edit \in [Edits -> Edit]
  BY DEF OutletsInv, OutletsTypeOK
<1>3. new \in Edit
  BY <1>2 DEF Edit, NoEdit, NoRow, Branch, Chosen
<1>4. /\ new.branch = b /\ new.row.exists /\ ~new.saved
      /\ new.row.main => new.main \/ outlet[b].main
  BY <1>2, OutletsAssumption DEF NoEdit, Branch, Chosen
<1> HIDE DEF new
<1>5. OutletsTypeOK'
  BY <1>1, <1>2, <1>3, OutletsAssumption DEF OutletsInv, OutletsTypeOK
<1>6. (OrdersHold /\ LocksApart /\ RowsWhole)'
  BY <1>1, <1>2, <1>4 DEF OutletsInv, OrdersHold, LocksApart, RowsWhole
<1>7. ASSUME ~mixed' PROVE EditAlone'
  <2>1. /\ EditAlone /\ Mains' = Mains
        /\ \A v \in Edits : edit[v] = NoEdit
        /\ \A v \in Edits : v # w => edit'[v] = NoEdit
        /\ edit'[w] = new
    BY <1>1, <1>2, <1>7 DEF OutletsInv, Mains
  <2>2. outlet[b].main => b \in Mains
    BY DEF OutletsInv, RowsWhole, Mains
  <2>3. ~NoEdit.saved /\ ~NoEdit.row.main
    BY DEF NoEdit, NoRow
  <2>4. \A v \in Edits : edit'[v].row.main => edit'[v].main \/ edit'[v].branch \in Mains
    BY <1>4, <2>1, <2>2, <2>3
  <2>5. \A v \in Edits : ~edit'[v].saved
    BY <1>4, <2>1, <2>3
  <2>6. \A u, v \in Edits : edit'[u] # NoEdit /\ edit'[v] # NoEdit => u = v
    BY <2>1
  <2> QED
    BY <2>1, <2>4, <2>5, <2>6 DEF EditAlone
<1> QED
  BY <1>5, <1>6, <1>7 DEF OutletsInv

LEMMA SaveKeepsOutlets ==
  ASSUME OutletsInv, NEW w \in Edits, Save(w)
  PROVE  OutletsInv'
<1> DEFINE new == [edit[w] EXCEPT !.saved = TRUE, !.demoted = Demoted(w)]
<1>1. /\ edit[w].does # Nothing /\ ~edit[w].saved
      /\ \A b \in {edit[w].branch} \cup Demoted(w) : ~Locked(b)
      /\ edit' = [edit EXCEPT ![w] = new]
      /\ cache' = Dropped(w)
      /\ UNCHANGED <<outlet, order, summary, asked, mixed>>
  BY DEF Save
<1>2. edit \in [Edits -> Edit] /\ edit[w] \in Edit /\ edit[w] # NoEdit
  BY <1>1 DEF OutletsInv, OutletsTypeOK, NoEdit
<1>3. Demoted(w) \in SUBSET Branches /\ edit[w].branch \in Branches
  BY <1>2 DEF Demoted, Mains, OutletsInv, RowsWhole
<1>4. /\ new \in Edit /\ new.branch = edit[w].branch /\ new.row = edit[w].row
      /\ new.main = edit[w].main /\ new.saved /\ new.demoted = Demoted(w)
  BY <1>2, <1>3 DEF Edit
<1> HIDE DEF new
<1>5. cache' \in [Branches -> BOOLEAN \cup {Nothing}]
  BY <1>1, <1>3 DEF Dropped, OutletsInv, OutletsTypeOK
<1>6. OutletsTypeOK'
  BY <1>1, <1>2, <1>4, <1>5 DEF OutletsInv, OutletsTypeOK
<1>7. OrdersHold'
  BY <1>1 DEF OutletsInv, OrdersHold
<1>8. LocksApart'
  <2> SUFFICES ASSUME NEW o \in OrderRequests, NEW v \in Edits, order[o].step = "locked", edit'[v].saved
               PROVE  order[o].branch # edit'[v].branch /\ order[o].branch \notin edit'[v].demoted
    BY <1>1 DEF LocksApart
  <2>1. CASE v = w
    <3>1. Locked(order[o].branch)
      BY DEF Locked
    <3> QED
      BY <1>1, <1>2, <1>4, <2>1, <3>1
  <2>2. CASE v # w
    BY <1>1, <1>2, <2>2 DEF OutletsInv, LocksApart
  <2> QED
    BY <2>1, <2>2
<1>9. RowsWhole'
  BY <1>1, <1>2, <1>4 DEF OutletsInv, RowsWhole
<1>10. ASSUME ~mixed' PROVE EditAlone'
  <2>1. EditAlone /\ Mains' = Mains
    BY <1>1, <1>10 DEF OutletsInv, Mains
  <2>2. \A v \in Edits : v # w => edit'[v] = edit[v]
    BY <1>1, <1>2
  <2>3. edit'[w] = new
    BY <1>1, <1>2
  <2>4. \A v \in Edits : Demoted(v)' = Demoted(v)
    BY <1>4, <2>1, <2>2, <2>3 DEF Demoted
  <2> QED
    BY <1>2, <1>4, <2>1, <2>2, <2>3, <2>4 DEF EditAlone
<1> QED
  BY <1>6, <1>7, <1>8, <1>9, <1>10 DEF OutletsInv

LEMMA CommitKeepsOutlets ==
  ASSUME OutletsInv, NEW w \in Edits, CommitEdit(w)
  PROVE  OutletsInv'
<1>1. /\ edit[w].saved
      /\ outlet' = [b \in Branches |->
           IF b = edit[w].branch THEN edit[w].row
           ELSE IF b \in edit[w].demoted THEN [outlet[b] EXCEPT !.main = FALSE] ELSE outlet[b]]
      /\ edit' = [edit EXCEPT ![w] = NoEdit]
      /\ UNCHANGED <<order, cache, summary, asked, mixed>>
  BY DEF CommitEdit, status
<1>2. /\ edit \in [Edits -> Edit] /\ edit[w] \in Edit /\ edit[w] # NoEdit
      /\ edit[w].branch \in Branches /\ edit[w].row \in Branch /\ edit[w].row.exists
      /\ outlet \in [Branches -> Branch]
  BY <1>1 DEF OutletsInv, OutletsTypeOK, RowsWhole, NoEdit, Edit
<1>3. NoEdit \in Edit /\ ~NoEdit.saved /\ ~NoEdit.row.main
  BY DEF NoEdit, Edit, NoRow, Branch
<1>4. /\ outlet' \in [Branches -> Branch]
      /\ outlet'[edit[w].branch] = edit[w].row
      /\ \A b \in Branches : b # edit[w].branch =>
           /\ outlet'[b].exists = outlet[b].exists
           /\ outlet'[b].accepting = outlet[b].accepting
           /\ outlet'[b].main => outlet[b].main /\ b \notin edit[w].demoted
  <2>1. \A b \in Branches : outlet[b] \in Branch
    BY <1>2
  <2> QED
    BY <1>1, <1>2, <2>1 DEF Branch
<1>5. OutletsTypeOK'
  BY <1>1, <1>2, <1>3, <1>4 DEF OutletsInv, OutletsTypeOK
<1>6. OrdersHold'
  <2>1. ASSUME NEW o \in OrderRequests, order[o].step = "locked"
        PROVE  order[o].branch # edit[w].branch
    BY <1>1, <2>1 DEF OutletsInv, LocksApart
  <2> QED
    BY <1>1, <1>4, <2>1 DEF OutletsInv, OrdersHold
<1>7. LocksApart'
  BY <1>1, <1>2, <1>3 DEF OutletsInv, LocksApart
<1>8. RowsWhole'
  BY <1>1, <1>2, <1>3, <1>4 DEF OutletsInv, RowsWhole
<1>9. ASSUME ~mixed' PROVE EditAlone'
  <2>1. EditAlone
    BY <1>1, <1>9 DEF OutletsInv
  <2>2. \A v \in Edits : edit'[v] = NoEdit
    BY <1>1, <1>2, <2>1 DEF EditAlone
  <2>3. edit[w].demoted = IF edit[w].main THEN Mains \ {edit[w].branch} ELSE {}
    BY <1>1, <2>1 DEF EditAlone, Demoted
  <2>4. \A b \in Mains' : b # edit[w].branch => b \in Mains /\ ~edit[w].main
    BY <1>4, <2>3 DEF Mains
  <2>5. edit[w].branch \in Mains' => edit[w].main \/ edit[w].branch \in Mains
    BY <1>4, <2>1 DEF Mains, EditAlone
  <2>6. \A b, c \in Mains' : b = c
    <3> SUFFICES ASSUME NEW b \in Mains', NEW c \in Mains', b # c PROVE FALSE
      OBVIOUS
    <3>1. b \in Mains /\ c \in Mains
      BY <2>4, <2>5
    <3> QED
      BY <2>1, <3>1 DEF EditAlone
  <2> QED
    BY <1>3, <2>2, <2>6 DEF EditAlone
<1> QED
  BY <1>5, <1>6, <1>7, <1>8, <1>9 DEF OutletsInv

LEMMA DropKeepsOutlets ==
  ASSUME OutletsInv, NEW w \in Edits, Drop(w)
  PROVE  OutletsInv'
<1>1. /\ edit' = [edit EXCEPT ![w] = NoEdit]
      /\ UNCHANGED <<outlet, order, cache, summary, asked, mixed>>
  BY DEF Drop, status
<1>2. edit \in [Edits -> Edit] /\ NoEdit \in Edit /\ ~NoEdit.saved /\ ~NoEdit.row.main
  BY DEF OutletsInv, OutletsTypeOK, NoEdit, Edit, NoRow, Branch
<1>3. OutletsTypeOK'
  BY <1>1, <1>2 DEF OutletsInv, OutletsTypeOK
<1>4. (OrdersHold /\ LocksApart /\ RowsWhole)'
  BY <1>1, <1>2 DEF OutletsInv, OrdersHold, LocksApart, RowsWhole
<1>5. ASSUME ~mixed' PROVE EditAlone'
  <2>1. EditAlone /\ Mains' = Mains
    BY <1>1, <1>5 DEF OutletsInv, Mains
  <2>2. \A v \in Edits : edit'[v] = edit[v] \/ edit'[v] = NoEdit
    BY <1>1, <1>2
  <2> QED
    BY <1>2, <2>1, <2>2 DEF EditAlone, Demoted
<1> QED
  BY <1>3, <1>4, <1>5 DEF OutletsInv

\* Orders leave the outlets and their edits alone.
LEMMA OrderKeepsOutlets ==
  ASSUME OutletsInv, NEW o \in OrderRequests, OrderStep(o)
  PROVE  OutletsInv'
<1>1. UNCHANGED <<outlet, edit, cache, summary, asked, mixed>>
  BY DEF OrderStep, Begin, Lock, LockForWeb, Place, status
<1>2. /\ order \in [OrderRequests -> Order] /\ order[o] \in Order
      /\ \A b \in Branches : outlet[b] \in Branch
  BY DEF OutletsInv, OutletsTypeOK
<1>3. \E held \in Order :
        /\ order' = [order EXCEPT ![o] = held]
        /\ held.step \in {"read", "locked"} => held.branch \in Branches
        /\ held.step = "read" => held.by = "web"
        /\ held.step = "locked" => /\ held.by = "web" \/ (held.accepted => outlet[held.branch].accepting)
                                   /\ ~Locked(held.branch)
  <2>1. ASSUME NEW b \in Branches, Begin(o, b)
        PROVE  [by |-> "web", branch |-> b, step |-> "read", accepted |-> outlet[b].accepting] \in Order
    BY <1>2 DEF Order, Branch
  <2>2. ASSUME NEW b \in Branches, Lock(o, b)
        PROVE  [by |-> "live", branch |-> b, step |-> "locked", accepted |-> outlet[b].accepting] \in Order
    BY <1>2 DEF Order, Branch
  <2>3. ASSUME LockForWeb(o)
        PROVE  /\ [order[o] EXCEPT !.step = "locked"] \in Order
               /\ order' = [order EXCEPT ![o] = [order[o] EXCEPT !.step = "locked"]]
               /\ order[o].by = "web" /\ order[o].branch \in Branches
    BY <1>2, <2>3 DEF LockForWeb, Order, OutletsInv, OrdersHold
  <2>4. ASSUME Place(o)
        PROVE  \E step \in {"placed", "refused"} :
                 /\ [NoOrder EXCEPT !.step = step] \in Order
                 /\ order' = [order EXCEPT ![o] = [NoOrder EXCEPT !.step = step]]
    BY <2>4 DEF Place, NoOrder, Order
  <2>5. CASE \E b \in Branches : Begin(o, b)
    BY <2>1, <2>5 DEF Begin
  <2>6. CASE \E b \in Branches : Lock(o, b)
    BY <2>2, <2>6 DEF Lock
  <2>7. CASE LockForWeb(o)
    <3>1. ~Locked(order[o].branch)
      BY <2>7 DEF LockForWeb
    <3> QED
      BY <1>2, <2>3, <2>7, <3>1 DEF Order
  <2>8. CASE Place(o)
    BY <2>4, <2>8 DEF NoOrder
  <2> QED
    BY <2>5, <2>6, <2>7, <2>8 DEF OrderStep
<1>4. PICK held \in Order :
        /\ order' = [order EXCEPT ![o] = held]
        /\ held.step \in {"read", "locked"} => held.branch \in Branches
        /\ held.step = "read" => held.by = "web"
        /\ held.step = "locked" => /\ held.by = "web" \/ (held.accepted => outlet[held.branch].accepting)
                                   /\ ~Locked(held.branch)
  BY <1>3
<1>5. OutletsTypeOK'
  BY <1>1, <1>2, <1>4 DEF OutletsInv, OutletsTypeOK
<1>6. \A p \in OrderRequests : p # o => order'[p] = order[p]
  BY <1>2, <1>4
<1>7. order'[o] = held
  BY <1>2, <1>4
<1>8. OrdersHold'
  BY <1>1, <1>4, <1>6, <1>7 DEF OutletsInv, OrdersHold
<1>9. LocksApart'
  <2> SUFFICES ASSUME NEW p \in OrderRequests, NEW w \in Edits, order'[p].step = "locked", edit[w].saved
               PROVE  order'[p].branch # edit[w].branch /\ order'[p].branch \notin edit[w].demoted
    BY <1>1 DEF LocksApart
  <2>1. CASE p = o
    BY <1>4, <1>7, <2>1 DEF Locked
  <2>2. CASE p # o
    BY <1>6, <2>2 DEF OutletsInv, LocksApart
  <2> QED
    BY <2>1, <2>2
<1>10. (RowsWhole /\ (mixed \/ EditAlone))'
  BY <1>1 DEF OutletsInv, RowsWhole, EditAlone, Mains, Demoted
<1> QED
  BY <1>5, <1>8, <1>9, <1>10 DEF OutletsInv

LEMMA NextOutletsInv == OutletsInv /\ [OutletsNext]_outletVars => OutletsInv'
<1> SUFFICES ASSUME OutletsInv, [OutletsNext]_outletVars PROVE OutletsInv'
  OBVIOUS
<1>1. CASE \E w \in Edits : EditStep(w)
  BY <1>1, AskKeeps, SaveKeepsOutlets, CommitKeepsOutlets, DropKeepsOutlets DEF EditStep
<1>2. CASE \E o \in OrderRequests : OrderStep(o)
  BY <1>2, OrderKeepsOutlets
<1>3. CASE StatusStep
  <2>1. UNCHANGED <<outlet, edit, order, asked, mixed>>
    BY <1>3 DEF StatusStep, Fill, Miss, Expire
  <2>2. /\ cache' \in [Branches -> BOOLEAN \cup {Nothing}]
        /\ summary' \in [Dashboards -> [branch: Branches \cup {Nothing}, accepting: BOOLEAN]]
    <3>1. /\ cache \in [Branches -> BOOLEAN \cup {Nothing}]
          /\ summary \in [Dashboards -> [branch: Branches \cup {Nothing}, accepting: BOOLEAN]]
          /\ \A b \in Branches : outlet[b].accepting \in BOOLEAN
      BY DEF OutletsInv, OutletsTypeOK, Branch
    <3>2. ASSUME NEW d \in Dashboards, NEW b \in Watched, Miss(d, b)
          PROVE  cache' = cache /\ summary' \in [Dashboards -> [branch: Branches \cup {Nothing}, accepting: BOOLEAN]]
      BY <3>1, <3>2, OutletsAssumption DEF Miss
    <3>3. ASSUME NEW d \in Dashboards, Fill(d)
          PROVE  /\ cache' \in [Branches -> BOOLEAN \cup {Nothing}]
                 /\ summary' \in [Dashboards -> [branch: Branches \cup {Nothing}, accepting: BOOLEAN]]
      BY <3>1, <3>3 DEF Fill, NoSummary
    <3>4. ASSUME NEW b \in Branches, Expire(b)
          PROVE  summary' = summary /\ cache' \in [Branches -> BOOLEAN \cup {Nothing}]
      BY <3>1, <3>4 DEF Expire, Lapsed
    <3> QED
      BY <1>3, <3>1, <3>2, <3>3, <3>4 DEF StatusStep
  <2> QED
    BY <2>1, <2>2 DEF OutletsInv, OutletsTypeOK, OrdersHold, LocksApart, RowsWhole, EditAlone, Mains, Demoted
<1>4. CASE UNCHANGED outletVars
  BY <1>4 DEF OutletsInv, OutletsTypeOK, OrdersHold, LocksApart, RowsWhole, EditAlone, Mains, Demoted,
              outletVars, status
<1> QED
  BY <1>1, <1>2, <1>3, <1>4 DEF OutletsNext

LEMMA AlwaysOutletsInv == OutletsSpec => []OutletsInv
BY InitOutletsInv, NextOutletsInv, PTL DEF OutletsSpec

\* A brand has one main outlet at most while changes of its outlets do not overlap
\* (branch_create, branch_update).
THEOREM AlwaysOneMainOutlet == OutletsSpec => []OneMainOutlet
<1>1. OutletsInv => OneMainOutlet
  <2> SUFFICES ASSUME OutletsInv, ~mixed PROVE Cardinality(Mains) <= 1
    BY DEF OneMainOutlet
  <2>1. \A b, c \in Mains : b = c
    BY DEF OutletsInv, EditAlone
  <2>2. CASE Mains = {}
    BY <2>2, FS_EmptySet
  <2>3. CASE \E b \in Mains : TRUE
    <3>1. PICK b \in Mains : Mains = {b}
      BY <2>1, <2>3
    <3>2. Cardinality(Mains) = 1
      BY <3>1, FS_Singleton
    <3> QED
      BY <3>2
  <2> QED
    BY <2>2, <2>3
<1> QED
  BY <1>1, AlwaysOutletsInv, PTL

\* No order is opened at the counter or a table of an outlet that is paused
\* (mutate, checkout).
THEOREM PauseAlwaysHolds == OutletsSpec => PauseHolds
<1> DEFINE Holds ==
      \A o \in OrderRequests :
        order[o].step # "placed" /\ order'[o].step = "placed" =>
          order[o].by = "web" \/ outlet[order[o].branch].accepting
<1>1. ASSUME OutletsInv, OutletsNext PROVE Holds
  <2> SUFFICES ASSUME NEW o \in OrderRequests, order[o].step # "placed", order'[o].step = "placed"
               PROVE  order[o].by = "web" \/ outlet[order[o].branch].accepting
    OBVIOUS
  <2>1. order \in [OrderRequests -> Order]
    BY <1>1 DEF OutletsInv, OutletsTypeOK
  <2>2. order' # order
    OBVIOUS
  <2>3. PICK p \in OrderRequests : OrderStep(p)
    BY <1>1, <2>2 DEF OutletsNext, EditStep, StatusStep, Ask, Save, CommitEdit, Drop, Fill, Miss, Expire
  <2>4. p = o /\ Place(o)
    <3>1. CASE Place(p)
      BY <2>1, <3>1 DEF Place
    <3>2. CASE LockForWeb(p)
      BY <2>1, <3>2 DEF LockForWeb, Order
    <3>3. ASSUME NEW b \in Branches, Begin(p, b) PROVE FALSE
      BY <2>1, <3>3 DEF Begin
    <3>4. ASSUME NEW b \in Branches, Lock(p, b) PROVE FALSE
      BY <2>1, <3>4 DEF Lock
    <3> QED
      BY <2>3, <3>1, <3>2, <3>3, <3>4 DEF OrderStep
  <2>5. order[o].step = "locked" /\ order[o].accepted
    BY <2>1, <2>4 DEF Place, NoOrder
  <2> QED
    BY <1>1, <2>5 DEF OutletsInv, OrdersHold
<1>2. OutletsInv /\ [OutletsNext]_outletVars => [Holds]_outletVars
  BY <1>1
<1> QED
  BY <1>2, AlwaysOutletsInv, PTL DEF OutletsSpec, PauseHolds

-----------------------------------------------------------------------------
(* The attendance sheet and the meal plan.                                 *)

SheetShaped ==
  /\ row = [x \in Entries |-> row[x]] /\ trail = [c \in Cells |-> trail[c]]
  /\ editor = [e \in Editors |-> editor[e]]

\* An editor who is up to date was shown what the entry says.
EditorsSaw ==
  \A e \in Editors : editor[e] # Away =>
    LET x == editor[e].entry IN
    /\ x \in Entries /\ editor[e].wanted \in Values(x)
    /\ editor[e].revision \in Nat /\ editor[e].revision <= row[x].revision
    /\ editor[e].revision = row[x].revision => editor[e].value = row[x].value

SheetInv == SheetTypeOK /\ SheetShaped /\ EditorsSaw /\ TrailLeadsHere

\* The status a cell had before its change i.
StatusBefore(changes, i) == IF i = 1 THEN Unmarked ELSE changes[i - 1].status

TrailLeads(c) ==
  /\ \A i \in 1..Len(trail[c]) : trail[c][i].previous = StatusBefore(trail[c], i)
  /\ row[c].value = StatusBefore(trail[c], Len(trail[c]) + 1)

LEMMA TrailsLead == TrailLeadsHere <=> \A c \in Cells : TrailLeads(c)
BY DEF TrailLeadsHere, TrailLeads, StatusBefore

LEMMA InitSheetInv == SheetInit => SheetInv
<1> SUFFICES ASSUME SheetInit PROVE SheetInv
  OBVIOUS
<1>1. \A x \in Entries : row[x] = Unwritten(x)
  BY DEF SheetInit
<1>2. \A x \in Entries : row[x] \in [value: Values(x), revision: 0..MaxRevision, by: Editors \cup {Nobody}]
  <2> TAKE x \in Entries
  <2>1. (IF x \in Cells THEN Unmarked ELSE {}) \in Values(x)
    BY AttendanceAssumption DEF Values
  <2>2. 0 \in 0..MaxRevision
    BY AttendanceAssumption
  <2>3. row[x] = Unwritten(x)
    BY <1>1
  <2> QED
    BY <2>1, <2>2, <2>3 DEF Unwritten
<1>3. \A c \in Cells : trail[c] = <<>>
  BY DEF SheetInit
<1>4. \A e \in Editors : editor[e] = Away
  BY DEF SheetInit
<1>5. SheetTypeOK
  BY <1>2, <1>3, <1>4 DEF SheetInit, SheetTypeOK
<1>6. ASSUME NEW c \in Cells PROVE TrailLeads(c)
  <2>1. Len(trail[c]) = 0
    BY <1>3
  <2>2. row[c] = Unwritten(c)
    BY <1>1 DEF Entries
  <2>3. row[c].value = Unmarked
    BY <2>2 DEF Unwritten
  <2> QED
    BY <2>1, <2>3 DEF TrailLeads, StatusBefore
<1> QED
  BY <1>4, <1>5, <1>6, TrailsLead DEF SheetInit, SheetInv, SheetShaped, EditorsSaw

LEMMA LookKeeps ==
  ASSUME SheetInv, NEW e \in Editors, NEW x \in Entries, NEW wanted \in Values(x), Look(e, x, wanted)
  PROVE  SheetInv'
<1> DEFINE new == Seen(x, wanted)
<1>1. editor' = [editor EXCEPT ![e] = new] /\ UNCHANGED <<row, trail, working, offered>>
  BY DEF Look
<1>2. /\ new.entry = x /\ new.value = row[x].value /\ new.revision = row[x].revision
      /\ new.wanted = wanted
  BY DEF Seen
<1> HIDE DEF new
<1>3. row[x].revision \in Nat
  BY DEF SheetInv, SheetTypeOK
<1>4. \A d \in Editors : editor'[d] = IF d = e THEN new ELSE editor[d]
  BY <1>1 DEF SheetInv, SheetShaped
<1>5. EditorsSaw'
  BY <1>1, <1>2, <1>3, <1>4 DEF SheetInv, EditorsSaw
<1>6. SheetTypeOK'
  BY <1>1, <1>2, <1>4 DEF SheetInv, SheetTypeOK
<1>7. (SheetShaped /\ TrailLeadsHere)'
  BY <1>1 DEF SheetInv, SheetShaped, TrailLeadsHere
<1> QED
  BY <1>5, <1>6, <1>7 DEF SheetInv

\* What a write does: its editor had seen what it replaces.
LEMMA WriteKeeps ==
  ASSUME SheetInv, NEW e \in Editors, NEW answered \in BOOLEAN, WriteEntry(e, answered)
  PROVE  /\ SheetInv'
         /\ \A y \in Entries : row'[y] # row[y] =>
              LET d == row'[y].by IN editor[d].entry = y /\ editor[d].value = row[y].value
<1> DEFINE x == editor[e].entry
           wanted == editor[e].wanted
           new == [value |-> wanted, revision |-> row[x].revision + 1, by |-> e]
           change == [previous |-> row[x].value, status |-> wanted, by |-> e]
           Changes == [previous: Statuses, status: Statuses, by: Editors]
<1>1. /\ x # Nobody /\ Current(e) /\ row[x].revision < MaxRevision
      /\ row' = [row EXCEPT ![x] = new]
      /\ trail' = IF x \notin Cells THEN trail ELSE [trail EXCEPT ![x] = Append(@, change)]
      /\ editor' = IF answered THEN [editor EXCEPT ![e] = Away] ELSE editor
      /\ UNCHANGED <<working, offered>>
  BY DEF WriteEntry, Writable
<1>2. /\ x \in Entries /\ wanted \in Values(x)
      /\ editor[e].revision = row[x].revision /\ editor[e].value = row[x].value
  <2>1. editor[e] # Away
    BY <1>1 DEF Away
  <2> QED
    BY <1>1, <2>1 DEF SheetInv, EditorsSaw, Current
<1>3. /\ row[x] \in [value: Values(x), revision: 0..MaxRevision, by: Editors \cup {Nobody}]
      /\ row[x].revision \in Nat
  BY <1>2 DEF SheetInv, SheetTypeOK
<1> HIDE DEF x, wanted
<1>4. \A y \in Entries : row'[y] = IF y = x THEN new ELSE row[y]
  BY <1>1, <1>2 DEF SheetInv, SheetShaped
<1>5. new \in [value: Values(x), revision: 0..MaxRevision, by: Editors \cup {Nobody}]
  BY <1>1, <1>2, <1>3, AttendanceAssumption
<1>6. \A d \in Editors : editor'[d] = Away \/ editor'[d] = editor[d]
  BY <1>1 DEF SheetInv, SheetShaped
<1>7. \A c \in Cells : trail'[c] = IF c = x THEN Append(trail[c], change) ELSE trail[c]
  BY <1>1 DEF SheetInv, SheetShaped
<1>8. /\ x \in Cells => change \in Changes
      /\ \A c \in Cells : trail[c] \in Seq(Changes)
  BY <1>2, <1>3 DEF Values, SheetInv, SheetTypeOK
<1> HIDE DEF Changes
<1>9. SheetShaped'
  <2>1. row' = [y \in Entries |-> row'[y]]
    BY <1>1 DEF SheetInv, SheetShaped
  <2>2. trail' = [c \in Cells |-> trail'[c]]
    BY <1>1 DEF SheetInv, SheetShaped
  <2>3. editor' = [d \in Editors |-> editor'[d]]
    BY <1>1 DEF SheetInv, SheetShaped
  <2> QED
    BY <2>1, <2>2, <2>3 DEF SheetShaped
<1>10. SheetTypeOK'
  <2>1. \A y \in Entries :
          row'[y] \in [value: Values(y), revision: 0..MaxRevision, by: Editors \cup {Nobody}]
    BY <1>4, <1>5 DEF SheetInv, SheetTypeOK
  <2>2. \A c \in Cells : trail'[c] \in Seq(Changes)
    <3> HIDE DEF change
    <3> TAKE c \in Cells
    <3>1. CASE c = x
      <4>1. trail'[c] = Append(trail[c], change) /\ trail[c] \in Seq(Changes) /\ change \in Changes
        BY <1>7, <1>8, <3>1
      <4> QED
        BY <4>1
    <3>2. CASE c # x
      BY <1>7, <1>8, <3>2
    <3> QED
      BY <3>1, <3>2
  <2> QED
    BY <1>1, <1>6, <2>1, <2>2 DEF SheetInv, SheetTypeOK, Away, Changes
<1>11. EditorsSaw'
  <2> SUFFICES ASSUME NEW d \in Editors, editor'[d] # Away
               PROVE  LET y == editor[d].entry IN
                      /\ y \in Entries /\ editor[d].wanted \in Values(y)
                      /\ editor[d].revision \in Nat /\ editor[d].revision <= row'[y].revision
                      /\ editor[d].revision = row'[y].revision => editor[d].value = row'[y].value
    BY <1>6 DEF EditorsSaw
  <2>1. /\ editor[d] # Away /\ editor[d].entry \in Entries
        /\ editor[d].wanted \in Values(editor[d].entry) /\ editor[d].revision \in Nat
        /\ editor[d].revision <= row[editor[d].entry].revision
        /\ editor[d].revision = row[editor[d].entry].revision
             => editor[d].value = row[editor[d].entry].value
    BY <1>6 DEF SheetInv, EditorsSaw
  <2>2. CASE editor[d].entry = x
    BY <1>3, <1>4, <2>1, <2>2
  <2>3. CASE editor[d].entry # x
    BY <1>4, <2>1, <2>3
  <2> QED
    BY <2>2, <2>3
<1>12. TrailLeadsHere'
  <2> SUFFICES ASSUME NEW c \in Cells PROVE TrailLeads(c)'
    BY DEF TrailLeadsHere, TrailLeads, StatusBefore
  <2>1. TrailLeads(c) /\ c \in Entries
    BY TrailsLead DEF SheetInv, Entries
  <2>2. CASE c # x
    BY <1>4, <1>7, <2>1, <2>2 DEF TrailLeads
  <2>3. CASE c = x
    <3> DEFINE old == trail[c]
    <3>1. old \in Seq(Changes) /\ Len(old) \in Nat /\ change \in Changes
      BY <1>8, <2>3
    <3>2. trail'[c] = Append(old, change)
      BY <1>7, <2>3
    <3>8. row'[c] = new /\ change.status = wanted /\ change.previous = row[c].value
      BY <1>4, <2>1, <2>3
    <3>9. row'[c].value = wanted
      BY <3>8
    <3> HIDE DEF change
    <3>3. /\ Len(trail'[c]) = Len(old) + 1 /\ trail'[c][Len(old) + 1] = change
          /\ \A i \in 1..Len(old) : trail'[c][i] = old[i]
      BY <3>1, <3>2
    <3>4. \A i \in 1..(Len(old) + 1) : StatusBefore(trail'[c], i) = StatusBefore(old, i)
      BY <3>1, <3>3 DEF StatusBefore
    <3>5. \A i \in 1..(Len(old) + 1) : trail'[c][i].previous = StatusBefore(old, i)
      <4> TAKE i \in 1..(Len(old) + 1)
      <4>1. CASE i = Len(old) + 1
        BY <2>1, <3>3, <3>8, <4>1 DEF TrailLeads
      <4>2. CASE i # Len(old) + 1
        <5>1. i \in 1..Len(old)
          BY <3>1, <4>2
        <5> QED
          BY <2>1, <3>3, <5>1 DEF TrailLeads
      <4> QED
        BY <4>1, <4>2
    <3>6. StatusBefore(trail'[c], Len(old) + 2) = wanted
      BY <3>1, <3>3, <3>8 DEF StatusBefore
    <3> HIDE DEF old
    <3>7. Len(trail'[c]) + 1 = Len(old) + 2
      BY <3>1, <3>3
    <3> QED
      BY <3>3, <3>4, <3>5, <3>6, <3>7, <3>9 DEF TrailLeads
  <2> QED
    BY <2>2, <2>3
<1>13. \A y \in Entries : row'[y] # row[y] =>
         LET d == row'[y].by IN editor[d].entry = y /\ editor[d].value = row[y].value
  <2> TAKE y \in Entries
  <2> HAVE row'[y] # row[y]
  <2>1. y = x /\ row'[y].by = e
    BY <1>4
  <2> QED
    BY <1>2, <2>1 DEF x
<1> QED
  BY <1>9, <1>10, <1>11, <1>12, <1>13 DEF SheetInv

LEMMA LeaveKeeps ==
  ASSUME SheetInv, NEW e \in Editors, Leave(e)
  PROVE  SheetInv'
<1>1. editor' = [editor EXCEPT ![e] = Away] /\ UNCHANGED <<row, trail, working, offered>>
  BY DEF Leave
<1>2. \A d \in Editors : editor'[d] = Away \/ editor'[d] = editor[d]
  BY <1>1 DEF SheetInv, SheetShaped
<1>3. SheetTypeOK' /\ SheetShaped'
  BY <1>1, <1>2 DEF SheetInv, SheetTypeOK, SheetShaped
<1>4. EditorsSaw' /\ TrailLeadsHere'
  BY <1>1, <1>2 DEF SheetInv, EditorsSaw, TrailLeadsHere
<1> QED
  BY <1>3, <1>4 DEF SheetInv

SeenStep ==
  \A x \in Entries : row'[x] # row[x] =>
    LET e == row'[x].by IN editor[e].entry = x /\ editor[e].value = row[x].value

LEMMA NextSheetInv == SheetInv /\ [SheetNext]_sheetVars => SheetInv' /\ SeenStep
<1> SUFFICES ASSUME SheetInv, [SheetNext]_sheetVars PROVE SheetInv' /\ SeenStep
  OBVIOUS
<1>1. ASSUME UNCHANGED <<row, trail, editor>>, working' \subseteq Cells, offered' \subseteq Products
      PROVE  SheetInv' /\ SeenStep
  BY <1>1 DEF SheetInv, SheetTypeOK, SheetShaped, EditorsSaw, TrailLeadsHere, SeenStep
<1>2. working \subseteq Cells /\ offered \subseteq Products
  BY DEF SheetInv, SheetTypeOK
<1>3. CASE UNCHANGED sheetVars
  BY <1>1, <1>2, <1>3 DEF sheetVars
<1>4. ASSUME NEW e \in Editors,
             \/ \E x \in Entries : \E wanted \in Values(x) : Look(e, x, wanted)
             \/ \E answered \in BOOLEAN : WriteEntry(e, answered)
             \/ Leave(e)
      PROVE  SheetInv' /\ SeenStep
  <2>1. CASE \E x \in Entries : \E wanted \in Values(x) : Look(e, x, wanted)
    BY <2>1, LookKeeps DEF Look, SeenStep
  <2>2. CASE \E answered \in BOOLEAN : WriteEntry(e, answered)
    BY <2>2, WriteKeeps DEF SeenStep
  <2>3. CASE Leave(e)
    BY <2>3, LeaveKeeps DEF Leave, SeenStep
  <2> QED
    BY <1>4, <2>1, <2>2, <2>3
<1>5. ASSUME NEW c \in Cells, Staffed(c) PROVE SheetInv' /\ SeenStep
  BY <1>1, <1>2, <1>5 DEF Staffed
<1>6. ASSUME NEW p \in Products, Archived(p) PROVE SheetInv' /\ SeenStep
  BY <1>1, <1>2, <1>6 DEF Archived
<1> QED
  BY <1>3, <1>4, <1>5, <1>6 DEF SheetNext

\* Nobody overwrites what they did not see, and the trail of a cell leads to what it says
\* (save_attendance, save_day).
THEOREM EditsAlwaysSeen == SheetSpec => EditsSeen
<1>1. SheetInv => TrailLeadsHere
  BY DEF SheetInv
<1>2. SheetInv /\ [SheetNext]_sheetVars => [SeenStep]_sheetVars
  BY NextSheetInv
<1> QED
  BY <1>1, <1>2, InitSheetInv, NextSheetInv, PTL DEF SheetSpec, EditsSeen, SeenStep

-----------------------------------------------------------------------------
(* Chat: ids are committed in their order.                                 *)

\* Everything stored, read or shown is at most the last message of the thread, and the
\* id that a request holds the lock with is beyond it.
InOrder ==
  /\ thread.last <= drawn
  /\ \A i \in Stored : i <= thread.last
  /\ \A a \in Apps : read[a] <= thread.last /\ app[a].shows \subseteq Stored
  /\ \A h \in Handlers : handler[h] # NotSending => handler[h].id = drawn /\ thread.last < drawn

\* The lock is held once.
OneSender ==
  \A g, h \in Handlers : handler[g] # NotSending /\ handler[h] # NotSending => g = h

ChatInv == ChatTypeOK /\ InOrder /\ OneSender /\ NoGap

LEMMA LeastExists ==
  ASSUME NEW S, S \subseteq Nat, S # {}
  PROVE  \E x \in S : \A y \in S : x =< y
<1>1. \E x \in S : \A y \in S : ~ (<<y, x>> \in OpToRel(<, Nat))
  BY NatLessThanWellFounded, WFMin
<1>2. \A x, y \in Nat : <<y, x>> \in OpToRel(<, Nat) <=> y < x
  BY DEF OpToRel
<1>3. PICK x \in S : \A y \in S : ~ (y < x)
  BY <1>1, <1>2, Zenon
<1> QED
  BY <1>3

\* A set of ids has a greatest one.
LEMMA GreatestId ==
  ASSUME NEW S, S \subseteq Ids, S # {}
  PROVE  Max(S) \in S /\ \A i \in S : i <= Max(S)
<1> DEFINE Below == {MaxIds - i : i \in S}
<1>1. MaxIds \in Nat /\ \A i \in S : i \in Nat /\ MaxIds - i \in Nat
  BY ChatAssumption DEF Ids
<1>2. Below \subseteq Nat /\ Below # {}
  BY <1>1
<1>3. PICK d \in Below : \A e \in Below : d <= e
  BY <1>2, LeastExists
<1>4. PICK m \in S : d = MaxIds - m
  BY <1>3
<1>5. \A i \in S : m >= i
  <2> TAKE i \in S
  <2>1. MaxIds - i \in Below
    OBVIOUS
  <2>2. MaxIds - m <= MaxIds - i
    BY <1>3, <1>4, <2>1
  <2> QED
    BY <1>1, <2>2
<1>6. Max(S) \in S /\ \A i \in S : Max(S) >= i
  BY <1>5 DEF Max
<1> QED
  BY <1>1, <1>6

\* Of a set of ids, the newest are those above some of its ids, the oldest those below.
LEMMA Pages ==
  ASSUME NEW S, S \subseteq Ids
  PROVE  /\ Newest(S) \subseteq S /\ Oldest(S) \subseteq S
         /\ \A i \in Newest(S), j \in S : i < j => j \in Newest(S)
         /\ \A i \in Oldest(S), j \in S : j < i => j \in Oldest(S)
<1> DEFINE Above(i) == {k \in S : k > i}
           Under(i) == {k \in S : k < i}
<1>1. IsFiniteSet(S) /\ \A i \in S : i \in Nat
  <2>1. IsFiniteSet(Ids)
    BY ChatAssumption, FS_Interval DEF Ids
  <2>2. IsFiniteSet(S)
    BY <2>1, FS_Subset
  <2>3. \A i \in S : i \in Nat
    BY ChatAssumption DEF Ids
  <2> QED
    BY <2>2, <2>3
<1>2. /\ Newest(S) = {i \in S : Cardinality(Above(i)) < Page}
      /\ Oldest(S) = {i \in S : Cardinality(Under(i)) < Page}
  BY DEF Newest, Oldest, Quantify
<1>3. \A i \in S : /\ IsFiniteSet(Above(i)) /\ Cardinality(Above(i)) \in Nat
                   /\ IsFiniteSet(Under(i)) /\ Cardinality(Under(i)) \in Nat
  <2> TAKE i \in S
  <2>1. Above(i) \subseteq S /\ Under(i) \subseteq S
    OBVIOUS
  <2> QED
    BY <1>1, <2>1, FS_Subset, FS_CardinalityType
<1>4. ASSUME NEW i \in S, NEW j \in S, i < j
      PROVE  /\ Cardinality(Above(j)) <= Cardinality(Above(i))
             /\ Cardinality(Under(i)) <= Cardinality(Under(j))
  <2>1. Above(j) \subseteq Above(i) /\ Under(i) \subseteq Under(j)
    BY <1>1, <1>4
  <2> HIDE DEF Above, Under
  <2> QED
    BY <1>3, <2>1, FS_Subset
<1>5. Page \in Nat
  BY ChatAssumption
<1> HIDE DEF Above, Under
<1> QED
  BY <1>2, <1>3, <1>4, <1>5

LEMMA ChatFacts ==
  ASSUME ChatInv
  PROVE  /\ Stored \subseteq Ids /\ Ids \subseteq Nat \ {0}
         /\ thread.last \in Nat /\ drawn \in Nat
         /\ \A a \in Apps : /\ app[a].shows \subseteq Stored /\ app[a].shows \subseteq Ids
                            /\ read[a] \in Nat /\ read[a] <= thread.last
<1>1. Stored \subseteq Ids
  BY DEF Stored
<1>2. Ids \subseteq Nat \ {0}
  BY ChatAssumption DEF Ids
<1>3. thread.last \in Nat /\ drawn \in Nat /\ \A a \in Apps : read[a] \in Nat
  BY ChatAssumption DEF ChatInv, ChatTypeOK, Thread
<1> QED
  BY <1>1, <1>2, <1>3 DEF ChatInv, InOrder

\* The cursor of an app.
LEMMA CursorFacts ==
  ASSUME ChatInv, NEW a \in Apps
  PROVE  /\ Cursor(a) \in Nat /\ Cursor(a) <= thread.last
         /\ app[a].shows # {} => Cursor(a) \in app[a].shows
         /\ \A i \in app[a].shows : i <= Cursor(a)
<1>1. CASE app[a].shows = {}
  BY <1>1, ChatFacts DEF Cursor
<1>2. CASE app[a].shows # {}
  <2>1. Cursor(a) = Max(app[a].shows)
    BY <1>2 DEF Cursor
  <2>2. /\ Max(app[a].shows) \in app[a].shows
        /\ \A i \in app[a].shows : i <= Max(app[a].shows)
    BY <1>2, ChatFacts, GreatestId
  <2>3. Max(app[a].shows) \in Stored
    BY <2>2, ChatFacts
  <2>4. Max(app[a].shows) <= thread.last
    BY <2>3 DEF ChatInv, InOrder
  <2>5. Max(app[a].shows) \in Nat
    BY <2>3, ChatFacts
  <2> QED
    BY <2>1, <2>2, <2>4, <2>5
<1> QED
  BY <1>1, <1>2

\* What an app shows has no gap.
Gapless(stored, shows) ==
  \A i \in stored : (\E j, m \in shows : j < i /\ i < m) => i \in shows

LEMMA NoGapMeans ==
  NoGap <=> /\ \A a \in Apps : Gapless(Stored, app[a].shows)
            /\ \A i, j \in Stored : i # j => message[i] # message[j]
BY DEF NoGap, Gapless

\* Steps after which only the screens differ.
LEMMA ScreensKeep ==
  ASSUME ChatInv, UNCHANGED <<message, drawn, handler>>,
         thread' \in Thread, thread'.last = thread.last,
         read' \in [Apps -> 0..MaxIds], \A a \in Apps : read'[a] <= thread.last,
         event' \in [Keys \cup {NoKey} -> {"NONE", "PENDING", "PUBLISHED"}],
         app' \in [Apps -> App],
         \A a \in Apps : app'[a].shows \subseteq Stored /\ Gapless(Stored, app'[a].shows)
  PROVE  ChatInv'
<1>1. Stored' = Stored
  BY DEF Stored
<1>2. ChatTypeOK'
  BY DEF ChatInv, ChatTypeOK
<1>3. InOrder'
  BY <1>1 DEF ChatInv, InOrder
<1>4. OneSender'
  BY DEF ChatInv, OneSender
<1>5. NoGap'
  BY <1>1, NoGapMeans DEF ChatInv, NoGap, Gapless
<1> QED
  BY <1>2, <1>3, <1>4, <1>5 DEF ChatInv

LEMMA OneScreen ==
  ASSUME ChatInv, NEW a \in Apps, NEW to \in App, to.shows \subseteq Stored, Gapless(Stored, to.shows),
         app' = [app EXCEPT ![a] = to], UNCHANGED <<rows, drawn, handler>>
  PROVE  ChatInv'
<1>1. app \in [Apps -> App] /\ \A b \in Apps : app[b].shows \subseteq Stored /\ Gapless(Stored, app[b].shows)
  BY NoGapMeans DEF ChatInv, ChatTypeOK, InOrder
<1>2. app' \in [Apps -> App] /\ \A b \in Apps : app'[b].shows \subseteq Stored /\ Gapless(Stored, app'[b].shows)
  BY <1>1
<1>3. /\ thread' \in Thread /\ thread'.last = thread.last
      /\ read' \in [Apps -> 0..MaxIds] /\ \A b \in Apps : read'[b] <= thread.last
      /\ event' \in [Keys \cup {NoKey} -> {"NONE", "PENDING", "PUBLISHED"}]
      /\ UNCHANGED <<message, drawn, handler>>
  BY DEF ChatInv, ChatTypeOK, InOrder, rows
<1> QED
  BY <1>2, <1>3, ScreensKeep

LEMMA OpenKeeps ==
  ASSUME ChatInv, NEW a \in Apps, Open(a)
  PROVE  ChatInv'
<1> DEFINE to == [open |-> TRUE, shows |-> Newest(Stored), stale |-> FALSE, revision |-> thread.revision]
<1>1. app' = [app EXCEPT ![a] = to] /\ UNCHANGED <<rows, drawn, handler>>
  BY DEF Open
<1>2. Newest(Stored) \subseteq Stored /\ \A i \in Newest(Stored), j \in Stored : i < j => j \in Newest(Stored)
  BY ChatFacts, Pages
<1>3. to \in App /\ to.shows = Newest(Stored)
  BY <1>2, ChatFacts DEF App, ChatInv, ChatTypeOK, Thread
<1>4. Gapless(Stored, Newest(Stored))
  BY <1>2 DEF Gapless
<1> HIDE DEF to
<1> QED
  BY <1>1, <1>2, <1>3, <1>4, OneScreen

LEMMA CloseKeeps ==
  ASSUME ChatInv, NEW a \in Apps, Close(a)
  PROVE  ChatInv'
<1>1. app' = [app EXCEPT ![a] = Closed] /\ UNCHANGED <<rows, drawn, handler>>
  BY DEF Close
<1>2. Closed \in App /\ Closed.shows = {}
  BY DEF Closed, App
<1> QED
  BY <1>1, <1>2, OneScreen DEF Gapless

LEMMA ScrollBackKeeps ==
  ASSUME ChatInv, NEW a \in Apps, ScrollBack(a)
  PROVE  ChatInv'
<1> DEFINE shows == app[a].shows
           older == {i \in Stored : \A j \in shows : i < j}
           more == Newest(older)
           to == [app[a] EXCEPT !.shows = shows \cup more]
<1>1. app' = [app EXCEPT ![a] = to] /\ UNCHANGED <<rows, drawn, handler>>
  BY DEF ScrollBack
<1>2. app[a] \in App /\ shows \subseteq Stored /\ Stored \subseteq Ids /\ Ids \subseteq Nat \ {0}
  BY ChatFacts DEF ChatInv, ChatTypeOK
<1>3. more \subseteq older /\ \A i \in more, j \in older : i < j => j \in more
  BY <1>2, Pages
<1>4. to = [app[a] EXCEPT !.shows = shows \cup more]
  OBVIOUS
<1>5. Gapless(Stored, shows)
  BY NoGapMeans DEF ChatInv
<1> HIDE DEF more, to
<1>6. Gapless(Stored, shows \cup more)
  <2> SUFFICES ASSUME NEW i \in Stored, NEW j \in shows \cup more, NEW m \in shows \cup more, j < i, i < m
               PROVE  i \in shows \cup more
    BY DEF Gapless
  <2>1. i \in Nat /\ j \in Nat /\ m \in Nat
    BY <1>2, <1>3
  <2>2. CASE i \in older
    <3>1. j \notin shows
      BY <2>1, <2>2, <1>2
    <3> QED
      BY <1>3, <2>2, <3>1
  <2>3. CASE i \notin older
    <3>1. PICK s \in shows : ~(i < s)
      BY <2>3
    <3>2. s \in Nat /\ s <= i
      <4>1. s \in Nat
        <5>1. s \in shows
          OBVIOUS
        <5> HIDE DEF shows
        <5> QED
          BY <1>2, <5>1
      <4> QED
        BY <2>1, <3>1, <4>1
    <3>3. m \in shows
      <4>1. m \in more => m < s
        BY <1>3, <3>1
      <4> QED
        BY <2>1, <3>2, <4>1
    <3>4. CASE s = i
      BY <3>4
    <3>5. CASE s # i
      BY <1>5, <2>1, <3>2, <3>3, <3>5 DEF Gapless
    <3> QED
      BY <3>4, <3>5
  <2> QED
    BY <2>2, <2>3
<1>7. shows \cup more \subseteq Stored
  BY <1>2, <1>3
<1>8. to \in App /\ to.shows = shows \cup more
  BY <1>2, <1>4, <1>7 DEF App
<1> QED
  BY <1>1, <1>6, <1>7, <1>8, OneScreen

LEMMA FetchKeeps ==
  ASSUME ChatInv, NEW a \in Apps, Fetch(a)
  PROVE  ChatInv'
<1> DEFINE shows == app[a].shows
           newer == {i \in Stored : i > Cursor(a)}
           more == NextPage(newer)
           stale == newer # more
           to == [app[a] EXCEPT !.shows = shows \cup more, !.stale = stale]
<1>1. app' = [app EXCEPT ![a] = to] /\ UNCHANGED <<rows, drawn, handler>>
  BY ChatFacts DEF Fetch, ChatInv, ChatTypeOK
<1>2. app[a] \in App /\ shows \subseteq Stored /\ Stored \subseteq Ids /\ Ids \subseteq Nat \ {0}
  BY ChatFacts DEF ChatInv, ChatTypeOK
<1>3. more \subseteq newer /\ \A i \in more, j \in newer : j < i => j \in more
  BY <1>2, Pages DEF NextPage
<1>4. to = [app[a] EXCEPT !.shows = shows \cup more, !.stale = stale] /\ stale \in BOOLEAN
  OBVIOUS
<1>5. Gapless(Stored, shows)
  BY NoGapMeans DEF ChatInv
<1> HIDE DEF more, to, stale
<1>6. Gapless(Stored, shows \cup more)
  <2> SUFFICES ASSUME NEW i \in Stored, NEW j \in shows \cup more, NEW m \in shows \cup more, j < i, i < m
               PROVE  i \in shows \cup more
    BY DEF Gapless
  <2>1. /\ i \in Nat \ {0} /\ j \in Nat /\ m \in Nat /\ Cursor(a) \in Nat
        /\ shows # {} => Cursor(a) \in shows
        /\ \A s \in shows : s <= Cursor(a)
    BY <1>2, <1>3, CursorFacts
  <2>2. CASE i > Cursor(a)
    <3>1. i \in newer
      BY <2>2
    <3>2. m \notin shows
      <4>1. m \in shows => m <= Cursor(a)
        BY <2>1
      <4> QED
        BY <2>1, <2>2, <4>1
    <3>3. m \in more
      BY <3>2
    <3> QED
      BY <1>3, <3>1, <3>3
  <2>3. CASE ~(i > Cursor(a))
    <3>1. j \in shows
      BY <1>3, <2>1, <2>3
    <3>2. Cursor(a) \in shows
      BY <2>1, <3>1
    <3>3. CASE i = Cursor(a)
      BY <3>2, <3>3
    <3>4. CASE i # Cursor(a)
      BY <1>5, <2>1, <2>3, <3>1, <3>2, <3>4 DEF Gapless
    <3> QED
      BY <3>3, <3>4
  <2> QED
    BY <2>2, <2>3
<1>7. shows \cup more \subseteq Stored
  BY <1>2, <1>3
<1>8. to \in App /\ to.shows = shows \cup more
  BY <1>2, <1>4, <1>7 DEF App
<1> QED
  BY <1>1, <1>6, <1>7, <1>8, OneScreen

LEMMA HeartbeatKeeps ==
  ASSUME ChatInv, NEW a \in Apps, Heartbeat(a)
  PROVE  ChatInv'
<1> DEFINE to == [app[a] EXCEPT !.revision = thread.revision, !.stale = TRUE]
<1>1. app' = [app EXCEPT ![a] = to] /\ UNCHANGED <<rows, drawn, handler>>
  BY DEF Heartbeat, ChatInv, ChatTypeOK
<1>2. app[a] \in App /\ thread.revision \in Nat /\ app[a].shows \subseteq Stored
  BY ChatFacts DEF ChatInv, ChatTypeOK, Thread
<1>3. to = [app[a] EXCEPT !.revision = thread.revision, !.stale = TRUE]
  OBVIOUS
<1> HIDE DEF to
<1>4. to \in App /\ to.shows = app[a].shows
  BY <1>2, <1>3 DEF App
<1>5. Gapless(Stored, app[a].shows)
  BY NoGapMeans DEF ChatInv
<1> QED
  BY <1>1, <1>2, <1>4, <1>5, OneScreen

LEMMA MarkReadKeeps ==
  ASSUME ChatInv, NEW a \in Apps, NEW i \in Ids, MarkRead(a, i)
  PROVE  ChatInv'
<1> DEFINE upto == IF i < thread.last THEN i ELSE thread.last
<1>1. /\ read' = [read EXCEPT ![a] = upto]
      /\ thread' = [thread EXCEPT !.revision = thread.revision + 1]
      /\ event' = [event EXCEPT ![NoKey] = "PENDING"]
      /\ UNCHANGED <<message, drawn, handler, app>>
  BY DEF MarkRead
<1>2. thread \in Thread /\ thread.last \in 0..MaxIds /\ thread.last \in Nat
  BY ChatFacts DEF ChatInv, ChatTypeOK, Thread
<1>3. upto \in 0..MaxIds /\ upto <= thread.last
  BY <1>2, ChatAssumption, ChatFacts DEF Ids
<1> HIDE DEF upto
<1>4. thread' \in Thread /\ thread'.last = thread.last
  BY <1>1, <1>2 DEF Thread
<1>5. read' \in [Apps -> 0..MaxIds] /\ \A b \in Apps : read'[b] <= thread.last
  BY <1>1, <1>3, ChatFacts DEF ChatInv, ChatTypeOK
<1>6. event' \in [Keys \cup {NoKey} -> {"NONE", "PENDING", "PUBLISHED"}]
  BY <1>1 DEF ChatInv, ChatTypeOK
<1>7. app' \in [Apps -> App] /\ \A b \in Apps : app'[b].shows \subseteq Stored /\ Gapless(Stored, app'[b].shows)
  BY <1>1, NoGapMeans, ChatFacts DEF ChatInv, ChatTypeOK
<1> QED
  BY <1>1, <1>4, <1>5, <1>6, <1>7, ScreensKeep

LEMMA PublishKeeps ==
  ASSUME ChatInv, NEW k \in DOMAIN event, NEW reached \in SUBSET {a \in Apps : app[a].open},
         NEW recorded \in BOOLEAN, Publish(k, reached, recorded)
  PROVE  ChatInv'
<1>1. /\ event' = IF recorded THEN [event EXCEPT ![k] = "PUBLISHED"] ELSE event
      /\ app' = [a \in Apps |-> IF a \in reached THEN [app[a] EXCEPT !.stale = TRUE] ELSE app[a]]
      /\ UNCHANGED <<message, thread, read, drawn, handler>>
  BY DEF Publish
<1>2. event' \in [Keys \cup {NoKey} -> {"NONE", "PENDING", "PUBLISHED"}]
  BY <1>1 DEF ChatInv, ChatTypeOK
<1>3. /\ thread' \in Thread /\ thread'.last = thread.last
      /\ read' \in [Apps -> 0..MaxIds] /\ \A a \in Apps : read'[a] <= thread.last
  BY <1>1, ChatFacts DEF ChatInv, ChatTypeOK
<1>4. ASSUME NEW a \in Apps PROVE app'[a] \in App /\ app'[a].shows = app[a].shows
  BY <1>1 DEF ChatInv, ChatTypeOK, App
<1>5. app' \in [Apps -> App]
  BY <1>1, <1>4
<1>6. \A a \in Apps : app'[a].shows \subseteq Stored /\ Gapless(Stored, app'[a].shows)
  BY <1>4, NoGapMeans, ChatFacts DEF ChatInv
<1> QED
  BY <1>1, <1>2, <1>3, <1>5, <1>6, ScreensKeep

LEMMA InsertKeeps ==
  ASSUME ChatInv, NEW h \in Handlers, NEW k \in Keys, Insert(h, k)
  PROVE  ChatInv'
<1>1. /\ \A g \in Handlers : handler[g] = NotSending
      /\ drawn < MaxIds /\ drawn' = drawn + 1
      /\ handler' = [handler EXCEPT ![h] = [key |-> k, id |-> drawn']]
      /\ UNCHANGED <<message, thread, read, event, app>>
  BY DEF Insert, Lockable, rows
<1>2. thread.last \in Nat /\ drawn \in Nat /\ thread.last <= drawn
  BY ChatFacts DEF ChatInv, InOrder
<1>3. /\ handler' \in [Handlers -> [key: Keys \cup {NoKey}, id: 0..MaxIds]]
      /\ handler'[h].id = drawn'
      /\ \A g \in Handlers : g # h => handler'[g] = NotSending
  <2>1. drawn' \in 0..MaxIds
    BY <1>1, <1>2, ChatAssumption
  <2> QED
    BY <1>1, <2>1 DEF ChatInv, ChatTypeOK
<1>4. Stored' = Stored
  BY <1>1 DEF Stored
<1>5. drawn' \in 0..MaxIds /\ thread.last < drawn'
  BY <1>1, <1>2, ChatAssumption
<1>6. ChatTypeOK'
  BY <1>1, <1>3, <1>5 DEF ChatInv, ChatTypeOK
<1>7. InOrder'
  BY <1>1, <1>2, <1>3, <1>4, <1>5 DEF ChatInv, InOrder
<1>8. OneSender'
  BY <1>3 DEF OneSender
<1>9. NoGap'
  BY <1>1, <1>4 DEF ChatInv, NoGap
<1> QED
  BY <1>6, <1>7, <1>8, <1>9 DEF ChatInv

LEMMA AbortKeeps ==
  ASSUME ChatInv, NEW h \in Handlers, Abort(h)
  PROVE  ChatInv'
<1>1. handler' = [handler EXCEPT ![h] = NotSending] /\ UNCHANGED <<message, thread, read, event, drawn, app>>
  BY DEF Abort, rows
<1>2. NotSending \in [key: Keys \cup {NoKey}, id: 0..MaxIds]
  BY ChatAssumption DEF NotSending
<1>3. /\ handler' \in [Handlers -> [key: Keys \cup {NoKey}, id: 0..MaxIds]]
      /\ \A g \in Handlers : handler'[g] # NotSending => handler'[g] = handler[g]
  BY <1>1, <1>2 DEF ChatInv, ChatTypeOK
<1>4. Stored' = Stored
  BY <1>1 DEF Stored
<1>5. ChatTypeOK'
  BY <1>1, <1>3 DEF ChatInv, ChatTypeOK
<1>6. InOrder'
  BY <1>1, <1>3, <1>4 DEF ChatInv, InOrder
<1>7. OneSender'
  BY <1>3 DEF ChatInv, OneSender
<1>8. NoGap'
  BY <1>1, <1>4 DEF ChatInv, NoGap
<1> QED
  BY <1>5, <1>6, <1>7, <1>8 DEF ChatInv

\* A message is stored beyond everything that is stored, read or shown.
LEMMA CommitFacts ==
  ASSUME ChatInv, NEW h \in Handlers, Commit(h)
  PROVE  LET k == handler[h].key
             i == handler[h].id IN
         /\ k \in Keys /\ i \in Ids /\ i = drawn /\ thread.last < i /\ Unsent(k)
         /\ message' = [message EXCEPT ![i] = k]
         /\ thread' = [last |-> i, revision |-> thread.revision + 1]
         /\ event' = [event EXCEPT ![k] = "PENDING"]
         /\ handler' = [handler EXCEPT ![h] = NotSending]
         /\ UNCHANGED <<drawn, read, app>>
         /\ Stored' = Stored \cup {i} /\ i \notin Stored
<1> DEFINE k == handler[h].key
           i == handler[h].id
<1>1. /\ k # NoKey /\ Unsent(k)
      /\ message' = [message EXCEPT ![i] = k]
      /\ thread' = [last |-> i, revision |-> thread.revision + 1]
      /\ event' = [event EXCEPT ![k] = "PENDING"]
      /\ handler' = [handler EXCEPT ![h] = NotSending]
      /\ UNCHANGED <<drawn, read, app>>
  BY DEF Commit, Moved
<1>2. handler[h] # NotSending
  BY <1>1 DEF NotSending
<1>3. i = drawn /\ thread.last < i /\ thread.last \in Nat /\ drawn \in 0..MaxIds
  BY <1>2, ChatFacts DEF ChatInv, InOrder, ChatTypeOK
<1>4. i \in Ids
  BY <1>3, ChatAssumption DEF Ids
<1>5. k \in Keys
  BY <1>1 DEF ChatInv, ChatTypeOK
<1>6. i \notin Stored
  <2>1. i \in Stored => i <= thread.last
    BY DEF ChatInv, InOrder
  <2>2. i \in Nat
    BY <1>4, ChatFacts
  <2> QED
    BY <1>3, <2>1, <2>2
<1> HIDE DEF i, k
<1>7. \A j \in Ids : message'[j] = IF j = i THEN k ELSE message[j]
  BY <1>1 DEF ChatInv, ChatTypeOK
<1>8. Stored' = Stored \cup {i}
  BY <1>4, <1>5, <1>7, ChatAssumption DEF Stored
<1> QED
  BY <1>1, <1>3, <1>4, <1>5, <1>6, <1>8 DEF i, k

LEMMA CommitKeeps ==
  ASSUME ChatInv, NEW h \in Handlers, Commit(h)
  PROVE  ChatInv'
<1> DEFINE k == handler[h].key
           i == handler[h].id
<1>1. /\ k \in Keys /\ i \in Ids /\ i = drawn /\ thread.last < i /\ Unsent(k)
      /\ message' = [message EXCEPT ![i] = k]
      /\ thread' = [last |-> i, revision |-> thread.revision + 1]
      /\ event' = [event EXCEPT ![k] = "PENDING"]
      /\ handler' = [handler EXCEPT ![h] = NotSending]
      /\ UNCHANGED <<drawn, read, app>>
      /\ Stored' = Stored \cup {i} /\ i \notin Stored
  BY CommitFacts
<1>2. handler[h] # NotSending
  BY <1>1, ChatAssumption DEF NotSending
<1> HIDE DEF i, k
<1>3. /\ i \in Nat \ {0} /\ i \in 0..MaxIds /\ thread.last \in Nat /\ Stored \subseteq Nat
      /\ \A a \in Apps : read[a] \in Nat
  BY <1>1, ChatFacts, ChatAssumption DEF Ids
<1>4. thread'.last = i
  BY <1>1
<1>5. \A g \in Handlers : handler'[g] = NotSending
  BY <1>1, <1>2 DEF ChatInv, OneSender, ChatTypeOK
<1>6. ChatTypeOK'
  <2>1. message' \in [Ids -> Keys \cup {NoKey}]
    BY <1>1 DEF ChatInv, ChatTypeOK
  <2>2. thread' \in Thread
    BY <1>1, <1>3 DEF ChatInv, ChatTypeOK, Thread
  <2>3. event' \in [Keys \cup {NoKey} -> {"NONE", "PENDING", "PUBLISHED"}]
    BY <1>1 DEF ChatInv, ChatTypeOK
  <2>4. NotSending \in [key: Keys \cup {NoKey}, id: 0..MaxIds]
    BY ChatAssumption DEF NotSending
  <2>5. handler' \in [Handlers -> [key: Keys \cup {NoKey}, id: 0..MaxIds]]
    BY <1>1, <2>4 DEF ChatInv, ChatTypeOK
  <2> QED
    BY <1>1, <2>1, <2>2, <2>3, <2>5 DEF ChatInv, ChatTypeOK
<1>7. InOrder'
  <2>1. thread'.last <= drawn'
    BY <1>1, <1>3, <1>4
  <2>2. \A j \in Stored' : j <= thread'.last
    BY <1>1, <1>3, <1>4 DEF ChatInv, InOrder
  <2>3. \A a \in Apps : read'[a] <= thread'.last /\ app'[a].shows \subseteq Stored'
    BY <1>1, <1>3, <1>4 DEF ChatInv, InOrder
  <2> QED
    BY <1>5, <2>1, <2>2, <2>3 DEF InOrder
<1>8. OneSender'
  BY <1>5 DEF OneSender
<1>9. NoGap'
  <2>1. \A j \in Stored : message'[j] = message[j] /\ message[j] # k
    BY <1>1 DEF Unsent, Stored, ChatInv, ChatTypeOK
  <2>2. message'[i] = k
    BY <1>1 DEF ChatInv, ChatTypeOK
  <2>3. \A j, m \in Stored' : j # m => message'[j] # message'[m]
    BY <1>1, <2>1, <2>2, NoGapMeans DEF ChatInv
  <2>4. ASSUME NEW a \in Apps PROVE Gapless(Stored', app'[a].shows)
    <3>1. app'[a] = app[a] /\ Gapless(Stored, app[a].shows)
      BY <1>1, NoGapMeans DEF ChatInv
    <3>2. \A m \in app[a].shows : m <= thread.last /\ m \in Nat
      BY <1>3 DEF ChatInv, InOrder
    <3>3. \A m \in app[a].shows : ~(i < m)
      BY <1>1, <1>3, <3>2
    <3> QED
      BY <1>1, <3>1, <3>3 DEF Gapless
  <2> QED
    BY <2>3, <2>4 DEF NoGap, Gapless
<1> QED
  BY <1>6, <1>7, <1>8, <1>9 DEF ChatInv

LEMMA ChatInitInv == ChatInit => ChatInv
<1> SUFFICES ASSUME ChatInit PROVE ChatInv
  OBVIOUS
<1>1. MaxIds \in Nat /\ 0 \in 0..MaxIds
  BY ChatAssumption
<1>2. ChatTypeOK
  BY <1>1 DEF ChatInit, ChatTypeOK, Thread, App, Closed, NotSending
<1>3. Stored = {}
  BY DEF ChatInit, Stored
<1>4. InOrder /\ OneSender /\ NoGap
  BY <1>1, <1>3 DEF ChatInit, InOrder, OneSender, NoGap, Closed
<1> QED
  BY <1>2, <1>4 DEF ChatInv

LEMMA ChatNextInv == ChatInv /\ [ChatNext]_chatVars => ChatInv'
<1> SUFFICES ASSUME ChatInv, [ChatNext]_chatVars PROVE ChatInv'
  OBVIOUS
<1>1. CASE SendStep
  BY <1>1, CommitKeeps, AbortKeeps, InsertKeeps DEF SendStep
<1>2. ASSUME NEW a \in Apps, AppStep(a) PROVE ChatInv'
  <2>1. CASE Open(a)
    BY <2>1, OpenKeeps
  <2>2. CASE Close(a)
    BY <2>2, CloseKeeps
  <2>3. CASE ScrollBack(a)
    BY <2>3, ScrollBackKeeps
  <2>4. CASE Fetch(a)
    BY <2>4, FetchKeeps
  <2>5. CASE Heartbeat(a)
    BY <2>5, HeartbeatKeeps
  <2>6. CASE \E i \in Ids : MarkRead(a, i)
    BY <2>6, MarkReadKeeps
  <2> QED
    BY <1>2, <2>1, <2>2, <2>3, <2>4, <2>5, <2>6 DEF AppStep
<1>3. ASSUME NEW k \in DOMAIN event, NEW reached \in SUBSET {a \in Apps : app[a].open},
             NEW recorded \in BOOLEAN, Publish(k, reached, recorded)
      PROVE  ChatInv'
  BY <1>3, PublishKeeps
<1>4. CASE UNCHANGED chatVars
  <2>1. UNCHANGED <<message, thread, read, event, drawn, handler, app>>
    BY <1>4 DEF chatVars, rows
  <2>2. Stored' = Stored
    BY <2>1 DEF Stored
  <2> QED
    BY <2>1, <2>2 DEF ChatInv, ChatTypeOK, InOrder, OneSender, NoGap
<1> QED
  BY <1>1, <1>2, <1>3, <1>4 DEF ChatNext

\* The step of NewIsUnread.
NewStep ==
  \A i \in Ids : message[i] = NoKey /\ message'[i] # NoKey =>
    /\ \A a \in Apps : i > read[a] /\ i > Cursor(a)
    /\ \A j \in Stored : thread'.last > j

LEMMA NewSteps ==
  ASSUME ChatInv, [ChatNext]_chatVars
  PROVE  [NewStep]_chatVars
<1> SUFFICES ASSUME NEW i \in Ids, message[i] = NoKey, message'[i] # NoKey
             PROVE  /\ \A a \in Apps : i > read[a] /\ i > Cursor(a)
                    /\ \A j \in Stored : thread'.last > j
  BY DEF NewStep
<1>1. message' # message
  OBVIOUS
<1>2. PICK h \in Handlers : Commit(h)
  BY <1>1 DEF ChatNext, SendStep, AppStep, Insert, Abort, Open, Close, ScrollBack, Fetch, Heartbeat,
              MarkRead, Publish, rows, chatVars
<1>3. i = handler[h].id /\ thread.last < i /\ thread'.last = i
  BY <1>2, CommitFacts DEF ChatInv, ChatTypeOK
<1>4. ASSUME NEW a \in Apps PROVE i > read[a] /\ i > Cursor(a)
  <2>1. /\ read[a] \in Nat /\ read[a] <= thread.last /\ thread.last \in Nat /\ i \in Nat
        /\ Cursor(a) \in Nat /\ Cursor(a) <= thread.last
    BY ChatFacts, CursorFacts
  <2> QED
    BY <1>3, <2>1
<1>5. ASSUME NEW j \in Stored PROVE thread'.last > j
  <2>1. j \in Nat /\ j <= thread.last /\ thread.last \in Nat /\ i \in Nat
    BY ChatFacts DEF ChatInv, InOrder
  <2> QED
    BY <1>3, <2>1
<1> QED
  BY <1>4, <1>5

\* Messages come in one order for everybody, though ids are drawn before the messages are
\* committed and requests fail in between: no app has a gap however pages and events
\* interleave, and a new message is beyond what anybody has read or been shown
\* (send_message, history, mark_read).
THEOREM AlwaysOneOrder == ChatSpec => OneOrder
<1>1. ChatInv => NoGap
  BY DEF ChatInv
<1>2. ChatInv /\ [ChatNext]_chatVars => [NewStep]_chatVars
  BY NewSteps
<1> QED
  BY <1>1, <1>2, ChatInitInv, ChatNextInv, PTL DEF ChatSpec, OneOrder, NewIsUnread, NewStep
=============================================================================
