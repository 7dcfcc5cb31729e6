----------------------------- MODULE TradingProofs -----------------------------
(***************************************************************************)
(* Proofs about the parts of the web client around what was traded, for    *)
(* any pages, executions, prices, pipelines and runs, and any number of    *)
(* logins, requests, failures and timeouts.  Each part first, with its own *)
(* specification, and then the parts together.                             *)
(*                                                                         *)
(* None of the properties is inductive.  The invariants add where they may *)
(* come from:                                                              *)
(*   session        a second 401, or a refused login, could find the user  *)
(*                  on another public page with the old address: the       *)
(*                  address is kept on the login page only;                *)
(*   list           what comes next may be in an answer in flight: no      *)
(*                  answer names an execution twice;                       *)
(*   dialog         an answer may come after the client gave up: whatever  *)
(*                  it says was done was booked, and the execution exists; *)
(*   approval page  one answer at most is on its way, and it is true;      *)
(*   backtests      what is not shown yet is on its way: the list of runs, *)
(*                  or the details and the report of the selected run.     *)
(***************************************************************************)
EXTENDS Trading, SequenceTheorems, FiniteSetTheorems, WellFoundedInduction, TLAPS

-------------------------------------------------------------------------------
(* The session                                                             *)

\* The address of the page on which a session ended is known on the login page only.
EndedOnLogin == expiredOn # "none" => route = "login" /\ returnUrl = expiredOn

\* A login page has somewhere to go, and that is not the login page.
HasReturn == route = "login" => returnUrl \in Pages \ {"login"}

SessionInv == SessionTypeOK /\ ProtectedNeedsToken /\ EndedOnLogin /\ HasReturn

\* Two facts on the sets of pages that the steps below need.
LEMMA PageFacts ==
  /\ Home \in Pages \ {"login"} /\ PublicPages \cap ProtectedPages = {}
  /\ "none" \notin ProtectedPages /\ "login" \in Pages /\ "landing" \in Pages
  /\ 0 \in Tokens
BY SessionAssumption DEF Pages, PublicPages, Tokens

LEMMA SessionInitially == SessionInit => SessionInv
<1> SUFFICES ASSUME SessionInit PROVE SessionInv
  OBVIOUS
<1>1. token \in Tokens /\ logins \in Tokens
  BY SessionAssumption DEF SessionInit, Tokens
<1>2. SessionTypeOK
  BY <1>1, PageFacts DEF SessionInit, SessionTypeOK
<1>3. ProtectedNeedsToken /\ EndedOnLogin /\ HasReturn
  BY PageFacts DEF SessionInit, ProtectedNeedsToken, EndedOnLogin, HasReturn, PublicPages
<1> QED
  BY <1>2, <1>3 DEF SessionInv

\* Whatever page is asked for, the guard leads to one that may be open.
LEMMA Guarded ==
  ASSUME SessionInv, NEW p \in Pages, NEW from \in Pages \ {"login"}, NavigateTo(p, from),
         token' = token
  PROVE  /\ route' \in Pages /\ returnUrl' \in Pages \cup {"none"}
         /\ loginError' \in BOOLEAN /\ ProtectedNeedsToken' /\ HasReturn'
<1>1. CASE AuthGuard(p)
  BY <1>1, PageFacts DEF SessionInv, SessionTypeOK, NavigateTo, MountLogin, AuthGuard,
     IsAuthenticated, ProtectedNeedsToken, HasReturn
<1>2. CASE ~AuthGuard(p)
  BY <1>2, PageFacts DEF SessionInv, SessionTypeOK, NavigateTo, MountLogin, AuthGuard,
     ProtectedNeedsToken, HasReturn, PublicPages
<1> QED
  BY <1>1, <1>2

\* A 401: the session is over, and the login page knows where the user was.
LEMMA Returned ==
  ASSUME SessionInv, Unauthorized
  PROVE  /\ token' \in Tokens /\ currentUser' \in Tokens /\ authenticated' \in BOOLEAN
         /\ route' \in Pages /\ returnUrl' \in Pages \cup {"none"}
         /\ loginError' \in BOOLEAN /\ expiredOn' \in ProtectedPages \cup {"none"}
         /\ ProtectedNeedsToken' /\ EndedOnLogin' /\ HasReturn'
<1>1. route' = "login" /\ "login" \notin ProtectedPages
  BY PageFacts DEF Unauthorized, PublicPages
<1>2. EndedOnLogin'
  BY <1>1 DEF SessionInv, EndedOnLogin, Unauthorized, MountLogin
<1> QED
  BY <1>1, <1>2, PageFacts
     DEF SessionInv, SessionTypeOK, Unauthorized, Logout, MountLogin, ProtectedNeedsToken, HasReturn

LEMMA SessionStep == SessionInv /\ [SessionNext]_sessionVars => SessionInv'
<1> SUFFICES ASSUME SessionInv, [SessionNext]_sessionVars PROVE SessionInv'
  OBVIOUS
<1> USE DEF SessionInv, HasReturn
<1>1. CASE Navigate
  <2>1. PICK p \in Pages \ {route} : NavigateTo(p, Home)
    BY <1>1 DEF Navigate
  <2>2. route' \in Pages /\ returnUrl' \in Pages \cup {"none"} /\ loginError' \in BOOLEAN
          /\ ProtectedNeedsToken' /\ HasReturn'
    BY <1>1, <2>1, Guarded, PageFacts DEF Navigate, authVars
  <2> QED
    BY <1>1, <2>2 DEF Navigate, authVars, SessionTypeOK, EndedOnLogin
<1>2. CASE Submit
  <2>1. logins' \in Tokens \ {0}
    BY <1>2, SessionAssumption DEF Submit, SessionTypeOK, Tokens
  <2>2. submitted' \subseteq [n : Tokens \ {0}, goTo : Pages \ {"login"}]
    BY <1>2, <2>1, PageFacts DEF Submit, SessionTypeOK
  <2> QED
    BY <1>2, <2>1, <2>2
       DEF Submit, authVars, SessionTypeOK, ProtectedNeedsToken, IsAuthenticated, EndedOnLogin
<1>3. ASSUME NEW s \in submitted, LoginAnswered(s) PROVE SessionInv'
  <2>1. s.n \in Tokens \ {0} /\ s.goTo \in Pages \cup {"none"}
    BY <1>3 DEF SessionTypeOK
  <2> QED
    BY <1>3, <2>1 DEF LoginAnswered, SessionTypeOK, ProtectedNeedsToken, IsAuthenticated,
                      EndedOnLogin
<1>4. ASSUME NEW s \in submitted, LoginRefused(s) PROVE SessionInv'
  <2>1. route' = "login" /\ "login" \notin ProtectedPages
    BY <1>4, PageFacts DEF LoginRefused, PublicPages
  <2>2. EndedOnLogin'
    BY <1>4, <2>1 DEF LoginRefused, EndedOnLogin
  <2> QED
    BY <1>4, <2>1, <2>2, PageFacts
       DEF LoginRefused, Logout, SessionTypeOK, ProtectedNeedsToken
<1>5. ASSUME NEW s \in submitted, LoginFails(s) PROVE SessionInv'
  BY <1>5 DEF LoginFails, authVars, SessionTypeOK, ProtectedNeedsToken, IsAuthenticated,
              EndedOnLogin
<1>6. CASE RequestAnswered
  <2>1. PICK t \in requests : /\ requests' = requests \ {t}
                              /\ IF t \in valid
                                   THEN UNCHANGED <<pageOfSession, authVars, expiredOn>>
                                   ELSE Unauthorized
    BY <1>6 DEF RequestAnswered
  <2>2. CASE t \in valid
    BY <1>6, <2>1, <2>2 DEF RequestAnswered, pageOfSession, authVars, SessionTypeOK,
       ProtectedNeedsToken, IsAuthenticated, EndedOnLogin
  <2>3. CASE t \notin valid
    BY <1>6, <2>1, <2>3, Returned DEF RequestAnswered, SessionTypeOK
  <2> QED
    BY <2>2, <2>3
<1>7. CASE MeAnswered
  <2>1. PICK t \in meRequests :
          /\ meRequests' = meRequests \ {t}
          /\ IF t \in valid
               THEN currentUser' = t /\ UNCHANGED <<token, authenticated, pageOfSession, expiredOn>>
               ELSE Unauthorized
    BY <1>7 DEF MeAnswered
  <2>2. CASE t \in valid
    BY <1>7, <2>1, <2>2 DEF MeAnswered, pageOfSession, SessionTypeOK,
       ProtectedNeedsToken, IsAuthenticated, EndedOnLogin
  <2>3. CASE t \notin valid
    BY <1>7, <2>1, <2>3, Returned DEF MeAnswered, SessionTypeOK
  <2> QED
    BY <2>2, <2>3
<1>8. CASE UserLogout
  BY <1>8, PageFacts DEF UserLogout, Logout, SessionTypeOK, ProtectedNeedsToken, EndedOnLogin,
     PublicPages
<1>9. CASE SendRequest
  BY <1>9 DEF SendRequest, pageOfSession, authVars, SessionTypeOK, ProtectedNeedsToken,
     IsAuthenticated, EndedOnLogin
<1>10. CASE TokenExpires
  BY <1>10 DEF TokenExpires, pageOfSession, authVars, SessionTypeOK, ProtectedNeedsToken,
     IsAuthenticated, EndedOnLogin
<1>11. CASE UNCHANGED sessionVars
  BY <1>11 DEF sessionVars, pageOfSession, authVars, SessionTypeOK, ProtectedNeedsToken,
     IsAuthenticated, EndedOnLogin
<1> QED
  BY <1>1, <1>2, <1>3, <1>4, <1>5, <1>6, <1>7, <1>8, <1>9, <1>10, <1>11
     DEF SessionNext, SessionAnswers

\* The session of AuthService and AuthInterceptor keeps its types, however many logins,
\* requests and expirations overlap.
THEOREM SessionTypes == SessionSpec => []SessionTypeOK
<1>1. SessionInv => SessionTypeOK
  BY DEF SessionInv
<1> QED
  BY <1>1, SessionInitially, SessionStep, PTL DEF SessionSpec

\* No protected page is open without a token, and a 401 returns the user to the page that
\* was open, however many answers to requests of this and earlier sessions come late.
THEOREM SessionKept == SessionSpec => []SessionIsKept
<1>1. SessionInv => SessionIsKept
  BY DEF SessionInv, EndedOnLogin, SessionIsKept, ExpiryReturns
<1> QED
  BY <1>1, SessionInitially, SessionStep, PTL DEF SessionSpec

-------------------------------------------------------------------------------
(* The rows                                                                *)

RowStatuses == ExecutionStatuses \cup {"APPROVED"}

\* Every step of the backend, by itself or for a request, keeps the types of the rows, and
\* no execution disappears.
LEMMA RowSet ==
  ASSUME RowsTypeOK, NEW e \in Nat, NEW s \in RowStatuses, NEW r \in Results, SetRow(e, s, r)
  PROVE  /\ rows' \in Seq(RowStatuses) /\ Len(rows') = Len(rows)
         /\ results' \in Seq(Results) /\ Len(results') = Len(results)
<1>1. CASE e \in Ids
  BY <1>1 DEF RowsTypeOK, RowStatuses, SetRow, Ids
<1>2. CASE e \notin Ids
  <2>1. rows' = rows /\ results' = results
    BY <1>2 DEF RowsTypeOK, SetRow, Ids
  <2> QED
    BY <2>1 DEF RowsTypeOK, RowStatuses
<1> QED
  BY <1>1, <1>2

LEMMA RowsMove ==
  ASSUME RowsTypeOK, BackendMoves
  PROVE  RowsTypeOK' /\ Ids \subseteq Ids'
<1> USE RowsAssumption
<1>1. moves' \in 0 .. MaxMoves
  BY DEF BackendMoves, RowsTypeOK
<1>2. CASE RowCreated
  <2>1. rows' \in Seq(RowStatuses) /\ Len(rows') = Len(rows) + 1
    BY <1>2 DEF RowCreated, RowsTypeOK, RowStatuses, ExecutionStatuses, ActiveStatuses
  <2>2. results' \in Seq(Results) /\ Len(results') = Len(results) + 1
    BY <1>2 DEF RowCreated, RowsTypeOK, Results
  <2> QED
    BY <1>1, <1>2, <2>1, <2>2 DEF RowCreated, RowsTypeOK, RowStatuses, Ids
<1>3. CASE RowMoves
  <2>1. PICK e \in Ids, s \in RowStatuses, r \in Results : SetRow(e, s, r)
    BY <1>3 DEF RowMoves, RowStatuses, ExecutionStatuses, ActiveStatuses, EndedStatuses, Results
  <2>2. e \in Nat
    BY DEF RowsTypeOK, Ids
  <2> QED
    BY <1>1, <2>1, <2>2, RowSet DEF RowsTypeOK, RowStatuses, Ids
<1> QED
  BY <1>2, <1>3 DEF BackendMoves

LEMMA RowsDone ==
  ASSUME RowsTypeOK, NEW op, NEW e \in Nat, NEW r \in Results, Done(op, e, r)
  PROVE  RowsTypeOK' /\ Ids' = Ids
<1>1. PICK s \in RowStatuses, x \in Results : SetRow(e, s, x)
  BY DEF Done, RowStatuses, ExecutionStatuses, ActiveStatuses, EndedStatuses, Results
<1> QED
  BY <1>1, RowSet DEF Done, RowsTypeOK, RowStatuses, Ids

LEMMA RowsInitially == RowsInit => RowsTypeOK
<1> SUFFICES ASSUME RowsInit PROVE RowsTypeOK
  OBVIOUS
<1>1. PICK n \in 1 .. MaxRows :
        rows \in [1 .. n -> {"RUNNING", "AWAITING_APPROVAL", "NEEDS_RECONCILIATION",
                             "COMPLETED"}]
  BY DEF RowsInit
<1> QED
  BY <1>1, RowsAssumption DEF RowsInit, RowsTypeOK, ExecutionStatuses, ActiveStatuses,
     EndedStatuses, Results

-------------------------------------------------------------------------------
(* The list of executions                                                  *)

\* The members of a set of numbers in turn: each one, once.
LEMMA InTurnIs ==
  ASSUME NEW S \in SUBSET Nat, IsFiniteSet(S)
  PROVE  /\ Cardinality(S) \in Nat /\ InTurn(S) \in [1 .. Cardinality(S) -> S]
         /\ \A i, j \in 1 .. Cardinality(S) : i # j => InTurn(S)[i] # InTurn(S)[j]
<1> DEFINE upto(x) == {y \in S : y <= x}
           n == Cardinality(S)
           rank == [x \in S |-> Cardinality(upto(x))]
<1>1. n \in Nat
  BY FS_CardinalityType
<1>2. ASSUME NEW x \in S PROVE IsFiniteSet(upto(x)) /\ Cardinality(upto(x)) \in 1 .. n
  <2>1. upto(x) \subseteq S /\ x \in upto(x)
    OBVIOUS
  <2> HIDE DEF upto
  <2>2. IsFiniteSet(upto(x)) /\ Cardinality(upto(x)) <= n
    BY <2>1, FS_Subset
  <2>3. Cardinality(upto(x)) \in Nat /\ Cardinality(upto(x)) # 0
    BY <2>1, <2>2, FS_CardinalityType, FS_EmptySet
  <2> QED
    BY <1>1, <2>2, <2>3
<1>3. ASSUME NEW x \in S, NEW y \in S, x < y PROVE Cardinality(upto(x)) # Cardinality(upto(y))
  <2>1. upto(x) \subseteq upto(y) /\ y \in upto(y) /\ y \notin upto(x)
    <3>1. x \in Nat /\ y \in Nat /\ ~(y <= x)
      BY <1>3
    <3>2. \A z \in Nat : z <= x => z <= y
      BY <1>3, <3>1
    <3>3. x \in S /\ y \in S /\ y <= y
      BY <3>1
    <3>4. upto(x) \subseteq upto(y)
      BY <3>2
    <3>5. y \in upto(y) /\ y \notin upto(x)
      BY <3>1, <3>3
    <3> QED
      BY <3>4, <3>5
  <2>2. IsFiniteSet(upto(y))
    BY <1>2
  <2> HIDE DEF upto
  <2> QED
    BY <2>1, <2>2, FS_Subset
<1>4. \A x, y \in S : x # y => rank[x] # rank[y]
  <2> TAKE x, y \in S
  <2>1. rank[x] = Cardinality(upto(x)) /\ rank[y] = Cardinality(upto(y))
    OBVIOUS
  <2>2. x # y => x < y \/ y < x
    OBVIOUS
  <2> HIDE DEF upto, rank
  <2> QED
    BY <1>3, <2>1, <2>2
<1>5. rank \in [S -> 1 .. n]
  <2> HIDE DEF upto, n
  <2> QED
    BY <1>2
<1>6. rank \in Injection(S, 1 .. n)
  <2> HIDE DEF rank, n
  <2> QED
    BY <1>4, <1>5 DEF Injection, IsInjective
<1>7. IsFiniteSet(1 .. n) /\ Cardinality(1 .. n) = n
  <2> HIDE DEF n
  <2> QED
    BY <1>1, FS_Interval
<1>8. rank \in Surjection(S, 1 .. n)
  <2> HIDE DEF rank
  <2> QED
    BY <1>6, <1>7, FS_Injection
<1>9. ASSUME NEW i \in 1 .. n PROVE InTurn(S)[i] \in S /\ rank[InTurn(S)[i]] = i
  <2>1. \E x \in S : rank[x] = i
    <3> HIDE DEF rank
    <3> QED
      BY <1>8 DEF Surjection
  <2>2. \E x \in S : Cardinality(upto(x)) = i
    BY <2>1
  <2>3. InTurn(S)[i] = CHOOSE x \in S : Cardinality(upto(x)) = i
    BY DEF InTurn
  <2> HIDE DEF upto
  <2>4. InTurn(S)[i] \in S /\ Cardinality(upto(InTurn(S)[i])) = i
    BY <2>2, <2>3
  <2> QED
    BY <2>4
<1>10. InTurn(S) = [i \in 1 .. n |-> InTurn(S)[i]]
  BY DEF InTurn
<1> HIDE DEF rank, n
<1>11. InTurn(S) \in [1 .. n -> S]
  BY <1>9, <1>10
<1>12. \A i, j \in 1 .. n : i # j => InTurn(S)[i] # InTurn(S)[j]
  BY <1>9
<1> QED
  BY <1>1, <1>11, <1>12 DEF n

LEMMA NewestIs ==
  ASSUME NEW S \in SUBSET Nat, IsFiniteSet(S)
  PROVE  /\ Cardinality(S) \in Nat /\ NewestFirst(S) \in [1 .. Cardinality(S) -> S]
         /\ \A i, j \in 1 .. Cardinality(S) : i # j => NewestFirst(S)[i] # NewestFirst(S)[j]
<1> DEFINE n == Cardinality(S)
           s == InTurn(S)
<1>1. n \in Nat /\ s \in [1 .. n -> S] /\ \A i, j \in 1 .. n : i # j => s[i] # s[j]
  BY InTurnIs
<1> HIDE DEF n, s
<1>2. Len(s) = n
  BY <1>1
<1>3. NewestFirst(S) = [i \in 1 .. n |-> s[(n - i) + 1]]
  BY <1>2 DEF NewestFirst, Reverse, s
<1>4. \A i \in 1 .. n : (n - i) + 1 \in 1 .. n
  BY <1>1
<1> DEFINE t == [i \in 1 .. n |-> s[(n - i) + 1]]
<1>5. \A i \in 1 .. n : t[i] = s[(n - i) + 1]
  OBVIOUS
<1>6. t \in [1 .. n -> S]
  <2>1. \A i \in 1 .. n : s[(n - i) + 1] \in S
    BY <1>1, <1>4
  <2> QED
    BY <2>1
<1> HIDE DEF t
<1>7. ASSUME NEW i \in 1 .. n, NEW j \in 1 .. n, i # j PROVE t[i] # t[j]
  <2>1. (n - i) + 1 # (n - j) + 1
    BY <1>1, <1>7
  <2> QED
    BY <1>1, <1>4, <1>5, <2>1
<1>8. NewestFirst(S) = t
  BY <1>3 DEF t
<1> QED
  BY <1>1, <1>6, <1>7, <1>8 DEF n

\* A list shows every execution once.
Distinct(s) == \A i, j \in DOMAIN s : i # j => s[i].id # s[j].id

AnswerLists == UNION {[1 .. n -> ExecutionSummary] : n \in 0 .. MaxRows}

LEMMA SummaryIs ==
  ASSUME RowsTypeOK, NEW e \in Ids
  PROVE  Summary(e) \in ExecutionSummary /\ Summary(e).id = e
<1>1. e \in 1 .. MaxRows /\ rows[e] \in RowStatuses /\ results[e] \in Results
  BY RowsAssumption DEF RowsTypeOK, RowStatuses, Ids
<1>2. Status(e) \in ExecutionStatuses
  BY <1>1 DEF Status, RowStatuses, ExecutionStatuses, ActiveStatuses
<1> QED
  BY <1>1, <1>2 DEF Summary, ExecutionSummary

\* The endpoint sends every row once, and no more than there are: the active ones and a
\* window of the others.
LEMMA AnswerIs ==
  ASSUME RowsTypeOK, NEW offset \in Nat
  PROVE  /\ ListAnswer(offset).executions \in AnswerLists
         /\ Distinct(ListAnswer(offset).executions)
         /\ ListAnswer(offset).total \in 0 .. MaxRows
<1> DEFINE A == ActiveIds
           B == Ids \ ActiveIds
           a == NewestFirst(A)
           b == NewestFirst(B)
           p == Cardinality(A)
           q == Cardinality(B)
           m == Len(rows)
           last == IF offset + FetchSize < Len(b) THEN offset + FetchSize ELSE Len(b)
           window == SubSeq(b, offset + 1, last)
           ids == a \o window
<1>1. m \in 1 .. MaxRows /\ m \in Nat /\ Ids = 1 .. m
  BY RowsAssumption DEF RowsTypeOK, Ids
<1>2. IsFiniteSet(Ids) /\ Cardinality(Ids) = m
  BY <1>1, FS_Interval
<1>3. A \subseteq Ids /\ A \cap B = {} /\ B = Ids \ A /\ Ids \cap A = A
  BY DEF ActiveIds
<1>4. ListAnswer(offset) = [executions |-> Summaries(ids), total |-> m]
  BY DEF ListAnswer
<1> HIDE DEF A, B, m
<1>5. IsFiniteSet(A) /\ IsFiniteSet(B) /\ A \in SUBSET Nat /\ B \in SUBSET Nat
  BY <1>1, <1>2, <1>3, FS_Subset
<1>6. p \in Nat /\ q \in Nat /\ p + q = m
  <2>1. p \in Nat /\ q \in Nat
    BY <1>5, FS_CardinalityType
  <2>2. q = Cardinality(Ids) - Cardinality(Ids \cap A)
    BY <1>2, <1>3, FS_Difference
  <2>3. q = m - p
    BY <1>2, <1>3, <2>2
  <2> HIDE DEF p, q
  <2> QED
    BY <1>1, <2>1, <2>3
<1>7. /\ a \in [1 .. p -> A] /\ \A i, j \in 1 .. p : i # j => a[i] # a[j]
      /\ b \in [1 .. q -> B] /\ \A i, j \in 1 .. q : i # j => b[i] # b[j]
  BY <1>5, NewestIs
<1> HIDE DEF a, b, p, q
<1>8. Len(a) = p /\ Len(b) = q /\ a \in Seq(Ids) /\ b \in Seq(Ids)
  BY <1>3, <1>6, <1>7
<1>9. last \in Nat /\ last <= q /\ last = (IF offset + FetchSize < q THEN offset + FetchSize ELSE q)
  BY <1>6, <1>8, RowsAssumption
<1> HIDE DEF last
<1> DEFINE w == IF offset < last THEN last - offset ELSE 0
<1>10. /\ window \in [1 .. w -> Ids] /\ w \in 0 .. q
       /\ \A i \in 1 .. w : window[i] = b[offset + i] /\ offset + i \in 1 .. q
  <2>1. w \in 0 .. q /\ w = (IF offset + 1 <= last THEN last - (offset + 1) + 1 ELSE 0)
    BY <1>6, <1>9
  <2>2. \A i \in (offset + 1) .. last : i \in 1 .. q /\ b[i] \in Ids
    BY <1>3, <1>6, <1>7, <1>9
  <2>3. /\ window \in Seq(Ids) /\ Len(window) = w
        /\ \A i \in 1 .. last - (offset + 1) + 1 : window[i] = b[(offset + 1) + i - 1]
    BY <1>9, <2>1, <2>2, SubSeqProperties
  <2> HIDE DEF window
  <2>4. \A i \in 1 .. w : /\ i \in 1 .. last - (offset + 1) + 1
                         /\ (offset + 1) + i - 1 = offset + i /\ offset + i \in 1 .. q
    BY <1>6, <1>9, <2>1
  <2> HIDE DEF w
  <2> QED
    BY <2>1, <2>3, <2>4, LenProperties
<1> HIDE DEF window, w
<1>11. \A i \in 1 .. w : window[i] \in B
  BY <1>7, <1>10
<1>12. \A i, j \in 1 .. w : i # j => window[i] # window[j]
  BY <1>6, <1>7, <1>10
<1>13. window \in Seq(Ids) /\ Len(window) = w /\ w \in Nat
  BY <1>6, <1>10
<1>14. /\ ids \in Seq(Ids) /\ Len(ids) = p + w
       /\ \A i \in 1 .. p : ids[i] = a[i]
       /\ \A i \in (p + 1) .. (p + w) : ids[i] = window[i - p]
  <2> DEFINE both == ids
  <2>1. /\ both \in Seq(Ids) /\ Len(both) = p + w
        /\ \A i \in 1 .. p + w : both[i] = IF i <= p THEN a[i] ELSE window[i - p]
    BY <1>8, <1>13, ConcatProperties
  <2> HIDE DEF both
  <2>2. /\ \A i \in 1 .. p : both[i] = a[i]
        /\ \A i \in (p + 1) .. (p + w) : both[i] = window[i - p]
    <3>1. \A i \in 1 .. p : i \in 1 .. p + w /\ i <= p
      BY <1>6, <1>13
    <3>2. \A i \in (p + 1) .. (p + w) : i \in 1 .. p + w /\ ~(i <= p)
      BY <1>6, <1>13
    <3> QED
      BY <2>1, <3>1, <3>2
  <2> QED
    BY <2>1, <2>2 DEF both
<1> HIDE DEF ids
<1>15. Len(ids) \in 0 .. MaxRows
  BY <1>1, <1>6, <1>10, <1>14, RowsAssumption
<1>16. \A i, j \in 1 .. (p + w) : i < j => ids[i] # ids[j]
  <2> SUFFICES ASSUME NEW i \in 1 .. (p + w), NEW j \in 1 .. (p + w), i < j
               PROVE  ids[i] # ids[j]
    OBVIOUS
  <2>1. CASE j <= p
    BY <1>6, <1>7, <1>13, <1>14, <2>1
  <2>2. CASE i <= p /\ ~(j <= p)
    <3>1. i \in 1 .. p /\ j \in (p + 1) .. (p + w) /\ j - p \in 1 .. w
      BY <1>6, <1>13, <2>2
    <3>2. ids[i] \in A /\ ids[j] \in B
      BY <1>7, <1>11, <1>14, <3>1
    <3> QED
      BY <1>3, <3>2
  <2>3. CASE ~(i <= p)
    <3>1. /\ i \in (p + 1) .. (p + w) /\ j \in (p + 1) .. (p + w)
          /\ i - p \in 1 .. w /\ j - p \in 1 .. w /\ i - p # j - p
      BY <1>6, <1>13, <2>3
    <3>2. ids[i] = window[i - p] /\ ids[j] = window[j - p]
      BY <1>14, <3>1
    <3>3. window[i - p] # window[j - p]
      BY <1>12, <3>1
    <3> QED
      BY <3>2, <3>3
  <2> QED
    BY <1>6, <1>13, <2>1, <2>2, <2>3
<1>17. \A i, j \in 1 .. Len(ids) : i # j => ids[i] # ids[j]
  BY <1>6, <1>13, <1>14, <1>16
<1>18. Summaries(ids) \in [1 .. Len(ids) -> ExecutionSummary]
  BY <1>14, SummaryIs DEF Summaries
<1>19. \A i \in 1 .. Len(ids) : Summaries(ids)[i].id = ids[i]
  BY <1>14, SummaryIs DEF Summaries
<1>20. Summaries(ids) \in AnswerLists
  BY <1>15, <1>18 DEF AnswerLists
<1>21. Distinct(Summaries(ids))
  BY <1>17, <1>18, <1>19 DEF Distinct
<1> QED
  BY <1>1, <1>4, <1>20, <1>21

\* What is loaded more is put behind the list without what is there already.
LEMMA AppendedIs ==
  ASSUME allExecutions \in Seq(ExecutionSummary), Distinct(allExecutions),
         NEW new \in AnswerLists, Distinct(new)
  PROVE  Appended(new) \in Seq(ExecutionSummary) /\ Distinct(Appended(new))
<1> DEFINE S == {i \in DOMAIN new : \A j \in DOMAIN allExecutions :
                                      allExecutions[j].id # new[i].id}
           added == InTurn(S)
           c == Cardinality(S)
           more == [k \in 1 .. c |-> new[added[k]]]
           l == Len(allExecutions)
<1>1. PICK n \in 0 .. MaxRows : new \in [1 .. n -> ExecutionSummary]
  BY DEF AnswerLists
<1>2. n \in Nat /\ DOMAIN new = 1 .. n /\ IsFiniteSet(1 .. n)
  BY <1>1, RowsAssumption, FS_Interval
<1>3. S \in SUBSET Nat /\ S \subseteq 1 .. n
  BY <1>2
<1>4. \A i \in S : \A j \in DOMAIN allExecutions : allExecutions[j].id # new[i].id
  OBVIOUS
<1>5. Appended(new) = allExecutions \o [k \in DOMAIN added |-> new[added[k]]]
  BY DEF Appended
<1> HIDE DEF S
<1>6. IsFiniteSet(S)
  BY <1>2, <1>3, FS_Subset
<1>7. /\ c \in Nat /\ added \in [1 .. c -> S]
      /\ \A i, j \in 1 .. c : i # j => added[i] # added[j]
  BY <1>3, <1>6, InTurnIs
<1>8. Appended(new) = allExecutions \o more
  BY <1>5, <1>7
<1> HIDE DEF added, c
<1>9. \A k \in 1 .. c : added[k] \in 1 .. n /\ new[added[k]] \in ExecutionSummary
  BY <1>1, <1>3, <1>7
<1>10. more \in Seq(ExecutionSummary) /\ Len(more) = c
  BY <1>7, <1>9
<1>11. \A k \in 1 .. c : more[k] = new[added[k]]
  OBVIOUS
<1>12. \A i, j \in 1 .. c : i # j => more[i].id # more[j].id
  BY <1>2, <1>7, <1>9, <1>11 DEF Distinct
<1>13. \A k \in 1 .. c : \A j \in 1 .. l : allExecutions[j].id # more[k].id
  BY <1>4, <1>7, <1>11
<1> HIDE DEF more
<1>14. l \in Nat
  OBVIOUS
<1> DEFINE all == allExecutions \o more
<1>15. /\ all \in Seq(ExecutionSummary) /\ Len(all) = l + c
       /\ \A i \in 1 .. l : all[i] = allExecutions[i]
       /\ \A i \in (l + 1) .. (l + c) : all[i] = more[i - l]
  BY <1>7, <1>10
<1> HIDE DEF all
<1>16. \A i, j \in 1 .. (l + c) : i < j => all[i].id # all[j].id
  <2> SUFFICES ASSUME NEW i \in 1 .. (l + c), NEW j \in 1 .. (l + c), i < j
               PROVE  all[i].id # all[j].id
    OBVIOUS
  <2>1. CASE j <= l
    BY SMTT(30), <1>7, <1>14, <1>15, <2>1 DEF Distinct
  <2>2. CASE i <= l /\ ~(j <= l)
    <3>1. j - l \in 1 .. c /\ i \in 1 .. l
      BY <1>7, <1>14, <2>2
    <3> QED
      BY <1>7, <1>13, <1>14, <1>15, <2>2, <3>1
  <2>3. CASE ~(i <= l)
    <3>1. i - l \in 1 .. c /\ j - l \in 1 .. c /\ i - l # j - l
      BY <1>7, <1>14, <2>3
    <3> QED
      BY SMTT(30), <1>7, <1>12, <1>14, <1>15, <2>3, <3>1
  <2> QED
    BY <1>7, <1>14, <2>1, <2>2, <2>3
<1>17. Distinct(all)
  BY <1>7, <1>14, <1>15, <1>16 DEF Distinct
<1> QED
  BY <1>8, <1>15, <1>17 DEF all

\* Besides the types: neither the list nor an answer in flight shows an execution twice.
ListInv ==
  /\ ListTypeOK /\ Distinct(allExecutions)
  /\ \A r \in listRequests : Distinct(r.executions)

LEMMA RequestIs ==
  ASSUME NEW more \in BOOLEAN, NEW offset \in 0 .. MaxRows
  PROVE  Request(more, offset) \in ListRequest /\ Distinct(Request(more, offset).executions)
<1>1. <<>> \in AnswerLists /\ Distinct(<<>>) /\ 0 \in 0 .. MaxRows
  <2>1. <<>> \in [1 .. 0 -> ExecutionSummary] /\ 0 \in 0 .. MaxRows
    BY RowsAssumption
  <2> QED
    BY <2>1 DEF AnswerLists, Distinct
<1>2. Request(more, offset).executions = <<>>
  BY DEF Request
<1> QED
  BY <1>1, <1>2 DEF Request, ListRequest, AnswerLists

LEMMA ListInitially == ListInit => ListInv
<1> SUFFICES ASSUME ListInit PROVE ListInv
  OBVIOUS
<1>1. RowsTypeOK
  BY RowsInitially DEF ListInit
<1>2. 0 \in 0 .. MaxRows /\ 0 \in 0 .. MaxActions
  BY RowsAssumption, ListAssumption
<1>3. \A r \in listRequests : r \in ListRequest /\ Distinct(r.executions)
  BY <1>2, RequestIs DEF ListInit, ListOpened
<1>4. filters \in [status : StatusOptions, tradeOutcome : TradeOutcomeOptions]
  BY DEF ListInit, ListOpened, StatusOptions, TradeOutcomeOptions
<1>5. allExecutions \in Seq(ExecutionSummary) /\ Distinct(allExecutions)
  BY DEF ListInit, ListOpened, Distinct
<1> QED
  BY <1>1, <1>2, <1>3, <1>4, <1>5 DEF ListInit, ListOpened, ListInv, ListTypeOK, Categories

\* What the page loads next: a request among those in flight.
LEMMA LoadKept ==
  ASSUME ListInv, LoadData(listRequests)
  PROVE  \A r \in listRequests' : r \in ListRequest /\ Distinct(r.executions)
<1>1. 0 \in 0 .. MaxRows
  BY RowsAssumption
<1> QED
  BY <1>1, RequestIs DEF LoadData, ListInv, ListTypeOK

LEMMA ActIs == ASSUME ListInv, Act PROVE actions' \in 0 .. MaxActions
BY ListAssumption DEF Act, ListInv, ListTypeOK

\* A step that leaves the rows alone and keeps what the page holds in its types.
LEMMA PageKept ==
  ASSUME ListInv, UNCHANGED rowVars,
         allExecutions' \in Seq(ExecutionSummary), Distinct(allExecutions'),
         totalServerCount' \in 0 .. MaxRows, loading' \in BOOLEAN, loadingMore' \in BOOLEAN,
         filters' \in [status : StatusOptions, tradeOutcome : TradeOutcomeOptions],
         timelineFilters' \subseteq Categories,
         \A r \in listRequests' : r \in ListRequest /\ Distinct(r.executions),
         decisions' \subseteq [e : 1 .. MaxRows, op : {"approve", "reject"},
                               answer : {"none", "ok", "refused"}],
         actions' \in 0 .. MaxActions
  PROVE  ListInv'
BY DEF rowVars, ListInv, ListTypeOK, RowsTypeOK, Distinct

LEMMA AskKept == ASSUME ListInv, RefreshTick \/ RefreshList \/ LoadMore PROVE ListInv'
<1>1. CASE RefreshTick
  BY <1>1, LoadKept, PageKept DEF RefreshTick, listVars, ListInv, ListTypeOK
<1>2. CASE RefreshList
  BY <1>2, LoadKept, ActIs, PageKept DEF RefreshList, ListInv, ListTypeOK
<1>3. CASE LoadMore
  <2>1. Len(allExecutions) \in 0 .. MaxRows
    BY <1>3, RowsAssumption DEF LoadMore, hasMore, ListInv, ListTypeOK
  <2>2. \A r \in listRequests' : r \in ListRequest /\ Distinct(r.executions)
    BY <1>3, <2>1, RequestIs DEF LoadMore, ListInv, ListTypeOK
  <2> QED
    BY <1>3, <2>2, ActIs, PageKept DEF LoadMore, ListInv, ListTypeOK
<1> QED
  BY <1>1, <1>2, <1>3

\* The backend reads the rows for a request.
LEMMA ListServedKept ==
  ASSUME ListInv, NEW r \in listRequests, ListServed(r) PROVE ListInv'
<1>1. r \in ListRequest /\ r.offset \in Nat
  BY RowsAssumption DEF ListInv, ListTypeOK, ListRequest
<1> DEFINE a == ListAnswer(r.offset)
           served == [r EXCEPT !.served = TRUE, !.executions = a.executions,
                               !.total = a.total]
<1>2. a.executions \in AnswerLists /\ Distinct(a.executions) /\ a.total \in 0 .. MaxRows
  BY <1>1, AnswerIs DEF ListInv, ListTypeOK
<1>3. listRequests' = (listRequests \ {r}) \cup {served}
  BY DEF ListServed
<1> HIDE DEF a
<1>4. served \in ListRequest /\ served.executions = a.executions
  BY <1>1, <1>2 DEF ListRequest, AnswerLists
<1> HIDE DEF served
<1>5. \A x \in listRequests' : x \in ListRequest /\ Distinct(x.executions)
  BY <1>2, <1>3, <1>4 DEF ListInv, ListTypeOK
<1> QED
  BY <1>5, PageKept DEF ListServed, listVars, ListInv, ListTypeOK

\* An answer arrives, in whatever order they were asked for, or none does.
LEMMA ListAnsweredKept ==
  ASSUME ListInv, NEW r \in listRequests, ListLoaded(r) \/ MoreLoaded(r) \/ ListFails(r)
  PROVE  ListInv'
<1>1. /\ r \in ListRequest /\ r.executions \in AnswerLists /\ Distinct(r.executions)
      /\ r.total \in 0 .. MaxRows
  BY DEF ListInv, ListTypeOK, ListRequest, AnswerLists
<1>2. r.executions \in Seq(ExecutionSummary)
  <2>1. PICK n \in 0 .. MaxRows : r.executions \in [1 .. n -> ExecutionSummary]
    BY <1>1 DEF AnswerLists
  <2>2. n \in Nat
    BY RowsAssumption
  <2> QED
    BY <2>1, <2>2
<1>3. \A s \in listRequests \ {r} : s \in ListRequest /\ Distinct(s.executions)
  BY DEF ListInv, ListTypeOK
<1>4. CASE ListLoaded(r)
  BY <1>1, <1>2, <1>3, <1>4, PageKept DEF ListLoaded, ListInv, ListTypeOK
<1>5. CASE MoreLoaded(r)
  <2>1. Appended(r.executions) \in Seq(ExecutionSummary) /\ Distinct(Appended(r.executions))
    BY <1>1, AppendedIs DEF ListInv, ListTypeOK
  <2> QED
    BY <1>1, <1>3, <1>5, <2>1, PageKept DEF MoreLoaded, ListInv, ListTypeOK
<1>6. CASE ListFails(r)
  BY <1>3, <1>6, ActIs, PageKept DEF ListFails, ListInv, ListTypeOK
<1> QED
  BY <1>4, <1>5, <1>6

LEMMA FiltersKept ==
  ASSUME ListInv,
         \/ SetFilter \/ ClearFilters \/ ToggleTimelineFilter \/ ShowOnlyTrades
         \/ ShowAllCategories
  PROVE  ListInv'
<1>1. CASE SetFilter
  <2>1. filters' \in [status : StatusOptions, tradeOutcome : TradeOutcomeOptions]
    BY <1>1 DEF SetFilter, ListInv, ListTypeOK
  <2> QED
    BY <1>1, <2>1, ActIs, PageKept DEF SetFilter, ListInv, ListTypeOK
<1>2. CASE ClearFilters
  <2>1. filters' \in [status : StatusOptions, tradeOutcome : TradeOutcomeOptions]
    BY <1>2 DEF ClearFilters, StatusOptions, TradeOutcomeOptions
  <2> QED
    BY <1>2, <2>1, ActIs, PageKept DEF ClearFilters, ListInv, ListTypeOK
<1>3. ASSUME NEW new \in SUBSET Categories, SetTimeline(new) PROVE ListInv'
  BY <1>3, ActIs, PageKept DEF SetTimeline, ListInv, ListTypeOK
<1>4. \E new \in SUBSET Categories : SetTimeline(new)
      \/ SetFilter \/ ClearFilters
  BY DEF ToggleTimelineFilter, ShowOnlyTrades, ShowAllCategories, Categories, ListInv,
     ListTypeOK
<1> QED
  BY <1>1, <1>2, <1>3, <1>4

LEMMA DecideKept == ASSUME ListInv, Decide PROVE ListInv'
<1>1. PICK e \in Listed({"AWAITING_APPROVAL"}), op \in {"approve", "reject"} :
        decisions' = decisions \cup {[e |-> e, op |-> op, answer |-> "none"]}
  BY DEF Decide
<1>2. e \in 1 .. MaxRows
  <2>1. PICK i \in DOMAIN allExecutions : e = allExecutions[i].id
    BY DEF Listed
  <2>2. allExecutions[i] \in ExecutionSummary
    BY DEF ListInv, ListTypeOK
  <2> QED
    BY <2>1, <2>2 DEF ExecutionSummary
<1> QED
  BY <1>1, <1>2, ActIs, PageKept DEF Decide, listVars, ListInv, ListTypeOK

LEMMA DecisionKept ==
  ASSUME ListInv, NEW d \in decisions, DecisionServed(d) \/ DecisionAnswered(d)
  PROVE  ListInv'
<1>1. d \in [e : 1 .. MaxRows, op : {"approve", "reject"}, answer : {"none", "ok", "refused"}]
  BY DEF ListInv, ListTypeOK
<1>2. CASE DecisionServed(d)
  <2>1. decisions' \subseteq [e : 1 .. MaxRows, op : {"approve", "reject"},
                              answer : {"none", "ok", "refused"}]
    BY <1>1, <1>2 DEF DecisionServed, ListInv, ListTypeOK
  <2>2. CASE Done(d.op, d.e, "none")
    <3>1. RowsTypeOK'
      BY <1>1, <2>2, RowsDone, RowsAssumption DEF Results, ListInv, ListTypeOK
    <3> QED
      BY <1>2, <2>1, <3>1 DEF DecisionServed, listVars, ListInv, ListTypeOK, Distinct
  <2>3. CASE UNCHANGED rowVars
    BY <1>2, <2>1, <2>3, PageKept DEF DecisionServed, listVars, ListInv, ListTypeOK
  <2> QED
    BY <1>2, <2>2, <2>3 DEF DecisionServed
<1>3. CASE DecisionAnswered(d)
  <2>1. \A r \in listRequests' : r \in ListRequest /\ Distinct(r.executions)
    BY <1>3, LoadKept DEF DecisionAnswered, ListInv, ListTypeOK
  <2> QED
    BY <1>3, <2>1, PageKept DEF DecisionAnswered, listVars, ListInv, ListTypeOK
<1> QED
  BY <1>2, <1>3

LEMMA ListStep == ListInv /\ [ExecutionListNext]_executionListVars => ListInv'
<1> SUFFICES ASSUME ListInv, [ExecutionListNext]_executionListVars PROVE ListInv'
  OBVIOUS
<1>1. CASE ListBackend
  <2>1. RowsTypeOK'
    BY <1>1, RowsMove DEF ListBackend, ListInv, ListTypeOK
  <2> QED
    BY <1>1, <2>1 DEF ListBackend, listVars, ListInv, ListTypeOK, Distinct
<1>2. CASE UNCHANGED executionListVars
  BY <1>2 DEF executionListVars, rowVars, listVars, ListInv, ListTypeOK, RowsTypeOK, Distinct
<1> QED
  BY <1>1, <1>2, AskKept, ListServedKept, ListAnsweredKept, FiltersKept, DecideKept,
     DecisionKept
     DEF ExecutionListNext, ListServes, ListAnswers, ListUser, DecisionSteps

\* The list, its requests and the decisions in flight keep their types.
THEOREM ListTypes == ExecutionListSpec => []ListTypeOK
<1>1. ListInv => ListTypeOK
  BY DEF ListInv
<1> QED
  BY <1>1, ListInitially, ListStep, PTL DEF ExecutionListSpec

\* The monitoring page never lists an execution twice, for any number of executions and any
\* size of a page: an execution that ends between two answers is in both of them, and what
\* is loaded more is compared with what is there.
THEOREM NoDuplicate == ExecutionListSpec => []NoDuplicates
<1>1. ListInv => NoDuplicates
  BY DEF ListInv, NoDuplicates, Distinct
<1> QED
  BY <1>1, ListInitially, ListStep, PTL DEF ExecutionListSpec

-------------------------------------------------------------------------------
(* The dialog                                                              *)

\* The P&L of a form and its prices, as in PnLMatchesPrices.
Gains(d) == IF d.side \in {"buy", "long"} THEN d.exit > d.entry ELSE d.exit < d.entry
Matches(d) ==
  d.entry # 0 /\ d.exit # 0 /\ ~d.overridden => d.pnl = d.pct /\ (d.pnl = "gain" <=> Gains(d))

\* The executions of the dialog and of its requests are there.
ExecutionsExist == dialog.e \in {0} \cup Ids /\ \A q \in reconciles : q.e \in Ids

\* What an answer says was done was booked.
AnswersAreTrue == \A q \in reconciles : q.answer = "ok" => What(q) \in booked

DialogInv ==
  /\ RowsTypeOK /\ DialogTypeOK /\ ExecutionsExist
  /\ AnswersAreTrue /\ AnnouncedIsDone /\ Matches(dialog)

\* recalculatePnl fills the form truly in, whatever it held before.
LEMMA RecalculatedIsTrue ==
  ASSUME NEW d \in Dialogs
  PROVE  Recalculated(d) \in Dialogs /\ Recalculated(d).e = d.e /\ Matches(Recalculated(d))
<1>0. d.entry \in Prices \cup {0} /\ d.exit \in Prices \cup {0} /\ d.side \in Sides
  BY DEF Dialogs
<1>a. d.entry \in Nat /\ d.exit \in Nat
  <2>1. Prices \subseteq Nat
    BY DialogAssumption
  <2>2. Prices \cup {0} \subseteq Nat
    BY <2>1
  <2> QED
    BY <1>0, <2>2
<1>b. d.side \in {"buy", "long", "sell", "short"}
  BY <1>0, DialogAssumption, Zenon
<1>1. d.entry \in Nat /\ d.exit \in Nat /\ d.side \in {"buy", "long", "sell", "short"}
  BY <1>a, <1>b
<1>2. CASE d.entry > 0 /\ d.exit > 0
  <2> DEFINE x == IF d.side \in {"buy", "long"} THEN d.exit - d.entry ELSE d.entry - d.exit
  <2>1. Recalculated(d) = [d EXCEPT !.pnl = SignOf(x), !.pct = SignOf(x), !.overridden = FALSE]
    BY <1>1, <1>2 DEF Recalculated
  <2>2. SignOf(x) \in Signs /\ (SignOf(x) = "gain" <=> Gains(d))
    BY <1>1 DEF SignOf, Signs, Gains
  <2> HIDE DEF x
  <2> QED
    BY <2>1, <2>2 DEF Dialogs, Matches, Gains
<1>3. CASE ~(d.entry > 0 /\ d.exit > 0)
  BY <1>1, <1>3 DEF Recalculated, Matches
<1> QED
  BY <1>2, <1>3

LEMMA NoDialogIsTrue == NoDialog \in Dialogs /\ NoDialog.e = 0 /\ Matches(NoDialog)
BY RowsAssumption, DialogAssumption DEF NoDialog, Dialogs, Actions, Signs, Matches

LEMMA DialogInitially == ReconciliationInit => DialogInv
BY RowsInitially, NoDialogIsTrue, DialogAssumption
   DEF ReconciliationInit, DialogInit, DialogInv, DialogTypeOK, ExecutionsExist,
       AnswersAreTrue, AnnouncedIsDone

LEMMA OpenKept == DialogInv /\ OpenDialog => DialogInv'
<1> SUFFICES ASSUME DialogInv, OpenDialog PROVE DialogInv'
  OBVIOUS
<1>1. PICK e \in Ids, side \in Sides, entry \in Prices \cup {0}, exit \in Prices \cup {0},
           action \in {"auto", "close"} :
        dialog' = Recalculated([NoDialog EXCEPT !.e = e, !.action = action, !.side = side,
                                                !.entry = entry, !.exit = exit])
  BY DEF OpenDialog
<1> DEFINE d == [NoDialog EXCEPT !.e = e, !.action = action, !.side = side, !.entry = entry,
                                 !.exit = exit]
<1>a. e \in 0 .. MaxRows /\ action \in Actions
  BY RowsAssumption DEF DialogInv, RowsTypeOK, Ids, Actions
<1>2. d \in Dialogs /\ d.e = e
  BY <1>a, NoDialogIsTrue DEF Dialogs
<1>3. dialog' \in Dialogs /\ dialog'.e = e /\ Matches(dialog')
  BY <1>1, <1>2, RecalculatedIsTrue
<1> QED
  BY <1>3 DEF OpenDialog, rowVars, DialogInv, RowsTypeOK, DialogTypeOK, ExecutionsExist, Ids,
     AnswersAreTrue, AnnouncedIsDone, Matches, Gains

\* The user changes the form only.
LEMMA ChangeKept ==
  ASSUME DialogInv, NEW new \in Dialogs, new.e = dialog.e, Matches(new), ChangeDialog(new)
  PROVE  DialogInv'
<1>1. dialogActions' \in 0 .. MaxDialogActions
  BY DialogAssumption DEF ChangeDialog, DialogAct, DialogInv, DialogTypeOK
<1> QED
  BY <1>1 DEF ChangeDialog, rowVars, DialogInv, RowsTypeOK, DialogTypeOK, ExecutionsExist, Ids,
     AnswersAreTrue, AnnouncedIsDone, Matches, Gains

LEMMA FormKept ==
  DialogInv /\ (OnActionChange \/ OnPriceChange \/ EnterPnL) => DialogInv'
<1> SUFFICES ASSUME DialogInv, OnActionChange \/ OnPriceChange \/ EnterPnL PROVE DialogInv'
  OBVIOUS
<1>d. dialog \in Dialogs /\ Matches(dialog)
  BY DEF DialogInv, DialogTypeOK
<1>1. CASE OnActionChange
  <2>1. PICK a \in Actions : ChangeDialog([dialog EXCEPT !.action = a, !.error = FALSE])
    BY <1>1 DEF OnActionChange
  <2> QED
    BY <1>d, <2>1, ChangeKept DEF Dialogs, Matches, Gains
<1>2. CASE OnPriceChange
  <2>1. PICK p \in Prices \cup {0} :
          \/ ChangeDialog(Recalculated([dialog EXCEPT !.entry = p]))
          \/ ChangeDialog(Recalculated([dialog EXCEPT !.exit = p]))
    BY <1>2 DEF OnPriceChange
  <2>2. [dialog EXCEPT !.entry = p] \in Dialogs /\ [dialog EXCEPT !.exit = p] \in Dialogs
    BY <1>d DEF Dialogs
  <2>3. [dialog EXCEPT !.entry = p].e = dialog.e /\ [dialog EXCEPT !.exit = p].e = dialog.e
    BY <1>d DEF Dialogs
  <2> QED
    BY <2>1, <2>2, <2>3, RecalculatedIsTrue, ChangeKept
<1>3. CASE EnterPnL
  <2>1. PICK v \in Signs : ChangeDialog([dialog EXCEPT !.pnl = v, !.overridden = TRUE])
    BY <1>3 DEF EnterPnL
  <2> QED
    BY <1>d, <2>1, ChangeKept DEF Dialogs, Matches
<1> QED
  BY <1>1, <1>2, <1>3

LEMMA SubmitKept == DialogInv /\ SubmitDialog => DialogInv'
<1> SUFFICES ASSUME DialogInv, SubmitDialog PROVE DialogInv'
  OBVIOUS
<1> DEFINE sent == [e |-> dialog.e, op |-> dialog.action,
                    pnl |-> IF dialog.action = "close" THEN dialog.pnl ELSE "none",
                    waiting |-> TRUE, answer |-> "none"]
<1>1. sent.e \in Ids /\ sent \in Reconciles
  BY DEF SubmitDialog, DialogInv, DialogTypeOK, ExecutionsExist, Dialogs, Reconciles, Signs,
     RowsTypeOK, Ids
<1>2. dialog' \in Dialogs /\ dialog'.e = dialog.e /\ Matches(dialog')
  BY ZenonT(30) DEF SubmitDialog, DialogInv, DialogTypeOK, Dialogs, Matches, Gains
<1>3. dialogActions' \in 0 .. MaxDialogActions
  BY DialogAssumption DEF SubmitDialog, DialogAct, DialogInv, DialogTypeOK
<1>4. reconciles' \subseteq reconciles \cup {sent} /\ sent.answer # "ok"
  BY DEF SubmitDialog
<1> QED
  BY <1>1, <1>2, <1>3, <1>4 DEF SubmitDialog, rowVars, DialogInv, RowsTypeOK, DialogTypeOK,
     ExecutionsExist, Ids, AnswersAreTrue, AnnouncedIsDone

LEMMA CancelKept == DialogInv /\ CancelDialog => DialogInv'
<1> SUFFICES ASSUME DialogInv, CancelDialog PROVE DialogInv'
  OBVIOUS
<1>1. ASSUME NEW q \in reconciles
      PROVE  /\ [q EXCEPT !.waiting = FALSE] \in Reconciles
             /\ [q EXCEPT !.waiting = FALSE].e = q.e
             /\ [q EXCEPT !.waiting = FALSE].answer = q.answer
             /\ What([q EXCEPT !.waiting = FALSE]) = What(q)
  BY DEF DialogInv, DialogTypeOK, Reconciles, What
<1>2. reconciles' \subseteq Reconciles
  BY <1>1 DEF CancelDialog
<1>3. \A x \in reconciles' : x.e \in Ids /\ (x.answer = "ok" => What(x) \in booked)
  BY ZenonT(30), <1>1 DEF CancelDialog, DialogInv, ExecutionsExist, AnswersAreTrue
<1>4. dialog' = NoDialog /\ UNCHANGED <<rows, results, moves, booked, announced, dialogActions>>
  BY DEF CancelDialog, rowVars
<1> QED
  BY <1>2, <1>3, <1>4, NoDialogIsTrue DEF DialogInv, RowsTypeOK, DialogTypeOK,
     ExecutionsExist, Ids, AnswersAreTrue, AnnouncedIsDone

\* What a request of this dialog becomes when the backend has served it.
LEMMA ServedKept == ASSUME DialogInv, NEW q \in reconciles, ReconcileServed(q) PROVE DialogInv'
<1>1. q \in Reconciles /\ q.e \in Ids /\ What(q) \in Reconciled
  BY DEF DialogInv, DialogTypeOK, ExecutionsExist, Reconciles, Reconciled, What
<1>n. q.e \in Nat
  BY <1>1 DEF DialogInv, RowsTypeOK, Ids
<1>2. \A a \in {"ok", "refused"} :
        /\ [q EXCEPT !.answer = a] \in Reconciles
        /\ [q EXCEPT !.answer = a].e = q.e /\ [q EXCEPT !.answer = a].answer = a
        /\ What([q EXCEPT !.answer = a]) = What(q)
  BY <1>1 DEF Reconciles, What
<1>3. CASE /\ \E r \in BookedResults(q) : Done(q.op, q.e, r)
           /\ booked' = booked \cup {What(q)}
           /\ reconciles' = (reconciles \ {q}) \cup
                (IF q.waiting THEN {[q EXCEPT !.answer = "ok"]} ELSE {})
  <2>1. RowsTypeOK' /\ Ids' = Ids
    BY <1>1, <1>n, <1>3, RowsDone DEF BookedResults, Results, DialogInv
  <2> QED
    BY <1>1, <1>2, <1>3, <2>1 DEF ReconcileServed, DialogInv, DialogTypeOK, ExecutionsExist,
       AnswersAreTrue, AnnouncedIsDone
<1>4. CASE /\ reconciles' = (reconciles \ {q}) \cup
                (IF q.waiting THEN {[q EXCEPT !.answer = "refused"]} ELSE {})
           /\ UNCHANGED <<rowVars, booked>>
  BY <1>1, <1>2, <1>4 DEF ReconcileServed, rowVars, DialogInv, RowsTypeOK, DialogTypeOK,
     ExecutionsExist, Ids, AnswersAreTrue, AnnouncedIsDone
<1> QED
  BY <1>3, <1>4 DEF ReconcileServed

\* An answer, or the client's timeout: the dialog shows an error or is gone.
LEMMA SettledKept ==
  ASSUME DialogInv, NEW q \in reconciles, ReconcileAnswered(q) \/ ReconcileTimesOut(q)
  PROVE  DialogInv'
<1>1. q \in Reconciles /\ What(q) \in Reconciled
  BY DEF DialogInv, DialogTypeOK, Reconciles, Reconciled, What
<1>2. LET d == [dialog EXCEPT !.error = TRUE, !.loading = FALSE]
      IN  d \in Dialogs /\ d.e = dialog.e /\ Matches(d)
  BY DEF DialogInv, DialogTypeOK, Dialogs, Matches, Gains
<1>3. CASE ReconcileAnswered(q)
  <2>1. q.answer = "ok" => What(q) \in booked
    BY DEF DialogInv, AnswersAreTrue
  <2> QED
    BY <1>1, <1>2, <1>3, <2>1, NoDialogIsTrue DEF ReconcileAnswered, rowVars, DialogInv,
       RowsTypeOK, DialogTypeOK, ExecutionsExist, Ids, AnswersAreTrue, AnnouncedIsDone
<1>4. CASE ReconcileTimesOut(q)
  <2>1. LET left == [q EXCEPT !.waiting = FALSE]
        IN  left \in Reconciles /\ left.e = q.e /\ left.answer = q.answer
    BY <1>1 DEF Reconciles
  <2> QED
    BY <1>1, <1>2, <1>4, <2>1 DEF ReconcileTimesOut, rowVars, DialogInv, RowsTypeOK,
       DialogTypeOK, ExecutionsExist, Ids, AnswersAreTrue, AnnouncedIsDone
<1> QED
  BY <1>3, <1>4

LEMMA DialogStep == DialogInv /\ [ReconciliationNext]_reconciliationVars => DialogInv'
<1> SUFFICES ASSUME DialogInv, [ReconciliationNext]_reconciliationVars PROVE DialogInv'
  OBVIOUS
<1>1. CASE BackendMoves /\ UNCHANGED <<dialogVars, dialogActions>>
  <2>1. RowsTypeOK' /\ Ids \subseteq Ids'
    BY <1>1, RowsMove DEF DialogInv
  <2> QED
    BY <1>1, <2>1 DEF dialogVars, DialogInv, DialogTypeOK, ExecutionsExist, AnswersAreTrue,
       AnnouncedIsDone, Matches, Gains
<1>2. CASE UNCHANGED reconciliationVars
  BY <1>2 DEF reconciliationVars, rowVars, dialogVars, DialogInv, RowsTypeOK, DialogTypeOK,
     ExecutionsExist, Ids, AnswersAreTrue, AnnouncedIsDone, Matches, Gains
<1>3. CASE ReconcileSteps
  BY <1>3, ServedKept, SettledKept DEF ReconcileSteps
<1> QED
  BY <1>1, <1>2, <1>3, OpenKept, FormKept, SubmitKept, CancelKept DEF ReconciliationNext

\* The dialog, its requests and what they booked keep their types.
THEOREM DialogTypes == ReconciliationSpec => []DialogTypeOK
<1>1. DialogInv => DialogTypeOK
  BY DEF DialogInv
<1> QED
  BY <1>1, DialogInitially, DialogStep, PTL DEF ReconciliationSpec

\* What the monitoring page announces as reconciled is what the backend did, however many
\* requests timed out and were done all the same.
THEOREM Announced == ReconciliationSpec => []AnnouncedIsDone
<1>1. DialogInv => AnnouncedIsDone
  BY DEF DialogInv
<1> QED
  BY <1>1, DialogInitially, DialogStep, PTL DEF ReconciliationSpec

\* recalculatePnl: for any prices and sides, in whatever order they are entered, cleared and
\* overridden.
THEOREM PricesMatch == ReconciliationSpec => []PnLMatchesPrices
<1>1. DialogInv => PnLMatchesPrices
  BY DEF DialogInv, Matches, Gains, PnLMatchesPrices
<1> QED
  BY <1>1, DialogInitially, DialogStep, PTL DEF ReconciliationSpec

-------------------------------------------------------------------------------
(* The approval page                                                       *)

\* The page waits for one answer at most: for what it loads while it shows nothing, or for
\* a decision, which is true if it was taken.
Awaited(q) ==
  \/ q.op = "load" /\ approvalPage.approvalData = "none" /\ approvalPage.actionTaken = "none"
  \/ /\ q.op # "load" /\ approvalPage.submitting
     /\ approvalPage.actionTaken = "none" /\ ~approvalPage.error
     /\ q.answer # "none" /\ q.ok => approval = q.op

DecisionInv ==
  /\ ApprovalPageTypeOK /\ DecisionIsTrue
  /\ asking = {} \/ \E q \in Asking : asking = {q} /\ Awaited(q)

LEMMA DecisionInitially == ApprovalPageInit => DecisionInv
<1> SUFFICES ASSUME ApprovalPageInit PROVE DecisionInv
  OBVIOUS
<1>1. Ask("load") \in Asking /\ asking = {Ask("load")}
  BY DEF ApprovalPageInit, ApprovalPageOpened, Ask, Asking
<1>2. ApprovalPageTypeOK /\ DecisionIsTrue
  BY <1>1 DEF ApprovalPageInit, ApprovalPageOpened, ApprovalPageTypeOK, DecisionIsTrue,
     ApprovalPages
<1>3. Awaited(Ask("load"))
  BY DEF ApprovalPageInit, ApprovalPageOpened, Awaited, Ask
<1> QED
  BY <1>1, <1>2, <1>3 DEF DecisionInv

LEMMA DecisionStep == DecisionInv /\ [ApprovalPageNext]_approvalPageVars => DecisionInv'
<1> SUFFICES ASSUME DecisionInv, [ApprovalPageNext]_approvalPageVars PROVE DecisionInv'
  OBVIOUS
<1> USE DEF DecisionInv, ApprovalPageTypeOK, DecisionIsTrue, ApprovalPages, TokenStates
<1>1. ASSUME NEW decision \in {"approved", "rejected"}, SubmitDecision(decision)
      PROVE  DecisionInv'
  <2>1. asking = {}
    BY <1>1 DEF SubmitDecision, Offered, Awaited
  <2>2. asking' = {Ask(decision)} /\ Ask(decision) \in Asking
    BY <1>1, <2>1 DEF SubmitDecision, Ask, Asking
  <2> QED
    BY <1>1, <2>2 DEF SubmitDecision, Offered, Awaited, Ask
<1>2. CASE TokenMoves
  BY <1>2 DEF TokenMoves, Awaited, Asking
<1>3. ASSUME NEW q \in asking, AskingServed(q) PROVE DecisionInv'
  <2>1. asking = {q} /\ q \in Asking /\ Awaited(q)
    BY <1>3
  <2> DEFINE p == [q EXCEPT !.answer = approval, !.ok = (q.op = "load" \/ approval = "pending")]
  <2>2. PICK x \in Asking :
          /\ asking' = {x} /\ x.op = q.op /\ x.answer = approval
          /\ x.ok = (q.op = "load" \/ approval = "pending")
    <3>1. asking' = {p} /\ p \in Asking
      BY <1>3, <2>1 DEF AskingServed, Asking
    <3>2. p.op = q.op /\ p.answer = approval /\ p.ok = (q.op = "load" \/ approval = "pending")
      BY <2>1 DEF Asking
    <3> QED
      BY <3>1, <3>2
  <2> HIDE DEF p
  <2>3. Awaited(x)'
    <3>1. CASE q.op = "load"
      BY <1>3, <2>1, <2>2, <3>1 DEF AskingServed, Awaited
    <3>2. CASE q.op # "load"
      BY <1>3, <2>1, <2>2, <3>2 DEF AskingServed, Awaited
    <3> QED
      BY <3>1, <3>2
  <2>4. approval' \in TokenStates /\ UNCHANGED approvalPage
    BY <1>3, <2>1 DEF AskingServed, Asking
  <2>5. DecisionIsTrue'
    <3>1. approvalPage.actionTaken = "none"
      BY <2>1 DEF Awaited
    <3> QED
      BY <2>4, <3>1
  <2>6. asking' \subseteq Asking /\ \E y \in Asking : asking' = {y} /\ Awaited(y)'
    BY <2>2, <2>3
  <2> QED
    BY <2>4, <2>5, <2>6
<1>4. ASSUME NEW q \in asking, ApprovalLoaded(q) \/ DecisionTaken(q) \/ AskingFails(q)
      PROVE  DecisionInv'
  <2>1. asking = {q} /\ q \in Asking /\ Awaited(q)
    BY <1>4
  <2>2. asking' = {}
    BY <1>4, <2>1 DEF ApprovalLoaded, DecisionTaken, AskingFails
  <2>3. approvalPage' \in ApprovalPages /\ approval' = approval
    <3>1. CASE ApprovalLoaded(q)
      BY <2>1, <3>1 DEF ApprovalLoaded, Asking
    <3>2. CASE DecisionTaken(q)
      <4>1. q.op \in {"approved", "rejected"}
        BY <2>1, <3>2 DEF DecisionTaken, Asking
      <4> QED
        BY <3>2, <4>1 DEF DecisionTaken
    <3>3. CASE AskingFails(q)
      BY <3>3 DEF AskingFails
    <3> QED
      BY <1>4, <3>1, <3>2, <3>3
  <2>4. DecisionIsTrue'
    <3>1. CASE ApprovalLoaded(q)
      BY <3>1 DEF ApprovalLoaded
    <3>2. CASE DecisionTaken(q)
      BY <2>1, <3>2 DEF DecisionTaken, Awaited, Asking
    <3>3. CASE AskingFails(q)
      BY <2>1, <3>3 DEF AskingFails, Awaited, Asking
    <3> QED
      BY <1>4, <3>1, <3>2, <3>3
  <2> QED
    BY <2>2, <2>3, <2>4
<1>5. CASE UNCHANGED approvalPageVars
  BY <1>5 DEF approvalPageVars, Awaited
<1> QED
  BY <1>1, <1>2, <1>3, <1>4, <1>5 DEF ApprovalPageNext, Approve, Reject

\* The public approval page: what it says was decided is decided, and for good.
THEOREM DecisionTrue == ApprovalPageSpec => []DecisionIsTrue
<1>1. DecisionInv => DecisionIsTrue
  BY DEF DecisionInv
<1> QED
  BY <1>1, DecisionInitially, DecisionStep, PTL DEF ApprovalPageSpec

-------------------------------------------------------------------------------
(* The backtests                                                           *)

Run == [pipeline : Pipelines, status : RunStatuses]

\* Runs are added and change their status: later has the runs known before, of the same
\* pipelines.
Past(known, later) ==
  /\ DOMAIN known \subseteq DOMAIN later
  /\ \A r \in DOMAIN known : known[r].pipeline = later[r].pipeline

\* A request is about a run that there is, and remembers that run.
AboutRun == {"details", "executions", "report", "cancel"}
RequestOK(q, known) ==
  /\ q \in BacktestRequests /\ Past(q.seen, known)
  /\ q.kind \in AboutRun => q.run \in DOMAIN known
  /\ q.kind \in {"details", "report"} => q.run \in DOMAIN q.seen
  /\ q.kind \in {"launch", "orphan"} => q.run \in Pipelines

\* A page shows runs that there are; one without a selected run shows nothing of a run; and its
\* pipeline is that of its address or of its run.
PageOK(p, known) ==
  /\ p \in BacktestPages /\ Past(p.allRuns, known) /\ p.runs \subseteq DOMAIN p.allRuns
  /\ p.selectedRunId \in {0} \cup DOMAIN known /\ p.selectedRun.run \in {0} \cup DOMAIN known
  /\ p.view = "run" <=> p.selectedRunId # 0
  /\ p.selectedRunId = 0 =>
       p.selectedRun = NoRun /\ p.selectedReport = NoRun /\ p.reportState = "idle"
  /\ p.selectedRunId # 0 => p.selectedPipelineId \in {p.address, known[p.selectedRunId].pipeline}

BacktestInv ==
  /\ backtests \in RunRows /\ backtests # <<>>
  /\ PageOK(backtestPage, backtests) /\ launch \in Launches
  /\ \A q \in backtestRequests : RequestOK(q, backtests)
  /\ requestFailed \in BOOLEAN /\ backtestActions \in 0 .. MaxBacktestActions

LEMMA RowsAre ==
  ASSUME BacktestAssumption
  PROVE  \A x : x \in RunRows <=> x \in Seq(Run) /\ Len(x) \in RunIds
<1>1. ASSUME NEW x \in RunRows PROVE x \in Seq(Run) /\ Len(x) \in RunIds
  <2>1. PICK n \in RunIds : x \in [1 .. n -> Run]
    BY DEF RunRows, Run
  <2>2. n \in Nat
    BY DEF RunIds, BacktestAssumption
  <2> QED
    BY <2>1, <2>2
<1>2. ASSUME NEW x \in Seq(Run), Len(x) \in RunIds PROVE x \in RunRows
  <2>1. x \in [1 .. Len(x) -> Run]
    OBVIOUS
  <2> QED
    BY <1>2, <2>1 DEF RunRows, Run
<1> QED
  BY <1>1, <1>2

LEMMA RowIn ==
  ASSUME BacktestAssumption, NEW x \in RunRows
  PROVE  /\ DOMAIN x = 1 .. Len(x) /\ Len(x) \in Nat /\ Len(x) <= MaxRuns
         /\ DOMAIN x \subseteq Runs
         /\ \A r \in DOMAIN x : x[r] \in Run /\ x[r].pipeline \in Pipelines
                                /\ x[r].status \in RunStatuses /\ r \in Nat \ {0}
<1>1. x \in Seq(Run) /\ Len(x) \in RunIds
  BY RowsAre
<1>2. DOMAIN x = 1 .. Len(x) /\ Len(x) \in Nat /\ Len(x) <= MaxRuns
  BY <1>1 DEF RunIds, BacktestAssumption
<1>3. \A r \in DOMAIN x : x[r] \in Run
  BY <1>1
<1> QED
  BY <1>2, <1>3 DEF Run, Runs, BacktestAssumption

LEMMA PastTrans ==
  ASSUME NEW a, NEW b, NEW c, Past(a, b), Past(b, c)
  PROVE  Past(a, c)
BY DEF Past

LEMMA RequestGrows ==
  ASSUME NEW q, NEW a, NEW b, RequestOK(q, a), Past(a, b)
  PROVE  RequestOK(q, b)
BY PastTrans DEF RequestOK, Past

LEMMA PageGrows ==
  ASSUME NEW p, NEW a, NEW b, PageOK(p, a), Past(a, b)
  PROVE  PageOK(p, b)
<1>1. Past(p.allRuns, b)
  BY PastTrans DEF PageOK
<1> QED
  BY <1>1 DEF PageOK, Past

\* A run that changes its status, and a run more.
LEMMA RowsGrow ==
  ASSUME BacktestAssumption, NEW x \in RunRows
  PROVE  /\ \A r \in DOMAIN x, s \in RunStatuses :
              [x EXCEPT ![r].status = s] \in RunRows /\ Past(x, [x EXCEPT ![r].status = s])
              /\ [x EXCEPT ![r].status = s] # <<>>
         /\ \A p \in Pipelines : Len(x) < MaxRuns =>
              LET y == Append(x, [pipeline |-> p, status |-> "RUNNING"])
              IN  y \in RunRows /\ Past(x, y) /\ y # <<>>
<1>1. x \in Seq(Run) /\ Len(x) \in RunIds
  BY RowsAre
<1>2. ASSUME NEW r \in DOMAIN x, NEW s \in RunStatuses
      PROVE  LET y == [x EXCEPT ![r].status = s] IN y \in RunRows /\ Past(x, y) /\ y # <<>>
  <2> DEFINE y == [x EXCEPT ![r].status = s]
  <2>1. x[r] \in Run
    BY <1>1
  <2>2. [x[r] EXCEPT !.status = s] \in Run /\ [x[r] EXCEPT !.status = s].pipeline = x[r].pipeline
    BY <2>1 DEF Run
  <2>3. y \in Seq(Run) /\ Len(y) = Len(x) /\ DOMAIN y = DOMAIN x
    BY <1>1, <2>2
  <2>4. Past(x, y)
    BY <1>1, <2>2, <2>3 DEF Past
  <2>5. y # <<>>
    BY <1>1, <2>3
  <2>6. y \in RunRows
    BY <1>1, <2>3, RowsAre
  <2> QED
    BY <2>4, <2>5, <2>6
<1>3. ASSUME NEW p \in Pipelines, Len(x) < MaxRuns
      PROVE  LET y == Append(x, [pipeline |-> p, status |-> "RUNNING"])
             IN  y \in RunRows /\ Past(x, y) /\ y # <<>>
  <2> DEFINE e == [pipeline |-> p, status |-> "RUNNING"]
             y == Append(x, e)
  <2>1. e \in Run
    BY DEF Run, RunStatuses
  <2> HIDE DEF e
  <2>2. y \in Seq(Run) /\ Len(y) = Len(x) + 1
    BY <1>1, <2>1
  <2>3. Len(y) \in RunIds
    BY <1>1, <1>3, <2>2 DEF RunIds, BacktestAssumption
  <2>4. y \in RunRows
    BY <2>2, <2>3, RowsAre
  <2>5. Past(x, y)
    BY <1>1, <2>1, <2>2 DEF Past
  <2>6. y # <<>>
    BY <1>1, <2>2
  <2> QED
    BY <2>4, <2>5, <2>6 DEF e
<1> QED
  BY <1>2, <1>3

-------------------------------------------------------------------------------
(* Requests and pages                                                      *)

LEMMA NoRows == ASSUME BacktestAssumption PROVE <<>> \in RunRows /\ \A x : Past(<<>>, x)
<1>1. <<>> \in Seq(Run) /\ Len(<<>>) = 0 /\ DOMAIN <<>> = {}
  OBVIOUS
<1>2. 0 \in RunIds
  BY DEF RunIds, BacktestAssumption
<1> QED
  BY <1>1, <1>2, RowsAre DEF Past

LEMMA AskedIs == \A kind, run : Asked(kind, run).kind = kind /\ Asked(kind, run).run = run
BY DEF Asked

LEMMA AskedOK ==
  ASSUME BacktestAssumption, backtests \in RunRows
  PROVE  /\ RequestOK(Asked("runs", 0), backtests) /\ RequestOK(Asked("pipelines", 0), backtests)
         /\ \A r \in DOMAIN backtests, kind \in AboutRun : RequestOK(Asked(kind, r), backtests)
         /\ \A p \in Pipelines : RequestOK(Asked("launch", p), backtests)
<1>1. <<>> \in RunRows /\ \A kind, run : Asked(kind, run).seen \in {<<>>, backtests}
  BY NoRows DEF Asked
<1>2. Past(<<>>, backtests) /\ Past(backtests, backtests)
  BY NoRows DEF Past
<1>3. DOMAIN backtests \subseteq RunIds /\ 0 \in RunIds
  BY RowIn DEF RunIds, Runs, BacktestAssumption
<1>4. \A kind \in {"details", "report"} : \A run : Asked(kind, run).seen = backtests
  BY DEF Asked
<1>5. \A kind \in Kinds, run \in RunIds \cup Pipelines : Asked(kind, run) \in BacktestRequests
  BY <1>1 DEF BacktestRequests, Asked
<1>7. \A kind, run : Past(Asked(kind, run).seen, backtests)
  BY <1>1, <1>2
<1> QED
  BY <1>3, <1>4, <1>5, <1>7, AskedIs DEF RequestOK, AboutRun, Kinds

\* What was read after a request was sent has its run.
LEMMA ReadIs ==
  ASSUME BacktestAssumption, backtests \in RunRows, NEW q, RequestOK(q, backtests),
         NEW all \in Read(q)
  PROVE  /\ all \in RunRows /\ Past(all, backtests)
         /\ q.kind \in {"details", "report"} => q.run \in DOMAIN all /\ q.run \in DOMAIN backtests
                                               /\ all[q.run].status \in RunStatuses
<1>1. all \in RunRows /\ Past(all, backtests)
  BY DEF Read, RequestOK, BacktestRequests, Past
<1>2. q.kind \in {"details", "report"} => q.run \in DOMAIN all
  BY DEF Read, RequestOK, AboutRun
<1> QED
  BY <1>1, <1>2, RowIn DEF Past

LEMMA FreshOK ==
  ASSUME BacktestAssumption, backtests \in RunRows,
         NEW view \in Views, NEW id \in {0} \cup DOMAIN backtests, NEW p \in Pipelines \cup {0},
         view = "run" <=> id # 0
  PROVE  PageOK(Fresh(view, id, p), backtests)
<1>1. <<>> \in RunRows /\ Past(<<>>, backtests)
  BY NoRows
<1>2. id \in RunIds /\ 0 \in RunIds /\ NoRun \in Shots /\ NoRun.run = 0
  BY RowIn DEF RunIds, Runs, BacktestAssumption, Shots, NoRun
<1>3. Fresh(view, id, p) \in BacktestPages
  BY <1>1, <1>2 DEF Fresh, BacktestPages
<1> QED
  BY <1>1, <1>2, <1>3 DEF PageOK, Fresh

\* The same page for another run or another pipeline.
LEMMA OtherOK ==
  ASSUME BacktestAssumption, backtests \in RunRows, PageOK(backtestPage, backtests),
         NEW id \in {0} \cup DOMAIN backtests, NEW p \in Pipelines \cup {0},
         NEW awaited \in BOOLEAN, backtestPage.view = "run" <=> id # 0
  PROVE  PageOK([backtestPage EXCEPT !.selectedRunId = id, !.address = p,
                   !.selectedPipelineId = p, !.loadingRuns = awaited], backtests)
<1>1. id \in RunIds
  BY RowIn DEF RunIds, Runs, BacktestAssumption
<1> DEFINE new == [backtestPage EXCEPT !.selectedRunId = id, !.address = p,
                     !.selectedPipelineId = p, !.loadingRuns = awaited]
<1>2. new \in BacktestPages
  BY <1>1 DEF PageOK, BacktestPages
<1>3. /\ new.view = backtestPage.view /\ new.selectedRunId = id /\ new.address = p
      /\ new.selectedPipelineId = p /\ new.allRuns = backtestPage.allRuns
      /\ new.runs = backtestPage.runs /\ new.selectedRun = backtestPage.selectedRun
      /\ new.selectedReport = backtestPage.selectedReport
      /\ new.reportState = backtestPage.reportState
  BY DEF PageOK, BacktestPages
<1> HIDE DEF new
<1>4. id = 0 <=> backtestPage.selectedRunId = 0
  BY DEF PageOK
<1>5. PageOK(new, backtests)
  BY <1>2, <1>3, <1>4 DEF PageOK
<1> QED
  BY <1>5 DEF new

LEMMA SelectingOK ==
  ASSUME NEW p, PageOK(p, backtests), p.selectedRunId # 0
  PROVE  PageOK(Selecting(p), backtests)
BY DEF PageOK, Selecting, BacktestPages

LEMMA ClearedOK ==
  ASSUME NEW p, PageOK(p, backtests), BacktestAssumption
  PROVE  PageOK(Cleared(p), backtests)
<1> DEFINE new == Cleared(p)
<1>1. NoRun \in Shots /\ 0 \in RunIds /\ NoRun.run = 0
  BY DEF Shots, NoRun, RunIds, BacktestAssumption
<1>2. new \in BacktestPages
  BY <1>1 DEF PageOK, Cleared, BacktestPages
<1>3. /\ new.view = p.view /\ new.selectedRunId = p.selectedRunId /\ new.address = p.address
      /\ new.selectedPipelineId = p.selectedPipelineId /\ new.allRuns = p.allRuns
      /\ new.runs = p.runs /\ new.selectedRun = NoRun /\ new.selectedReport = NoRun
      /\ new.reportState = "idle"
  BY DEF PageOK, Cleared, BacktestPages
<1> HIDE DEF new
<1>4. PageOK(new, backtests)
  BY <1>1, <1>2, <1>3 DEF PageOK
<1> QED
  BY <1>4 DEF new

\* A list that has come.
LEMMA ListedOK ==
  ASSUME NEW p, PageOK(p, backtests), NEW all \in RunRows, Past(all, backtests),
         BacktestAssumption
  PROVE  PageOK([p EXCEPT !.allRuns = all, !.runs = RunsOf(p, all), !.loadingRuns = FALSE],
                backtests)
<1> DEFINE new == [p EXCEPT !.allRuns = all, !.runs = RunsOf(p, all), !.loadingRuns = FALSE]
<1>1. RunsOf(p, all) \subseteq DOMAIN all /\ DOMAIN all \subseteq Runs
  BY RowIn DEF RunsOf
<1>2. new \in BacktestPages
  BY <1>1 DEF PageOK, BacktestPages
<1>3. /\ new.view = p.view /\ new.selectedRunId = p.selectedRunId /\ new.address = p.address
      /\ new.selectedPipelineId = p.selectedPipelineId /\ new.allRuns = all
      /\ new.runs = RunsOf(p, all) /\ new.selectedRun = p.selectedRun
      /\ new.selectedReport = p.selectedReport /\ new.reportState = p.reportState
  BY DEF PageOK, BacktestPages
<1> HIDE DEF new
<1>4. PageOK(new, backtests)
  BY <1>1, <1>2, <1>3 DEF PageOK
<1> QED
  BY <1>4 DEF new

\* What leads to another page.
LEMMA GotoOK ==
  ASSUME BacktestAssumption, BacktestInv, UNCHANGED <<backtests, requestFailed>>,
         backtestActions' \in 0 .. MaxBacktestActions,
         NEW view \in Views, NEW id \in {0} \cup DOMAIN backtests, NEW p \in Pipelines \cup {0},
         view = "run" <=> id # 0, NEW pending \in SUBSET backtestRequests,
         Goto(view, id, p, pending)
  PROVE  BacktestInv'
<1>1. launch' \in Launches
  BY DEF Goto, NoLaunch, Launches
<1>2. PageOK(backtestPage', backtests)
  <2>1. CASE view = backtestPage.view /\ view # "home"
    BY ZenonT(30), <2>1, OtherOK DEF BacktestInv, Goto
  <2>2. CASE ~(view = backtestPage.view /\ view # "home")
    BY <2>2, FreshOK DEF BacktestInv, Goto
  <2> QED
    BY <2>1, <2>2
<1>3. \A q \in backtestRequests' : RequestOK(q, backtests)
  BY AskedOK DEF BacktestInv, Goto
<1> QED
  BY <1>1, <1>2, <1>3 DEF BacktestInv

\* An answer that is shown, and what is asked for with it.
LEMMA AnsweredOK ==
  ASSUME BacktestAssumption, BacktestInv, NEW q, NEW new, NEW sent, Answered(q, new, sent),
         PageOK(new, backtests), \A r \in sent : RequestOK(r, backtests)
  PROVE  BacktestInv'
BY DEF BacktestInv, Answered

LEMMA BacktestStep == BacktestInv /\ [BacktestsNext]_backtestVars => BacktestInv'
<1> SUFFICES ASSUME BacktestInv, [BacktestsNext]_backtestVars PROVE BacktestInv'
  OBVIOUS
<1> USE BacktestAssumption
<1>a. backtests \in RunRows /\ PageOK(backtestPage, backtests) /\ backtestPage \in BacktestPages
      /\ launch \in Launches
  BY DEF BacktestInv, PageOK
<1>b. BacktestAct => backtestActions' \in 0 .. MaxBacktestActions
  BY DEF BacktestAct, BacktestInv
<1>c. \A r \in DOMAIN backtests : r # 0 /\ PipelineOf(r) \in Pipelines
  BY <1>a, RowIn DEF PipelineOf
<1>d. \A r \in backtestPage.runs : r \in DOMAIN backtests
  BY <1>a DEF PageOK, Past
<1>1. CASE Visit
  <2>1. UNCHANGED <<backtests, requestFailed>> /\ backtestActions' \in 0 .. MaxBacktestActions
    BY <1>1, <1>b DEF Visit
  <2>2. ASSUME NEW p \in Pipelines \cup {0}, Goto("workspace", 0, p, backtestRequests)
        PROVE  BacktestInv'
    BY <2>1, <2>2, GotoOK DEF Views
  <2>3. ASSUME NEW r \in DOMAIN backtests, NEW p \in {0, PipelineOf(r)},
               Goto("run", r, p, backtestRequests)
        PROVE  BacktestInv'
    BY <1>c, <2>1, <2>3, GotoOK DEF Views
  <2>4. CASE Goto("home", 0, 0, {})
    BY <2>1, <2>4, GotoOK DEF Views
  <2> QED
    BY <1>1, <2>2, <2>3, <2>4 DEF Visit
<1>2. CASE OpenPipelineBacktests
  <2>1. PICK p \in Pipelines : Goto("workspace", 0, p, backtestRequests)
    BY <1>2 DEF OpenPipelineBacktests
  <2> QED
    BY <1>2, <1>b, <2>1, GotoOK DEF OpenPipelineBacktests, Views
<1>3. CASE SelectRun
  <2> DEFINE page(r) == [backtestPage EXCEPT !.selectedRunId = r,
                                             !.selectedPipelineId = PipelineOf(r)]
             news(r) == r # backtestPage.selectedRunId \/ backtestPage.address # PipelineOf(r)
  <2>1. PICK r \in backtestPage.runs :
          IF backtestPage.view # "run" THEN Goto("run", r, PipelineOf(r), {})
          ELSE /\ backtestPage' = [Selecting(page(r)) EXCEPT !.loadingRuns = news(r),
                                                             !.address = PipelineOf(r)]
               /\ backtestRequests' = backtestRequests \cup {Asked("details", r)}
                    \cup (IF news(r) THEN {Asked("runs", 0)} ELSE {})
               /\ UNCHANGED launch
    BY <1>3 DEF SelectRun
  <2>2. UNCHANGED <<backtests, requestFailed>> /\ backtestActions' \in 0 .. MaxBacktestActions
    BY <1>3, <1>b DEF SelectRun
  <2>3. r \in DOMAIN backtests /\ r # 0 /\ PipelineOf(r) \in Pipelines
    BY <1>c, <1>d
  <2>4. CASE backtestPage.view # "run"
    BY <2>1, <2>2, <2>3, <2>4, GotoOK DEF Views
  <2>5. CASE backtestPage.view = "run"
    <3> DEFINE new == [backtestPage EXCEPT !.selectedRunId = r, !.address = PipelineOf(r),
                         !.selectedPipelineId = PipelineOf(r), !.loadingRuns = news(r)]
    <3>1. PageOK(new, backtests)
      BY <1>a, <2>3, <2>5, OtherOK
    <3>2. PageOK(Selecting(new), backtests)
      BY <2>3, <3>1, SelectingOK, <1>a DEF BacktestPages
    <3>3. backtestPage' = Selecting(new)
      BY ZenonT(30), <1>a, <2>1, <2>5 DEF Selecting, BacktestPages
    <3>4. \A q \in backtestRequests' : RequestOK(q, backtests)
      BY <2>1, <2>3, <2>5, <1>a, AskedOK DEF BacktestInv, AboutRun
    <3> QED
      BY <2>1, <2>2, <2>5, <3>2, <3>3, <3>4 DEF BacktestInv
  <2> QED
    BY <2>4, <2>5
<1>4. CASE RefreshRuns
  <2>1. PageOK(backtestPage', backtests)
    BY <1>4, <1>a DEF RefreshRuns, PageOK, BacktestPages
  <2>2. \A q \in backtestRequests' : RequestOK(q, backtests)
    BY <1>4, <1>a, AskedOK DEF RefreshRuns, BacktestInv
  <2> QED
    BY <1>4, <1>b, <2>1, <2>2 DEF RefreshRuns, BacktestInv
<1>5. CASE PollTick
  <2>1. PageOK(backtestPage', backtests)
    BY <1>5, <1>a, SelectingOK DEF PollTick
  <2>2. backtestPage.selectedRunId # 0 => backtestPage.selectedRunId \in DOMAIN backtests
    BY <1>a DEF PageOK
  <2>3. \A q \in backtestRequests' : RequestOK(q, backtests)
    BY <1>5, <1>a, <2>2, AskedOK DEF PollTick, BacktestInv, AboutRun
  <2> QED
    BY <1>5, <1>b, <2>1, <2>3 DEF PollTick, BacktestInv
<1>6. ASSUME NEW q \in backtestRequests, RunsLoaded(q) PROVE BacktestInv'
  <2>1. PICK all \in Read(q) :
          LET page == [backtestPage EXCEPT !.allRuns = all, !.runs = RunsOf(backtestPage, all),
                                           !.loadingRuns = FALSE]
          IN  IF page.selectedRunId = 0 THEN Answered(q, Cleared(page), {})
              ELSE Answered(q, Selecting(page), {Asked("details", page.selectedRunId)})
    BY <1>6 DEF RunsLoaded
  <2> DEFINE page == [backtestPage EXCEPT !.allRuns = all, !.runs = RunsOf(backtestPage, all),
                                          !.loadingRuns = FALSE]
  <2>2. all \in RunRows /\ Past(all, backtests)
    BY <1>6, <1>a, ReadIs DEF BacktestInv
  <2>3. PageOK(page, backtests)
    BY <2>2, <1>a, ListedOK
  <2>4. page.selectedRunId # 0 => page.selectedRunId \in DOMAIN backtests
    BY <2>3 DEF PageOK
  <2>5. IF page.selectedRunId = 0 THEN Answered(q, Cleared(page), {})
        ELSE Answered(q, Selecting(page), {Asked("details", page.selectedRunId)})
    BY <2>1
  <2> HIDE DEF page
  <2>6. CASE page.selectedRunId = 0
    BY <2>3, <2>5, <2>6, ClearedOK, AnsweredOK
  <2>7. CASE page.selectedRunId # 0
    <3>1. PageOK(Selecting(page), backtests)
      BY <2>3, <2>7, SelectingOK
    <3>2. RequestOK(Asked("details", page.selectedRunId), backtests)
      BY <2>4, <2>7, <1>a, AskedOK DEF AboutRun
    <3> QED
      BY <2>5, <2>7, <3>1, <3>2, AnsweredOK
  <2> QED
    BY <2>6, <2>7
<1>7. ASSUME NEW q \in backtestRequests, DetailsLoaded(q) PROVE BacktestInv'
  <2> DEFINE sent == RestOf(q.run) \cup (IF backtestPage.selectedPipelineId = PipelineOf(q.run)
                                         THEN {} ELSE {Asked("runs", 0)})
  <2>1. PICK all \in Read(q) :
          IF backtestPage.selectedRunId # q.run THEN Answered(q, backtestPage, {})
          ELSE Answered(q, Detailed(q.run, all[q.run].status), sent)
    BY <1>7 DEF DetailsLoaded
  <2>2. q.run \in DOMAIN backtests /\ all[q.run].status \in RunStatuses
    BY <1>7, <1>a, ReadIs DEF BacktestInv, DetailsLoaded
  <2>3. CASE backtestPage.selectedRunId # q.run
    BY <1>a, <2>1, <2>3, AnsweredOK
  <2>4. CASE backtestPage.selectedRunId = q.run
    <3>1. \A r \in sent : RequestOK(r, backtests)
      BY <1>a, <2>2, AskedOK DEF RestOf, AboutRun
    <3> DEFINE new == Detailed(q.run, all[q.run].status)
    <3>2. [run |-> q.run, status |-> all[q.run].status] \in Shots
      BY <1>a, <2>2, RowIn DEF Shots
    <3>3. new \in BacktestPages
      BY <1>a, <1>c, <2>2, <3>2 DEF Detailed, BacktestPages
    <3>4. /\ new.view = backtestPage.view /\ new.selectedRunId = q.run
          /\ new.address = backtestPage.address /\ new.selectedPipelineId = PipelineOf(q.run)
          /\ new.allRuns = backtestPage.allRuns /\ new.runs = backtestPage.runs
          /\ new.selectedRun.run = q.run
      BY <1>a, <2>4 DEF Detailed, BacktestPages
    <3> HIDE DEF new, sent
    <3>5. PageOK(new, backtests)
      BY <1>a, <1>c, <2>2, <2>4, <3>3, <3>4 DEF PageOK, PipelineOf
    <3>6. Answered(q, new, sent)
      BY <2>1, <2>4 DEF new, sent
    <3> QED
      BY <3>1, <3>5, <3>6, AnsweredOK
  <2> QED
    BY <2>3, <2>4
<1>8. ASSUME NEW q \in backtestRequests, ExecutionsLoaded(q) PROVE BacktestInv'
  <2> DEFINE new == [backtestPage EXCEPT !.selectedExecutions = q.run,
                       !.selectedExecution = IF @ = q.run THEN @ ELSE 0]
  <2>1. q.run \in DOMAIN backtests /\ q.run \in RunIds /\ 0 \in RunIds
    BY <1>8, <1>a, RowIn DEF ExecutionsLoaded, BacktestInv, RequestOK, AboutRun, RunIds, Runs
  <2>2. PageOK(new, backtests)
    BY <1>a, <2>1 DEF PageOK, BacktestPages
  <2> QED
    BY <1>8, <2>2, AnsweredOK DEF ExecutionsLoaded
<1>9. ASSUME NEW q \in backtestRequests, ReportLoaded(q) PROVE BacktestInv'
  <2> DEFINE new(all) == [backtestPage EXCEPT !.reportState = "ready",
                            !.selectedReport = [run |-> q.run, status |-> all[q.run].status]]
  <2>1. PICK all \in Read(q) :
          Answered(q, IF backtestPage.selectedRunId # q.run THEN backtestPage ELSE new(all), {})
    BY <1>9 DEF ReportLoaded
  <2>2. q.run \in DOMAIN backtests /\ all[q.run].status \in RunStatuses
    BY <1>9, <1>a, ReadIs DEF BacktestInv, ReportLoaded
  <2>3. [run |-> q.run, status |-> all[q.run].status] \in Shots
    BY <1>a, <2>2, RowIn DEF Shots
  <2>4. backtestPage.selectedRunId = q.run => PageOK(new(all), backtests)
    BY <1>a, <1>c, <2>2, <2>3 DEF PageOK, BacktestPages
  <2> QED
    BY <1>a, <2>1, <2>4, AnsweredOK
<1>10. ASSUME NEW q \in backtestRequests, CancelAnswered(q) PROVE BacktestInv'
  <2> DEFINE page == [backtestPage EXCEPT !.cancelling = 0]
  <2>1. q.run \in DOMAIN backtests /\ q.run # 0
    BY <1>10, <1>a, <1>c DEF CancelAnswered, BacktestInv, RequestOK, AboutRun
  <2>2. PageOK(page, backtests) /\ page.selectedRunId = backtestPage.selectedRunId
    BY <1>a DEF PageOK, BacktestPages, RunIds, BacktestAssumption
  <2>3. IF q.answer = "refused" THEN Answered(q, page, {})
        ELSE IF page.selectedRunId # q.run THEN Answered(q, page, {Asked("runs", 0)})
        ELSE Answered(q, Selecting(page), {Asked("runs", 0), Asked("details", q.run)})
    BY <1>10 DEF CancelAnswered
  <2> HIDE DEF page
  <2>4. RequestOK(Asked("runs", 0), backtests) /\ RequestOK(Asked("details", q.run), backtests)
    BY <1>a, <2>1, AskedOK DEF AboutRun
  <2>5. page.selectedRunId = q.run => PageOK(Selecting(page), backtests)
    BY <2>1, <2>2, SelectingOK
  <2>6. CASE q.answer = "refused"
    BY <2>2, <2>3, <2>6, AnsweredOK
  <2>7. CASE q.answer # "refused" /\ page.selectedRunId # q.run
    BY <2>2, <2>3, <2>4, <2>7, AnsweredOK
  <2>8. CASE q.answer # "refused" /\ page.selectedRunId = q.run
    BY <2>3, <2>4, <2>5, <2>8, AnsweredOK
  <2> QED
    BY <2>6, <2>7, <2>8
<1>11. ASSUME NEW q \in backtestRequests, LaunchAnswered(q) PROVE BacktestInv'
  <2>1. UNCHANGED <<backtests, requestFailed, backtestActions>>
    BY <1>11 DEF LaunchAnswered
  <2>2. backtestActions' \in 0 .. MaxBacktestActions
    BY <2>1 DEF BacktestInv
  <2>3. CASE q.kind = "launch" /\ Goto("run", Len(backtests), q.run, backtestRequests \ {q})
    <3>1. q.run \in Pipelines
      BY <2>3 DEF BacktestInv, RequestOK
    <3>2. Len(backtests) \in DOMAIN backtests /\ Len(backtests) # 0
      <4>1. backtests \in Seq(Run)
        BY <1>a, RowsAre
      <4> QED
        BY <4>1 DEF BacktestInv
    <3> QED
      BY <2>1, <2>2, <2>3, <3>1, <3>2, GotoOK DEF Views
  <2>4. CASE /\ q.kind = "orphan" /\ backtestRequests' = backtestRequests \ {q}
             /\ UNCHANGED <<backtestPage, launch>>
    BY <2>1, <2>4 DEF BacktestInv
  <2> QED
    BY <1>11, <2>3, <2>4 DEF LaunchAnswered
<1>12. ASSUME NEW q \in backtestRequests, PipelinesLoaded(q) PROVE BacktestInv'
  BY <1>12, <1>a, AnsweredOK DEF PipelinesLoaded
<1>13. ASSUME NEW q \in backtestRequests, RequestFails(q) PROVE BacktestInv'
  <2>1. PageOK(backtestPage', backtests)
    <3>0. 0 \in RunIds /\ NoRun \in Shots /\ NoRun.run = 0
      BY DEF RunIds, BacktestAssumption, Shots, NoRun
    <3>1. ASSUME q.kind = "runs" PROVE PageOK(backtestPage', backtests)
      BY <1>13, <3>1, <1>a DEF RequestFails, PageOK, BacktestPages
    <3>2. ASSUME q.kind = "executions" PROVE PageOK(backtestPage', backtests)
      BY <1>13, <3>0, <3>2, <1>a DEF RequestFails, PageOK, BacktestPages
    <3>3. ASSUME q.kind = "report" PROVE PageOK(backtestPage', backtests)
      <4>1. backtestPage' = ReportFailed(backtestPage, q)
        BY <1>13, <3>3 DEF RequestFails
      <4>2. q.run # 0
        BY <1>c, <3>3 DEF BacktestInv, RequestOK, AboutRun
      <4> QED
        BY <4>1, <4>2, <3>0, <1>a DEF ReportFailed, PageOK, BacktestPages
    <3>4. ASSUME q.kind = "cancel" PROVE PageOK(backtestPage', backtests)
      BY <1>13, <3>0, <3>4, <1>a DEF RequestFails, PageOK, BacktestPages
    <3>5. ASSUME q.kind \notin {"runs", "executions", "report", "cancel"}
          PROVE  PageOK(backtestPage', backtests)
      BY <1>13, <3>5, <1>a DEF RequestFails
    <3> QED
      BY <3>1, <3>2, <3>3, <3>4, <3>5
  <2>2. launch' \in Launches
    BY <1>13, <1>a DEF RequestFails, Launches
  <2> QED
    BY <1>13, <1>b, <2>1, <2>2 DEF RequestFails, BacktestInv
<1>14. ASSUME NEW q \in backtestRequests, CommandServed(q) PROVE BacktestInv'
  <2>1. RequestOK(q, backtests) /\ q \in BacktestRequests
    BY DEF BacktestInv, RequestOK
  <2>2. backtests' \in RunRows /\ backtests' # <<>> /\ Past(backtests, backtests')
    <3>1. CASE q.kind = "cancel"
      <4>1. q.run \in DOMAIN backtests
        BY <2>1, <3>1 DEF RequestOK, AboutRun
      <4>2. CASE backtests[q.run].status = "COMPLETED"
        BY <1>14, <3>1, <4>2 DEF CommandServed, Past, BacktestInv
      <4>3. CASE backtests[q.run].status # "COMPLETED"
        BY ZenonT(30), <1>14, <1>a, <3>1, <4>1, <4>3, RowsGrow DEF CommandServed, RunStatuses
      <4> QED
        BY <4>2, <4>3
    <3>2. CASE q.kind = "launch"
      BY <1>14, <1>a, <2>1, <3>2, RowsGrow DEF CommandServed, RequestOK
    <3> QED
      BY <1>14, <3>1, <3>2 DEF CommandServed
  <2>3. PICK a \in {"ok", "refused"} :
          backtestRequests' = (backtestRequests \ {q}) \cup {[q EXCEPT !.answer = a]}
    BY <1>14 DEF CommandServed
  <2>4. RequestOK([q EXCEPT !.answer = a], backtests)
    BY <2>1 DEF RequestOK, BacktestRequests
  <2>5. \A r \in backtestRequests' : RequestOK(r, backtests')
    BY <2>2, <2>3, <2>4, RequestGrows DEF BacktestInv
  <2>6. PageOK(backtestPage, backtests')
    BY <1>a, <2>2, PageGrows
  <2> QED
    BY <1>14, <2>2, <2>5, <2>6 DEF CommandServed, BacktestInv
<1>15. CASE RunEnds
  <2>1. PICK r \in DOMAIN backtests :
          backtests' = [backtests EXCEPT ![r].status = "COMPLETED"]
    BY <1>15 DEF RunEnds
  <2>2. backtests' \in RunRows /\ backtests' # <<>> /\ Past(backtests, backtests')
    BY <1>a, <2>1, RowsGrow DEF RunStatuses
  <2>3. UNCHANGED <<backtestPage, launch, backtestRequests, requestFailed>>
    BY <1>15 DEF RunEnds
  <2>4. \A q \in backtestRequests' : RequestOK(q, backtests')
    BY <2>2, <2>3, RequestGrows DEF BacktestInv
  <2>5. PageOK(backtestPage, backtests')
    BY <1>a, <2>2, PageGrows
  <2> QED
    BY <1>15, <1>b, <2>2, <2>3, <2>4, <2>5 DEF RunEnds, BacktestInv
<1>16. CASE SelectExecution \/ CloseExecutionDrawer
  <2>1. PageOK(backtestPage', backtests)
    BY <1>16, <1>a
       DEF SelectExecution, CloseExecutionDrawer, PageOK, BacktestPages, RunIds, BacktestAssumption
  <2> QED
    BY <1>16, <1>b, <2>1 DEF SelectExecution, CloseExecutionDrawer, BacktestInv
<1>17. CASE CancelRun
  <2>1. backtestPage.selectedRun.run \in DOMAIN backtests
    BY <1>17, <1>a DEF CancelRun, PageOK, BacktestPages, Shots, Runs
  <2>2. backtestPage.selectedRun.run \in RunIds
    BY <1>a, <2>1, RowIn DEF RunIds, Runs
  <2>3. PageOK(backtestPage', backtests)
    <3> DEFINE run == backtestPage.selectedRun.run
    <3>1. backtestPage' = [backtestPage EXCEPT !.cancelling = run]
      BY <1>17 DEF CancelRun
    <3> HIDE DEF run
    <3>2. run \in RunIds
      BY <2>2 DEF run
    <3> QED
      BY <1>a, <3>1, <3>2 DEF PageOK, BacktestPages
  <2>4. \A q \in backtestRequests' : RequestOK(q, backtests)
    BY <1>17, <1>a, <2>1, AskedOK DEF CancelRun, BacktestInv, AboutRun
  <2> QED
    BY <1>17, <1>b, <2>3, <2>4 DEF CancelRun, BacktestInv
<1>18. CASE OpenLaunchDialog
  BY <1>18, <1>b DEF OpenLaunchDialog, BacktestInv, NoLaunch, Launches
<1>19. CASE EditLaunch
  BY <1>19, <1>b DEF EditLaunch, BacktestInv, Launches
<1>20. CASE LaunchBacktest
  <2>1. launch.pipeline \in Pipelines /\ launch' \in Launches
    BY <1>20, <1>a DEF LaunchBacktest, CanLaunch, Launches
  <2>2. \A q \in backtestRequests' : RequestOK(q, backtests)
    BY <1>20, <1>a, <2>1, AskedOK DEF LaunchBacktest, BacktestInv
  <2> QED
    BY <1>20, <2>1, <2>2 DEF LaunchBacktest, BacktestInv
<1>21. CASE CloseLaunchDialog
  <2>1. ASSUME NEW q \in backtestRequests, q.kind = "launch"
        PROVE  RequestOK([q EXCEPT !.kind = "orphan"], backtests)
    BY <2>1 DEF BacktestInv, RequestOK, BacktestRequests, Kinds, AboutRun
  <2>2. RequestOK(Asked("runs", 0), backtests)
    BY <1>a, AskedOK
  <2>3. \A q \in backtestRequests' : RequestOK(q, backtests)
    BY <1>21, <2>1, <2>2 DEF CloseLaunchDialog, BacktestInv
  <2> QED
    BY <1>21, <2>3 DEF CloseLaunchDialog, BacktestInv, NoLaunch, Launches
<1>22. CASE UNCHANGED backtestVars
  BY <1>22 DEF backtestVars, BacktestInv
<1> QED
  BY <1>1, <1>2, <1>3, <1>4, <1>5, <1>6, <1>7, <1>8, <1>9, <1>10, <1>11, <1>12, <1>13, <1>14,
     <1>15, <1>16, <1>17, <1>18, <1>19, <1>20, <1>21, <1>22
     DEF BacktestsNext, BacktestUser, BacktestAnswers

LEMMA BacktestInitially == BacktestsInit => BacktestInv
<1> SUFFICES ASSUME BacktestsInit PROVE BacktestInv
  OBVIOUS
<1> USE BacktestAssumption
<1>1. backtests \in RunRows /\ backtests # <<>>
  <2>1. PICK n \in Runs :
          backtests \in [1 .. n -> [pipeline : Pipelines, status : {"RUNNING", "COMPLETED"}]]
    BY DEF BacktestsInit
  <2>2. n \in Nat /\ n \in RunIds /\ n # 0
    BY DEF Runs, RunIds, BacktestAssumption
  <2>3. \A r \in 1 .. n : backtests[r] \in Run
    BY <2>1 DEF Run, RunStatuses
  <2>4. backtests \in [1 .. n -> Run]
    BY <2>1, <2>3
  <2>5. backtests \in Seq(Run) /\ Len(backtests) = n
    BY <2>2, <2>4
  <2> QED
    BY <2>2, <2>5, RowsAre
<1>2. PICK view \in {"home", "run"}, id \in {0} \cup DOMAIN backtests :
        BacktestsOpened(view, id) /\ (view = "run" <=> id # 0)
  <2>1. \A r \in DOMAIN backtests : r # 0
    BY <1>1, RowIn
  <2> QED
    BY <2>1 DEF BacktestsInit
<1>3. PageOK(backtestPage, backtests)
  BY <1>1, <1>2, FreshOK DEF BacktestsOpened, Views
<1>4. \A q \in backtestRequests : RequestOK(q, backtests)
  BY <1>1, <1>2, AskedOK DEF BacktestsOpened
<1>5. launch \in Launches
  BY <1>2 DEF BacktestsOpened, NoLaunch, Launches
<1>6. requestFailed \in BOOLEAN /\ backtestActions \in 0 .. MaxBacktestActions
  <2>1. requestFailed = FALSE /\ backtestActions = 0
    BY <1>2 DEF BacktestsOpened
  <2>2. MaxBacktestActions \in Nat
    BY DEF BacktestAssumption
  <2>3. backtestActions \in 0 .. MaxBacktestActions
    BY <2>1, <2>2
  <2> QED
    BY <2>1, <2>3
<1> QED
  BY <1>1, <1>3, <1>4, <1>5, <1>6 DEF BacktestInv

\* The backtest pages keep their types, for any pipelines, runs and requests: a page and its
\* requests are about runs that there are, those of a dialog that was closed included.
THEOREM BacktestTypes == BacktestsSpec => []BacktestsTypeOK
<1>1. BacktestInv => BacktestsTypeOK
  BY DEF BacktestInv, BacktestsTypeOK, PageOK, RequestOK
<1> QED
  BY <1>1, BacktestInitially, BacktestStep, PTL DEF BacktestsSpec

-------------------------------------------------------------------------------
(* What is on show                                                         *)

\* The list, the details of the selected run and its report are on their way.  An answer to
\* the first asks for the second, that for the third.
Listing == \E q \in backtestRequests : q.kind = "runs"
Detailing == \E q \in backtestRequests :
               q.kind = "details" /\ q.run = backtestPage.selectedRunId
Reporting == \E q \in backtestRequests :
               q.kind = "report" /\ q.run = backtestPage.selectedRunId

\* What is not on its way is on show.
DetailsShown ==
  /\ backtestPage.selectedRun.run = backtestPage.selectedRunId
  /\ backtestPage.selectedPipelineId = PipelineOf(backtestPage.selectedRunId)
ReportShown ==
  backtestPage.selectedReport.run = backtestPage.selectedRunId /\ backtestPage.reportState = "ready"

OnShow ==
  /\ backtestPage.runs = RunsOf(backtestPage, backtestPage.allRuns)
  /\ backtestPage.selectedRunId # 0 =>
       Detailing \/ (DetailsShown /\ (Reporting \/ ReportShown))
ShownInv == ~requestFailed /\ backtestPage.view # "home" => Listing \/ OnShow

shownParts ==
  <<backtestPage.view, backtestPage.selectedRunId, backtestPage.selectedPipelineId,
    backtestPage.runs, backtestPage.allRuns, backtestPage.selectedRun.run,
    backtestPage.selectedReport.run, backtestPage.reportState>>

\* A step that changes none of this and answers none of these requests.
LEMMA ShownFrame ==
  ASSUME ShownInv, UNCHANGED shownParts, UNCHANGED requestFailed, BacktestInv,
         BacktestInv', Past(backtests, backtests'),
         \A q \in backtestRequests :
           q.kind \in {"runs", "details", "report"} => q \in backtestRequests'
  PROVE  ShownInv'
<1>1. \A r \in {0} \cup DOMAIN backtests : PipelineOf(r)' = PipelineOf(r)
  BY DEF PipelineOf, Past
<1>2. backtestPage.selectedRun.run \in {0} \cup DOMAIN backtests
      /\ backtestPage.selectedRunId \in {0} \cup DOMAIN backtests
  BY DEF BacktestInv, PageOK
<1>3. ActivePipelineId(backtestPage)' = ActivePipelineId(backtestPage)
  BY <1>1, <1>2 DEF ActivePipelineId, shownParts, PipelineOf, Past
<1>4. RunsOf(backtestPage, backtestPage.allRuns)' = RunsOf(backtestPage, backtestPage.allRuns)
  BY <1>3 DEF RunsOf, shownParts
<1>5. Listing => Listing'
  BY DEF Listing
<1>6. (Detailing => Detailing') /\ (Reporting => Reporting')
  BY DEF Detailing, Reporting, shownParts
<1>7. (DetailsShown => DetailsShown') /\ (ReportShown => ReportShown')
  BY <1>1, <1>2 DEF DetailsShown, ReportShown, shownParts, PipelineOf, Past
<1>8. OnShow => OnShow'
  BY <1>4, <1>6, <1>7 DEF OnShow, shownParts
<1> QED
  BY <1>5, <1>8 DEF ShownInv, shownParts

LEMMA GotoShown ==
  ASSUME NEW view, NEW id, NEW p, NEW pending, Goto(view, id, p, pending)
  PROVE  Listing'
BY AskedIs DEF Goto, Listing

LEMMA ShownInitially == BacktestsInit => ShownInv
BY AskedIs DEF BacktestsInit, BacktestsOpened, ShownInv, Listing

LEMMA ShownStep ==
  BacktestInv /\ ShownInv /\ [BacktestsNext]_backtestVars => ShownInv'
<1> SUFFICES ASSUME BacktestInv, ShownInv, [BacktestsNext]_backtestVars PROVE ShownInv'
  OBVIOUS
<1> USE BacktestAssumption
<1>i. BacktestInv'
  BY BacktestStep
<1>a. backtests \in RunRows /\ PageOK(backtestPage, backtests) /\ backtestPage \in BacktestPages
  BY DEF BacktestInv, PageOK
<1>l. Listing' => ShownInv'
  BY DEF ShownInv
<1>p. Past(backtests, backtests)
  BY DEF Past
<1>1. CASE Visit \/ OpenPipelineBacktests
  BY <1>1, <1>l, GotoShown DEF Visit, OpenPipelineBacktests
<1>2. CASE RefreshRuns \/ PollTick \/ CloseLaunchDialog
  BY <1>2, <1>l, AskedIs DEF RefreshRuns, PollTick, CloseLaunchDialog, Listing
<1>3. CASE SelectRun
  <2> DEFINE page(r) == [backtestPage EXCEPT !.selectedRunId = r,
                                             !.selectedPipelineId = PipelineOf(r)]
             news(r) == r # backtestPage.selectedRunId \/ backtestPage.address # PipelineOf(r)
  <2>1. PICK r \in backtestPage.runs :
          IF backtestPage.view # "run" THEN Goto("run", r, PipelineOf(r), {})
          ELSE /\ backtestPage' = [Selecting(page(r)) EXCEPT !.loadingRuns = news(r),
                                                             !.address = PipelineOf(r)]
               /\ backtestRequests' = backtestRequests \cup {Asked("details", r)}
                    \cup (IF news(r) THEN {Asked("runs", 0)} ELSE {})
               /\ UNCHANGED launch
    BY <1>3 DEF SelectRun
  <2>2. CASE backtestPage.view # "run"
    BY <1>l, <2>1, <2>2, GotoShown
  <2>3. CASE backtestPage.view = "run" /\ news(r)
    BY <1>l, <2>1, <2>3, AskedIs DEF Listing
  <2>4. CASE backtestPage.view = "run" /\ ~news(r)
    <3>1. r \in DOMAIN backtests /\ r # 0 /\ r = backtestPage.selectedRunId
      BY <1>a, <2>4, RowIn DEF PageOK, Past
    <3>2. backtestPage.address = PipelineOf(r) /\ PipelineOf(r) = backtests[r].pipeline
      BY <2>4, <3>1 DEF PipelineOf
    <3>3. backtestPage.selectedPipelineId = PipelineOf(r)
      BY <1>a, <3>1, <3>2 DEF PageOK
    <3>4. UNCHANGED <<backtestPage.view, backtestPage.selectedRunId, backtests,
                      backtestPage.selectedPipelineId, backtestPage.runs,
                      backtestPage.allRuns, backtestPage.selectedRun, requestFailed>>
      <4>1. page(r) = backtestPage
        BY <1>a, <3>1, <3>3 DEF BacktestPages
      <4>2. backtestPage' = [Selecting(backtestPage) EXCEPT !.loadingRuns = news(r),
                                                            !.address = PipelineOf(r)]
        BY <2>1, <2>4, <4>1
      <4> HIDE DEF news
      <4>3. Selecting(backtestPage) \in
              {backtestPage, [backtestPage EXCEPT !.reportState = "loading"]}
        BY DEF Selecting
      <4>4. UNCHANGED <<backtests, requestFailed>>
        BY <1>3 DEF SelectRun
      <4> QED
        BY <1>a, <4>2, <4>3, <4>4 DEF BacktestPages
    <3>5. RunsOf(backtestPage, backtestPage.allRuns)' = RunsOf(backtestPage, backtestPage.allRuns)
      BY <3>4 DEF RunsOf, ActivePipelineId, PipelineOf
    <3>6. Detailing'
      BY <2>1, <2>4, <3>1, <3>4, AskedIs DEF Detailing
    <3>7. Listing => Listing'
      BY <2>1, <2>4 DEF Listing
    <3>8. OnShow => OnShow'
      BY <3>4, <3>5, <3>6 DEF OnShow
    <3> QED
      BY <3>4, <3>7, <3>8 DEF ShownInv
  <2> QED
    BY <2>2, <2>3, <2>4
<1>4. ASSUME NEW q \in backtestRequests, RunsLoaded(q) PROVE ShownInv'
  <2> DEFINE page(all) == [backtestPage EXCEPT !.allRuns = all,
                             !.runs = RunsOf(backtestPage, all), !.loadingRuns = FALSE]
  <2>1. PICK all \in Read(q) :
          IF page(all).selectedRunId = 0 THEN Answered(q, Cleared(page(all)), {})
          ELSE Answered(q, Selecting(page(all)), {Asked("details", page(all).selectedRunId)})
    BY <1>4 DEF RunsLoaded
  <2>2. page(all).selectedRunId = backtestPage.selectedRunId
    BY <1>a DEF BacktestPages
  <2>3. backtestPage' = IF backtestPage.selectedRunId = 0 THEN Cleared(page(all))
                        ELSE Selecting(page(all))
    BY <2>1, <2>2 DEF Answered
  <2>4. /\ backtestPage'.runs = RunsOf(backtestPage, all) /\ backtestPage'.allRuns = all
        /\ backtestPage'.selectedRun = backtestPage.selectedRun
        /\ UNCHANGED <<backtests, backtestPage.selectedRunId, backtestPage.selectedPipelineId>>
    <3>1. UNCHANGED backtests
      BY <2>1 DEF Answered
    <3>2. CASE backtestPage.selectedRunId = 0
      BY <1>a, <2>3, <3>1, <3>2 DEF Cleared, BacktestPages, PageOK
    <3>3. CASE backtestPage.selectedRunId # 0
      BY <1>a, <2>3, <3>1, <3>3 DEF Selecting, BacktestPages
    <3> QED
      BY <3>2, <3>3
  <2>5. RunsOf(backtestPage, backtestPage.allRuns)' = RunsOf(backtestPage, all)
    BY <2>4 DEF RunsOf, ActivePipelineId, PipelineOf
  <2>6. backtestPage'.selectedRunId # 0 => Detailing'
    BY <2>1, <2>2, <2>4, AskedIs DEF Answered, Detailing
  <2> QED
    BY <2>4, <2>5, <2>6 DEF ShownInv, OnShow
<1>5. ASSUME NEW q \in backtestRequests, DetailsLoaded(q) PROVE ShownInv'
  <2> DEFINE sent == RestOf(q.run) \cup (IF backtestPage.selectedPipelineId = PipelineOf(q.run)
                                         THEN {} ELSE {Asked("runs", 0)})
  <2>1. PICK all \in Read(q) :
          IF backtestPage.selectedRunId # q.run THEN Answered(q, backtestPage, {})
          ELSE Answered(q, Detailed(q.run, all[q.run].status), sent)
    BY <1>5 DEF DetailsLoaded
  <2>2. q.kind = "details"
    BY <1>5 DEF DetailsLoaded
  <2>3. CASE backtestPage.selectedRunId # q.run
    <3>1. /\ backtestPage' = backtestPage /\ backtestRequests' = backtestRequests \ {q}
          /\ UNCHANGED <<backtests, requestFailed>>
      BY <2>1, <2>3 DEF Answered
    <3>2. RunsOf(backtestPage, backtestPage.allRuns)' = RunsOf(backtestPage, backtestPage.allRuns)
      BY <3>1 DEF RunsOf, ActivePipelineId, PipelineOf
    <3>3. (Listing => Listing') /\ (Detailing => Detailing') /\ (Reporting => Reporting')
      BY <2>2, <2>3, <3>1 DEF Listing, Detailing, Reporting
    <3>4. (DetailsShown => DetailsShown') /\ (ReportShown => ReportShown')
      BY <3>1 DEF DetailsShown, ReportShown, PipelineOf
    <3> QED
      BY <3>1, <3>2, <3>3, <3>4 DEF ShownInv, OnShow
  <2>4. CASE /\ backtestPage.selectedRunId = q.run
             /\ backtestPage.selectedPipelineId # PipelineOf(q.run)
    <3>1. Asked("runs", 0) \in backtestRequests'
      BY <2>1, <2>4 DEF Answered
    <3> QED
      BY <1>l, <3>1, AskedIs DEF Listing
  <2>5. CASE /\ backtestPage.selectedRunId = q.run
             /\ backtestPage.selectedPipelineId = PipelineOf(q.run)
    <3>1. /\ backtestPage' = Detailed(q.run, all[q.run].status)
          /\ backtestRequests' = (backtestRequests \ {q}) \cup RestOf(q.run)
          /\ UNCHANGED <<backtests, requestFailed>>
      BY <2>1, <2>5 DEF Answered
    <3>2. /\ backtestPage'.selectedRun.run = q.run
          /\ backtestPage'.reportState = (IF ReportKnown(q.run) THEN "ready" ELSE "loading")
          /\ UNCHANGED <<backtestPage.view, backtestPage.selectedRunId,
                         backtestPage.selectedPipelineId, backtestPage.runs,
                         backtestPage.allRuns, backtestPage.selectedReport>>
      BY <1>a, <2>5, <3>1 DEF Detailed, BacktestPages
    <3>3. q.run \in DOMAIN backtests /\ PipelineOf(q.run) # 0
      BY <1>a, <2>2, RowIn, BacktestAssumption
         DEF BacktestInv, RequestOK, AboutRun, PipelineOf, BacktestAssumption
    <3>4. RunsOf(backtestPage, backtestPage.allRuns)' = RunsOf(backtestPage, backtestPage.allRuns)
      BY <2>5, <3>1, <3>2, <3>3 DEF RunsOf, ActivePipelineId, PipelineOf
    <3>5. Listing => Listing'
      BY <2>2, <3>1 DEF Listing
    <3>6. DetailsShown'
      BY <2>5, <3>1, <3>2 DEF DetailsShown, PipelineOf
    <3>7. Reporting' \/ ReportShown'
      BY <2>5, <3>1, <3>2, AskedIs DEF Reporting, ReportShown, ReportKnown, RestOf
    <3> QED
      BY <3>1, <3>2, <3>4, <3>5, <3>6, <3>7 DEF ShownInv, OnShow
  <2> QED
    BY <2>3, <2>4, <2>5
<1>6. ASSUME NEW q \in backtestRequests, ReportLoaded(q) PROVE ShownInv'
  <2>1. PICK all \in Read(q) :
          Answered(q, IF backtestPage.selectedRunId # q.run THEN backtestPage
                      ELSE [backtestPage EXCEPT !.reportState = "ready",
                              !.selectedReport = [run |-> q.run, status |-> all[q.run].status]],
                   {})
    BY <1>6 DEF ReportLoaded
  <2>2. /\ q.kind = "report" /\ backtestRequests' = backtestRequests \ {q}
        /\ UNCHANGED <<backtests, requestFailed>>
    BY <1>6, <2>1 DEF ReportLoaded, Answered
  <2>3. UNCHANGED <<backtestPage.view, backtestPage.selectedRunId,
                    backtestPage.selectedPipelineId, backtestPage.runs,
                    backtestPage.allRuns, backtestPage.selectedRun>>
    BY <1>a, <2>1 DEF Answered, BacktestPages
  <2>4. RunsOf(backtestPage, backtestPage.allRuns)' = RunsOf(backtestPage, backtestPage.allRuns)
    BY <2>2, <2>3 DEF RunsOf, ActivePipelineId, PipelineOf
  <2>5. (Listing => Listing') /\ (Detailing => Detailing') /\ (DetailsShown => DetailsShown')
    BY <2>2, <2>3 DEF Listing, Detailing, DetailsShown, PipelineOf
  <2>6. Reporting \/ ReportShown => Reporting' \/ ReportShown'
    <3>1. CASE backtestPage.selectedRunId = q.run
      BY <1>a, <2>1, <2>3, <3>1 DEF Answered, ReportShown, BacktestPages
    <3>2. CASE backtestPage.selectedRunId # q.run
      BY <2>1, <2>2, <3>2 DEF Answered, ReportShown, Reporting
    <3> QED
      BY <3>1, <3>2
  <2> QED
    BY <2>2, <2>3, <2>4, <2>5, <2>6 DEF ShownInv, OnShow
<1>7. ASSUME NEW q \in backtestRequests, CancelAnswered(q) PROVE ShownInv'
  <2>1. CASE q.answer # "refused"
    <3>1. Asked("runs", 0) \in backtestRequests'
      BY <1>7, <2>1 DEF CancelAnswered, Answered
    <3> QED
      BY <1>l, <3>1, AskedIs DEF Listing
  <2>2. CASE q.answer = "refused"
    <3>1. Answered(q, [backtestPage EXCEPT !.cancelling = 0], {})
      BY <1>7, <2>2 DEF CancelAnswered
    <3>2. UNCHANGED shownParts
      BY <1>a, <3>1 DEF Answered, shownParts, BacktestPages
    <3> QED
      BY <1>7, <1>i, <1>p, <3>1, <3>2, ShownFrame DEF CancelAnswered, Answered
  <2> QED
    BY <2>1, <2>2
<1>8. ASSUME NEW q \in backtestRequests, LaunchAnswered(q) PROVE ShownInv'
  <2>1. CASE q.kind = "launch" /\ Goto("run", Len(backtests), q.run, backtestRequests \ {q})
    BY <1>l, <2>1, GotoShown
  <2>2. CASE /\ q.kind = "orphan" /\ backtestRequests' = backtestRequests \ {q}
             /\ UNCHANGED <<backtestPage, launch>>
    BY <1>8, <1>i, <1>p, <2>2, ShownFrame DEF LaunchAnswered, shownParts
  <2> QED
    BY <1>8, <2>1, <2>2 DEF LaunchAnswered
<1>9. ASSUME NEW q \in backtestRequests, PipelinesLoaded(q) \/ ExecutionsLoaded(q) PROVE ShownInv'
  <2>1. UNCHANGED shownParts
    BY <1>a, <1>9 DEF PipelinesLoaded, ExecutionsLoaded, Answered, shownParts, BacktestPages
  <2> QED
    BY <1>9, <1>i, <1>p, <2>1, ShownFrame DEF PipelinesLoaded, ExecutionsLoaded, Answered
<1>10. ASSUME NEW q \in backtestRequests, RequestFails(q) PROVE ShownInv'
  BY <1>10 DEF RequestFails, ShownInv
<1>11. ASSUME NEW q \in backtestRequests, CommandServed(q) PROVE ShownInv'
  <2>1. Past(backtests, backtests')
    <3>1. CASE q.kind = "cancel"
      <4>1. q.run \in DOMAIN backtests
        BY <3>1 DEF BacktestInv, RequestOK, AboutRun
      <4> QED
        BY <1>11, <1>a, <1>p, <3>1, <4>1, RowsGrow DEF CommandServed, RunStatuses
    <3>2. CASE q.kind = "launch"
      BY <1>11, <1>a, <3>2, RowsGrow DEF CommandServed, BacktestInv, RequestOK
    <3> QED
      BY <1>11, <3>1, <3>2 DEF CommandServed
  <2>2. UNCHANGED shownParts /\ UNCHANGED requestFailed
    BY <1>11 DEF CommandServed, shownParts
  <2>3. \A r \in backtestRequests :
          r.kind \in {"runs", "details", "report"} => r \in backtestRequests'
    BY <1>11 DEF CommandServed
  <2> QED
    BY <1>i, <2>1, <2>2, <2>3, ShownFrame
<1>12. CASE RunEnds
  <2>1. Past(backtests, backtests')
    BY <1>12, <1>a, RowsGrow DEF RunEnds, RunStatuses
  <2> QED
    BY <1>12, <1>i, <2>1, ShownFrame DEF RunEnds, shownParts
<1>13. CASE SelectExecution \/ CloseExecutionDrawer \/ CancelRun
  <2>1. UNCHANGED shownParts
    BY <1>13, <1>a DEF SelectExecution, CloseExecutionDrawer, CancelRun, shownParts, BacktestPages
  <2> QED
    BY <1>13, <1>i, <1>p, <2>1, ShownFrame DEF SelectExecution, CloseExecutionDrawer, CancelRun
<1>14. CASE OpenLaunchDialog \/ EditLaunch \/ LaunchBacktest
  BY <1>14, <1>i, <1>p, ShownFrame DEF OpenLaunchDialog, EditLaunch, LaunchBacktest, shownParts
<1>15. CASE UNCHANGED backtestVars
  BY <1>15, <1>i, <1>p, ShownFrame DEF backtestVars, shownParts
<1> QED
  BY <1>1, <1>2, <1>3, <1>4, <1>5, <1>6, <1>7, <1>8, <1>9, <1>10, <1>11, <1>12, <1>13, <1>14,
     <1>15 DEF BacktestsNext, BacktestUser, BacktestAnswers

LEMMA ShownHolds == BacktestInv /\ ShownInv => BacktestsAreShown
<1> SUFFICES ASSUME BacktestInv, ShownInv, Settled, backtestPage.view # "home"
             PROVE  BacktestsAreShown
  BY DEF BacktestsAreShown, SettledShowsSelected, RunsFollowPipeline
<1> USE BacktestAssumption
<1>1. OnShow /\ ~Detailing /\ ~Reporting
  BY DEF Settled, ShownInv, Listing, Detailing, Reporting
<1>2. CASE backtestPage.selectedRunId = 0
  BY <1>1, <1>2 DEF OnShow, BacktestInv, PageOK, NoRun, BacktestsAreShown,
                    SettledShowsSelected, RunsFollowPipeline
<1>3. CASE backtestPage.selectedRunId # 0
  <2>1. DetailsShown /\ ReportShown
    BY <1>1, <1>3 DEF OnShow
  <2>2. backtestPage.selectedRunId \in DOMAIN backtests
    BY <1>3 DEF BacktestInv, PageOK
  <2>3. PipelineOf(backtestPage.selectedRunId) \in Pipelines
    BY <1>3, <2>2, RowIn DEF PipelineOf, BacktestInv
  <2>4. ActivePipelineId(backtestPage) = PipelineOf(backtestPage.selectedRunId)
          /\ ActivePipelineId(backtestPage) # 0
    BY <2>1, <2>3 DEF DetailsShown, ActivePipelineId, BacktestAssumption
  <2>5. backtestPage.runs = RunsOf(backtestPage, backtestPage.allRuns)
    BY <1>1 DEF OnShow
  <2>6. \A r \in backtestPage.runs :
          backtestPage.allRuns[r].pipeline = PipelineOf(backtestPage.selectedRunId)
    BY <2>4, <2>5 DEF RunsOf
  <2> QED
    BY <1>3, <2>1, <2>5, <2>6
       DEF DetailsShown, ReportShown, BacktestsAreShown, SettledShowsSelected, RunsFollowPipeline
<1> QED
  BY <1>2, <1>3

\* Once no list, details and report are on their way and no request has failed, the details
\* and the report on show are those of the selected run (loadSelectedRun, loadReport), beside
\* the list of the runs of its pipeline, whatever was selected meanwhile, in whatever order
\* the answers came, and also for an address that names no pipeline.  The executions and the
\* timeline under them are not in the statement: loadExecutions shows what comes last.
THEOREM BacktestsShown == BacktestsSpec => []BacktestsAreShown
BY ShownHolds, BacktestInitially, BacktestStep, ShownInitially, ShownStep, PTL
   DEF BacktestsSpec

-------------------------------------------------------------------------------
(* The figures                                                             *)

\* The least number there is of some, which is what induction over numbers rests on here.
LEMMA SomeLeast == ASSUME NEW S \in SUBSET Nat, S # {} PROVE \E m \in S : \A k \in S : m <= k
<1>1. PICK m \in S : \A k \in S : ~(<<k, m>> \in OpToRel(<, Nat))
  BY NatLessThanWellFounded, WFMin
<1>2. \A k \in S : ~(k < m)
  BY <1>1 DEF OpToRel
<1> QED
  BY <1>2

\* Induction over a set of numbers.
LEMMA AllNumbers ==
  ASSUME NEW S \in SUBSET Nat, 0 \in S, \A n \in S : n + 1 \in S PROVE S = Nat
<1> SUFFICES ASSUME S # Nat PROVE FALSE
  OBVIOUS
<1> DEFINE rest == Nat \ S
<1>1. rest \in SUBSET Nat /\ rest # {}
  OBVIOUS
<1>2. PICK m \in rest : \A k \in rest : m <= k
  BY <1>1, SomeLeast
<1>3. m # 0 /\ m \in Nat /\ m - 1 \in Nat
  OBVIOUS
<1>4. m - 1 \in S
  BY <1>2, <1>3
<1>5. (m - 1) + 1 \in S
  BY <1>4
<1> QED
  BY <1>3, <1>5

\* A finite set of integers has a least and a greatest member.
LEMMA Extremes ==
  ASSUME NEW S \in SUBSET Int, IsFiniteSet(S), S # {}
  PROVE  /\ Min(S) \in S /\ Max(S) \in S
         /\ \A x \in S : Min(S) <= x /\ x <= Max(S)
<1> DEFINE Bounded(T) == /\ \E m \in T : \A x \in T : m <= x
                         /\ \E m \in T : \A x \in T : x <= m
           good == {n \in Nat : \A T \in SUBSET Int :
                      IsFiniteSet(T) /\ Cardinality(T) = n /\ T # {} => Bounded(T)}
<1>1. 0 \in good
  <2>1. \A T \in SUBSET Int : IsFiniteSet(T) /\ Cardinality(T) = 0 => T = {}
    BY FS_EmptySet
  <2> HIDE DEF Bounded
  <2> QED
    BY <2>1
<1>2. ASSUME NEW n \in good PROVE n + 1 \in good
  <2> SUFFICES ASSUME NEW T \in SUBSET Int, IsFiniteSet(T), Cardinality(T) = n + 1, T # {}
               PROVE  Bounded(T)
    OBVIOUS
  <2>1. PICK y \in T : y \in Int
    OBVIOUS
  <2> DEFINE U == T \ {y}
  <2>2. IsFiniteSet(U) /\ Cardinality(U) = n /\ U \in SUBSET Int
    <3>1. IsFiniteSet(U) /\ Cardinality(U) = Cardinality(T) - 1
      BY <2>1, FS_RemoveElement
    <3> QED
      BY <3>1
  <2>3. CASE U = {}
    <3>1. \A x \in T : x = y
      <4>1. \A x \in T : x # y => x \in U
        OBVIOUS
      <4> HIDE DEF U
      <4> QED
        BY <2>3, <4>1
    <3>2. y <= y
      BY <2>1
    <3>3. \A x \in T : y <= x /\ x <= y
      BY <3>1, <3>2
    <3> QED
      BY <3>3
  <2>4. CASE U # {}
    <3>1. Bounded(U)
      <4> HIDE DEF Bounded, U
      <4> QED
        BY <2>2, <2>4
    <3>2. PICK lo \in U : \A x \in U : lo <= x
      BY <3>1
    <3>3. PICK hi \in U : \A x \in U : x <= hi
      BY <3>1
    <3>4. lo \in Int /\ hi \in Int /\ lo \in T /\ hi \in T /\ \A x \in T : x \in U \/ x = y
      OBVIOUS
    <3>5. \E m \in T : \A x \in T : m <= x
      <4>1. CASE lo <= y
        BY <3>2, <3>4, <4>1
      <4>2. CASE y <= lo
        <5>1. ASSUME NEW x \in T PROVE y <= x
          <6>1. x \in Int /\ (x = y \/ lo <= x)
            BY <3>2, <3>4
          <6> QED
            BY <2>1, <3>4, <4>2, <6>1
        <5> QED
          BY <5>1
      <4> QED
        BY <2>1, <3>4, <4>1, <4>2
    <3>6. \E m \in T : \A x \in T : x <= m
      <4>1. CASE y <= hi
        BY <3>3, <3>4, <4>1
      <4>2. CASE hi <= y
        <5>1. \A x \in T : x <= y
          BY <2>1, <3>3, <3>4, <4>2
        <5> QED
          BY <5>1
      <4> QED
        BY <2>1, <3>4, <4>1, <4>2
    <3> QED
      BY <3>5, <3>6
  <2> QED
    BY <2>3, <2>4
<1>3. good = Nat
  <2> HIDE DEF Bounded
  <2>1. good \in SUBSET Nat
    OBVIOUS
  <2> HIDE DEF good
  <2> QED
    BY <1>1, <1>2, <2>1, AllNumbers
<1>4. Bounded(S)
  <2>1. Cardinality(S) \in good
    BY <1>3, FS_CardinalityType
  <2> HIDE DEF Bounded
  <2> QED
    BY <2>1
<1>5. Min(S) \in S /\ \A x \in S : Min(S) <= x
  BY <1>4 DEF Min
<1>6. Max(S) \in S /\ \A x \in S : Max(S) >= x
  <2>1. \E m \in S : \A x \in S : m >= x
    BY <1>4
  <2> QED
    BY <2>1 DEF Max
<1> QED
  BY <1>5, <1>6

\* What is computed step by step, from a start, is defined.
Computed(f, k, x, step) == f[0] = x /\ \A i \in 1 .. k : f[i] = step[i][f[i - 1]]

LEMMA Steps ==
  ASSUME NEW n \in Nat, NEW S, NEW x \in S, NEW step \in [1 .. n -> [S -> S]]
  PROVE  \E f \in [0 .. n -> S] : Computed(f, n, x, step)
<1> DEFINE Upto(f, k) == f[0] = x /\ \A i \in 1 .. k : f[i] = step[i][f[i - 1]]
           Good(k) == k <= n => \E f \in [0 .. k -> S] : Upto(f, k)
           good == {k \in Nat : Good(k)}
<1>1. Good(0)
  <2> DEFINE f == [i \in 0 .. 0 |-> x]
  <2>1. f \in [0 .. 0 -> S] /\ Upto(f, 0)
    OBVIOUS
  <2> HIDE DEF f, Upto
  <2> QED
    BY <2>1
<1>2. ASSUME NEW k \in Nat, Good(k) PROVE Good(k + 1)
  <2> SUFFICES ASSUME k + 1 <= n PROVE \E f \in [0 .. k + 1 -> S] : Upto(f, k + 1)
    OBVIOUS
  <2>1. k <= n /\ k + 1 \in 1 .. n /\ step[k + 1] \in [S -> S]
    OBVIOUS
  <2>2. PICK g \in [0 .. k -> S] : Upto(g, k)
    BY <1>2, <2>1
  <2> DEFINE f == [i \in 0 .. k + 1 |-> IF i <= k THEN g[i] ELSE step[k + 1][g[k]]]
  <2>3. f \in [0 .. k + 1 -> S] /\ f[0] = x
    BY <2>1, <2>2
  <2>4. ASSUME NEW i \in 1 .. k + 1 PROVE f[i] = step[i][f[i - 1]]
    <3>1. CASE i <= k
      <4>1. i \in 1 .. k /\ i \in 0 .. k + 1 /\ i - 1 \in 0 .. k + 1 /\ i - 1 <= k
        BY <2>1, <3>1
      <4>2. f[i] = g[i] /\ f[i - 1] = g[i - 1]
        BY <3>1, <4>1
      <4> QED
        BY <2>2, <4>1, <4>2
    <3>2. CASE i = k + 1
      <4>1. f[i] = step[k + 1][g[k]] /\ f[i - 1] = g[k]
        BY <2>1, <3>2
      <4> QED
        BY <3>2, <4>1
    <3> QED
      BY <2>1, <3>1, <3>2
  <2>5. Upto(f, k + 1)
    <3> HIDE DEF f
    <3> QED
      BY <2>3, <2>4
  <2> HIDE DEF f, Upto
  <2> QED
    BY <2>3, <2>5
<1>3. good = Nat
  <2> HIDE DEF Good
  <2>1. good \in SUBSET Nat /\ 0 \in good /\ \A k \in good : k + 1 \in good
    BY <1>1, <1>2
  <2> HIDE DEF good
  <2> QED
    BY <2>1, AllNumbers
<1>4. Good(n)
  <2> HIDE DEF Good
  <2> QED
    BY <1>3
<1> QED
  BY <1>4 DEF Computed

\* The sums of a sequence.
LEMMA SumsAre ==
  ASSUME NEW s \in Seq(Int)
  PROVE  /\ Sums(s) \in [0 .. Len(s) -> Int] /\ Sums(s)[0] = 0
         /\ \A i \in 1 .. Len(s) : Sums(s)[i] = Sums(s)[i - 1] + s[i]
<1>1. Len(s) \in Nat /\ \A i \in 1 .. Len(s) : s[i] \in Int
  OBVIOUS
<1> DEFINE step == [i \in 1 .. Len(s) |-> [v \in Int |-> v + s[i]]]
<1>2. step \in [1 .. Len(s) -> [Int -> Int]]
  BY <1>1
<1>3. \A i \in 1 .. Len(s), v \in Int : step[i][v] = v + s[i]
  OBVIOUS
<1> HIDE DEF step
<1>4. PICK f \in [0 .. Len(s) -> Int] :
        f[0] = 0 /\ \A i \in 1 .. Len(s) : f[i] = step[i][f[i - 1]]
  <2>1. Len(s) \in Nat /\ 0 \in Int
    BY <1>1
  <2>2. \E f \in [0 .. Len(s) -> Int] :
          f[0] = 0 /\ \A i \in 1 .. Len(s) : f[i] = step[i][f[i - 1]]
    <3>1. \E f \in [0 .. Len(s) -> Int] : Computed(f, Len(s), 0, step)
      BY <1>2, <2>1, Steps, Zenon
    <3> QED
      BY <3>1 DEF Computed
  <2> QED
    BY <2>2
<1>5. f = [i \in 0 .. Len(s) |-> IF i = 0 THEN 0 ELSE f[i - 1] + s[i]]
  <2>1. \A i \in 1 .. Len(s) : i - 1 \in 0 .. Len(s) /\ i # 0
    BY <1>1
  <2>2. \A i \in 1 .. Len(s) : f[i - 1] \in Int
    BY <2>1
  <2>3. \A i \in 1 .. Len(s) : f[i] = f[i - 1] + s[i]
    BY <1>3, <1>4, <2>2
  <2>4. \A i \in 0 .. Len(s) : i = 0 \/ i \in 1 .. Len(s)
    BY <1>1
  <2>5. \A i \in 0 .. Len(s) : f[i] = IF i = 0 THEN 0 ELSE f[i - 1] + s[i]
    BY <1>4, <2>1, <2>3, <2>4
  <2> QED
    BY <2>5
<1> DEFINE body(g) == [i \in 0 .. Len(s) |-> IF i = 0 THEN 0 ELSE g[i - 1] + s[i]]
           sums == CHOOSE g : g = body(g)
<1>6. Sums(s) = sums
  BY DEF Sums
<1>7. sums = body(sums)
  <2>1. \E g : g = body(g)
    BY <1>5
  <2> HIDE DEF body
  <2> QED
    BY <2>1
<1> HIDE DEF sums
<1>8. /\ sums[0] = 0 /\ DOMAIN sums = 0 .. Len(s)
      /\ \A i \in 1 .. Len(s) : sums[i] = sums[i - 1] + s[i]
  <2>1. /\ DOMAIN sums = 0 .. Len(s)
        /\ \A i \in 0 .. Len(s) : sums[i] = body(sums)[i]
    BY <1>7
  <2>2. \A i \in 0 .. Len(s) : body(sums)[i] = IF i = 0 THEN 0 ELSE sums[i - 1] + s[i]
    OBVIOUS
  <2> HIDE DEF body
  <2>3. Len(s) \in Nat
    OBVIOUS
  <2>4. 0 \in 0 .. Len(s) /\ \A i \in 1 .. Len(s) : i \in 0 .. Len(s) /\ i # 0
    BY <2>3
  <2> QED
    BY <2>1, <2>2, <2>4
<1> DEFINE fit == {n \in Nat : n <= Len(s) => sums[n] \in Int}
<1>9. fit = Nat
  <2>1. 0 \in fit
    BY <1>8
  <2>2. ASSUME NEW n \in fit PROVE n + 1 \in fit
    <3>1. CASE n + 1 <= Len(s)
      <4>1. n + 1 \in 1 .. Len(s) /\ (n + 1) - 1 = n /\ s[n + 1] \in Int /\ sums[n] \in Int
        BY <3>1
      <4>2. sums[n + 1] = sums[(n + 1) - 1] + s[n + 1]
        BY <1>8, <4>1
      <4> QED
        BY <4>1, <4>2
    <3> QED
      BY <3>1
  <2>3. fit \in SUBSET Nat
    OBVIOUS
  <2> HIDE DEF fit
  <2> QED
    BY <2>1, <2>2, <2>3, AllNumbers
<1>10. \A n \in 0 .. Len(s) : sums[n] \in Int
  <2>1. \A n \in Nat : n <= Len(s) => sums[n] \in Int
    BY <1>9
  <2> HIDE DEF fit
  <2> QED
    BY <2>1
<1>11. sums = [i \in 0 .. Len(s) |-> sums[i]]
  BY <1>7
<1>12. sums \in [0 .. Len(s) -> Int]
  BY <1>10, <1>11
<1> QED
  BY <1>6, <1>8, <1>12

LEMMA CumulatedIs ==
  ASSUME NEW s \in Seq(Int)
  PROVE  /\ Cumulated(s) \in Seq(Int) /\ Len(Cumulated(s)) = Len(s) /\ Total(s) \in Int
         /\ \A i \in 1 .. Len(s) : Cumulated(s)[i] = Sums(s)[i] /\ Sums(s)[i] \in Int
<1>1. \A i \in 1 .. Len(s) : Sums(s)[i] \in Int
  BY SumsAre
<1>2. DOMAIN s = 1 .. Len(s) /\ Len(s) \in Nat
  OBVIOUS
<1>3. Cumulated(s) = [i \in 1 .. Len(s) |-> Sums(s)[i]]
  BY <1>2 DEF Cumulated
<1> DEFINE c == [i \in 1 .. Len(s) |-> Sums(s)[i]]
<1>4. c \in Seq(Int) /\ Len(c) = Len(s) /\ \A i \in 1 .. Len(s) : c[i] = Sums(s)[i]
  BY <1>1, <1>2
<1>5. Total(s) \in Int
  BY SumsAre, <1>2 DEF Total
<1> QED
  BY <1>1, <1>3, <1>4, <1>5

\* While there is nothing, the sum is zero.
LEMMA ZeroSums ==
  ASSUME NEW s \in Seq(Int), NEW k \in 0 .. Len(s), \A i \in 1 .. k : s[i] = 0
  PROVE  \A i \in 0 .. k : Sums(s)[i] = 0
<1> DEFINE Good(i) == i <= k => Sums(s)[i] = 0
           good == {i \in Nat : Good(i)}
<1>1. Good(0)
  BY SumsAre
<1>2. ASSUME NEW i \in Nat, Good(i) PROVE Good(i + 1)
  <2> SUFFICES ASSUME i + 1 <= k PROVE Sums(s)[i + 1] = 0
    OBVIOUS
  <2>1. i + 1 \in 1 .. Len(s) /\ (i + 1) - 1 = i /\ s[i + 1] = 0 /\ Sums(s)[i] = 0
    BY <1>2
  <2> QED
    BY <2>1, SumsAre
<1>3. good = Nat
  <2> HIDE DEF Good
  <2>1. good \in SUBSET Nat /\ 0 \in good /\ \A i \in good : i + 1 \in good
    BY <1>1, <1>2
  <2> HIDE DEF good
  <2> QED
    BY <2>1, AllNumbers
<1>4. \A i \in Nat : Good(i)
  <2> HIDE DEF Good
  <2> QED
    BY <1>3
<1> QED
  BY <1>4

\* The sums of the end of a sequence are those of the whole, less what comes before.
LEMMA SuffixSums ==
  ASSUME NEW s \in Seq(Int), NEW k \in 1 .. Len(s)
  PROVE  LET t == SubSeq(s, k, Len(s)) IN
         /\ t \in Seq(Int) /\ Len(t) = Len(s) - k + 1
         /\ \A i \in 1 .. Len(t) : t[i] = s[k + i - 1]
         /\ \A i \in 0 .. Len(t) : Sums(t)[i] = Sums(s)[k + i - 1] - Sums(s)[k - 1]
<1> DEFINE t == SubSeq(s, k, Len(s))
<1>1. t \in Seq(Int) /\ Len(t) = Len(s) - k + 1 /\ \A i \in 1 .. Len(t) : t[i] = s[k + i - 1]
  <2>1. k \in Int /\ Len(s) \in Int /\ \A i \in k .. Len(s) : s[i] \in Int
    OBVIOUS
  <2>2. /\ t \in Seq(Int) /\ Len(t) = IF k <= Len(s) THEN Len(s) - k + 1 ELSE 0
        /\ \A i \in 1 .. Len(s) - k + 1 : t[i] = s[k + i - 1]
    BY <2>1, SubSeqProperties
  <2>3. k <= Len(s)
    OBVIOUS
  <2> HIDE DEF t
  <2> QED
    BY <2>2, <2>3
<1> HIDE DEF t
<1> DEFINE Good(i) == i <= Len(t) => Sums(t)[i] = Sums(s)[k + i - 1] - Sums(s)[k - 1]
           good == {i \in Nat : Good(i)}
<1>2. \A i \in 0 .. Len(s) : Sums(s)[i] \in Int
  BY SumsAre
<1>3. Good(0)
  <2>1. k - 1 \in 0 .. Len(s) /\ k + 0 - 1 = k - 1 /\ Sums(t)[0] = 0
    BY <1>1, SumsAre
  <2> QED
    BY <1>2, <2>1
<1>4. ASSUME NEW i \in Nat, Good(i) PROVE Good(i + 1)
  <2> SUFFICES ASSUME i + 1 <= Len(t)
               PROVE  Sums(t)[i + 1] = Sums(s)[k + (i + 1) - 1] - Sums(s)[k - 1]
    OBVIOUS
  <2>1. /\ i + 1 \in 1 .. Len(t) /\ (i + 1) - 1 = i /\ k + i \in 1 .. Len(s) /\ k \in Int
        /\ k + (i + 1) - 1 = k + i /\ k + i - 1 \in 0 .. Len(s) /\ k - 1 \in 0 .. Len(s)
    BY <1>1
  <2>2. Sums(t)[i + 1] = Sums(t)[i] + t[i + 1] /\ t[i + 1] = s[k + i]
    BY <1>1, <2>1, SumsAre
  <2>3. Sums(s)[k + i] = Sums(s)[k + i - 1] + s[k + i] /\ s[k + i] \in Int
    BY <2>1, SumsAre
  <2>4. Sums(t)[i] = Sums(s)[k + i - 1] - Sums(s)[k - 1]
    BY <1>4
  <2>5. Sums(s)[k + i - 1] \in Int /\ Sums(s)[k - 1] \in Int
    BY <1>2, <2>1
  <2>6. Sums(t)[i + 1] = (Sums(s)[k + i - 1] - Sums(s)[k - 1]) + s[k + i]
    BY <2>2, <2>4
  <2>7. Sums(t)[i + 1] = Sums(s)[k + i] - Sums(s)[k - 1]
    BY <2>3, <2>5, <2>6
  <2> QED
    BY <2>1, <2>7
<1>5. good = Nat
  <2> HIDE DEF Good
  <2>1. good \in SUBSET Nat /\ 0 \in good /\ \A i \in good : i + 1 \in good
    BY <1>3, <1>4
  <2> HIDE DEF good
  <2> QED
    BY <2>1, AllNumbers
<1>6. \A i \in Nat : Good(i)
  <2> HIDE DEF Good
  <2> QED
    BY <1>5
<1>7. \A i \in 0 .. Len(t) : Sums(t)[i] = Sums(s)[k + i - 1] - Sums(s)[k - 1]
  BY <1>6
<1> QED
  BY <1>1, <1>7 DEF t

\* The values of a function on a finite set are finitely many.
LEMMA ValuesFinite ==
  ASSUME NEW D, IsFiniteSet(D), NEW f, DOMAIN f = D
  PROVE  IsFiniteSet({f[x] : x \in D})
<1> DEFINE g == [x \in D |-> f[x]]
<1>1. g \in Surjection(D, {f[x] : x \in D})
  BY DEF Surjection
<1> HIDE DEF g
<1> QED
  BY <1>1, FS_Surjection

LEMMA SetOf ==
  ASSUME NEW s \in Seq(Int)
  PROVE  /\ IsFiniteSet(ToSet(s)) /\ ToSet(s) \subseteq Int
         /\ \A i \in 1 .. Len(s) : s[i] \in ToSet(s)
<1>1. DOMAIN s = 1 .. Len(s) /\ Len(s) \in Nat
  OBVIOUS
<1>2. IsFiniteSet(DOMAIN s)
  BY <1>1, FS_Interval
<1>3. IsFiniteSet({s[i] : i \in DOMAIN s})
  BY <1>2, ValuesFinite
<1> QED
  BY <1>1, <1>3 DEF ToSet

\* The lesser and the greater of two.
LEMMA MinOfTwo ==
  ASSUME NEW a \in Int, NEW b \in Int
  PROVE  Min({a, b}) = IF a <= b THEN a ELSE b
<1>1. \E x \in {a, b} : \A y \in {a, b} : x <= y
  OBVIOUS
<1>2. Min({a, b}) \in {a, b} /\ \A y \in {a, b} : Min({a, b}) <= y
  BY <1>1 DEF Min
<1> HIDE DEF Min
<1> QED
  BY <1>2

LEMMA MaxOfTwo ==
  ASSUME NEW a \in Int, NEW b \in Int
  PROVE  Max({a, b}) = IF a >= b THEN a ELSE b
<1>1. \E x \in {a, b} : \A y \in {a, b} : x >= y
  OBVIOUS
<1>2. Max({a, b}) \in {a, b} /\ \A y \in {a, b} : Max({a, b}) >= y
  BY <1>1 DEF Max
<1> HIDE DEF Max
<1> QED
  BY <1>2

\* Where a curve starts: not after the first of the days, and before it where it can.
LEMMA StartIs ==
  ASSUME NEW n \in Nat \ {0}, NEW days \in SUBSET (1 .. n)
  PROVE  /\ StartOf(days) \in 1 .. n
         /\ StartOf(days) # 1 => \A i \in 1 .. StartOf(days) : i \notin days
         /\ \A d \in days : StartOf(days) <= d
<1>1. CASE days = {}
  BY <1>1 DEF StartOf
<1>2. CASE days # {}
  <2>1. IsFiniteSet(days) /\ days \in SUBSET Int
    <3>1. IsFiniteSet(1 .. n)
      BY FS_Interval
    <3>2. IsFiniteSet(days)
      BY <3>1, FS_Subset
    <3> QED
      BY <3>2
  <2>2. Min(days) \in days /\ \A x \in days : Min(days) <= x
    BY <1>2, <2>1, Extremes
  <2>3. Min(days) \in 1 .. n
    BY <2>2
  <2>4. StartOf(days) = IF 1 >= Min(days) - 1 THEN 1 ELSE Min(days) - 1
    <3>1. StartOf(days) = Max({1, Min(days) - 1})
      BY <1>2 DEF StartOf
    <3>2. 1 \in Int /\ Min(days) - 1 \in Int
      BY <2>3
    <3> HIDE DEF StartOf
    <3> QED
      BY <3>1, <3>2, MaxOfTwo
  <2> QED
    BY <2>2, <2>3, <2>4
<1> QED
  BY <1>1, <1>2

\* What there is to draw: whole numbers.
GainsOK == gains \in [1 .. Brokers -> [1 .. HistoryDays -> Int]]

LEMMA GainsAre ==
  ASSUME GainsOK, NEW b \in 1 .. Brokers
  PROVE  /\ HistoryDays \in Nat \ {0} /\ Brokers \in Nat \ {0}
         /\ gains[b] \in Seq(Int) /\ Len(gains[b]) = HistoryDays
         /\ \A d \in 1 .. HistoryDays : gains[b][d] \in Int
<1>1. HistoryDays \in Nat \ {0} /\ Brokers \in Nat \ {0}
  BY FiguresAssumption
<1>2. gains[b] \in [1 .. HistoryDays -> Int]
  BY DEF GainsOK
<1> QED
  BY <1>1, <1>2

LEMMA EquityIs ==
  ASSUME GainsOK, NEW b \in 1 .. Brokers
  PROVE  /\ EquityByBroker[b] \in Seq(Int) /\ Len(EquityByBroker[b]) = HistoryDays
         /\ DOMAIN EquityByBroker = 1 .. Brokers
         /\ \A i \in 1 .. HistoryDays : /\ EquityByBroker[b][i] = Sums(gains[b])[i]
                                        /\ EquityByBroker[b][i] \in Int
<1>1. gains[b] \in Seq(Int) /\ Len(gains[b]) = HistoryDays
  BY GainsAre
<1>2. EquityByBroker[b] = Cumulated(gains[b]) /\ DOMAIN EquityByBroker = 1 .. Brokers
  BY DEF EquityByBroker
<1>3. /\ Cumulated(gains[b]) \in Seq(Int) /\ Len(Cumulated(gains[b])) = HistoryDays
      /\ \A i \in 1 .. HistoryDays : /\ Cumulated(gains[b])[i] = Sums(gains[b])[i]
                                     /\ Sums(gains[b])[i] \in Int
  BY <1>1, CumulatedIs
<1> QED
  BY <1>2, <1>3

Start == StartOf(ActiveDays(EquityByBroker))

LEMMA CurveStart ==
  ASSUME GainsOK
  PROVE  /\ Start \in 1 .. HistoryDays
         /\ Start # 1 => \A b \in 1 .. Brokers, i \in 1 .. Start : EquityByBroker[b][i] = 0
<1>1. HistoryDays \in Nat \ {0} /\ 1 \in 1 .. Brokers
  BY FiguresAssumption
<1>2. Len(EquityByBroker[1]) = HistoryDays /\ DOMAIN EquityByBroker = 1 .. Brokers
  BY <1>1, EquityIs
<1> DEFINE days == ActiveDays(EquityByBroker)
<1>3. days = {i \in 1 .. HistoryDays : \E b \in 1 .. Brokers : EquityByBroker[b][i] # 0}
  BY <1>2 DEF ActiveDays
<1> HIDE DEF days
<1>4. days \in SUBSET (1 .. HistoryDays)
  BY <1>3
<1>5. /\ StartOf(days) \in 1 .. HistoryDays
      /\ StartOf(days) # 1 => \A i \in 1 .. StartOf(days) : i \notin days
  BY <1>1, <1>4, StartIs
<1>6. Start = StartOf(days)
  BY DEF Start, days
<1>7. ASSUME Start # 1, NEW b \in 1 .. Brokers, NEW i \in 1 .. Start
      PROVE  EquityByBroker[b][i] = 0
  <2>1. i \in 1 .. HistoryDays /\ i \notin days
    BY <1>1, <1>5, <1>6, <1>7
  <2> QED
    BY <1>3, <2>1
<1> QED
  BY <1>5, <1>6, <1>7

LEMMA TrimmedIs ==
  ASSUME GainsOK, NEW b \in 1 .. Brokers
  PROVE  /\ DOMAIN Trimmed = 1 .. Brokers
         /\ Trimmed[b] \in Seq(Int) /\ Len(Trimmed[b]) = HistoryDays - Start + 1
         /\ \A i \in 1 .. Len(Trimmed[b]) : Trimmed[b][i] = EquityByBroker[b][Start + i - 1]
<1>1. /\ EquityByBroker[b] \in Seq(Int) /\ Len(EquityByBroker[b]) = HistoryDays
      /\ DOMAIN EquityByBroker = 1 .. Brokers
  BY EquityIs
<1>2. Start \in 1 .. HistoryDays
  BY CurveStart
<1>3. /\ DOMAIN Trimmed = 1 .. Brokers
      /\ Trimmed[b] = SubSeq(EquityByBroker[b], Start, Len(EquityByBroker[b]))
  BY <1>1 DEF Trimmed, TrimLeadingZeros, Start
<1> DEFINE s == EquityByBroker[b]
<1>4. s \in Seq(Int) /\ Start \in 1 .. Len(s) /\ Trimmed[b] = SubSeq(s, Start, Len(s))
  BY <1>1, <1>2, <1>3
<1>5. /\ SubSeq(s, Start, Len(s)) \in Seq(Int)
      /\ Len(SubSeq(s, Start, Len(s))) = Len(s) - Start + 1
      /\ \A i \in 1 .. Len(SubSeq(s, Start, Len(s))) :
           SubSeq(s, Start, Len(s))[i] = s[Start + i - 1]
  <2> HIDE DEF s
  <2> QED
    BY <1>4, SuffixSums
<1> QED
  BY <1>1, <1>3, <1>5

\* The profit of a day is that of all the brokers.
LEMMA HistoryIs ==
  ASSUME GainsOK
  PROVE  /\ HistoryDays \in Nat \ {0}
         /\ PnlHistory \in Seq(Int) /\ Len(PnlHistory) = HistoryDays
         /\ \A d \in 1 .. HistoryDays : PnlHistory[d] \in Int
<1>1. HistoryDays \in Nat \ {0} /\ Brokers \in Nat \ {0}
  BY FiguresAssumption
<1>2. ASSUME NEW d \in 1 .. HistoryDays
      PROVE  Total([b \in 1 .. Brokers |-> gains[b][d]]) \in Int
  <2>1. \A b \in 1 .. Brokers : gains[b][d] \in Int
    BY GainsAre
  <2>2. [b \in 1 .. Brokers |-> gains[b][d]] \in Seq(Int)
    BY <1>1, <2>1
  <2> QED
    BY <2>2, CumulatedIs
<1>3. \A d \in 1 .. HistoryDays :
        PnlHistory[d] = Total([b \in 1 .. Brokers |-> gains[b][d]])
  BY DEF PnlHistory
<1>4. PnlHistory = [d \in 1 .. HistoryDays |-> PnlHistory[d]]
  BY DEF PnlHistory
<1>5. \A d \in 1 .. HistoryDays : PnlHistory[d] \in Int
  BY <1>2, <1>3
<1>6. PnlHistory \in [1 .. HistoryDays -> Int]
  BY <1>4, <1>5
<1> QED
  BY <1>1, <1>5, <1>6

LEMMA CurveTells ==
  ASSUME GainsOK, NEW b \in 1 .. Brokers
  PROVE  /\ Len(Trimmed[b]) = Len(Trimmed[1])
         /\ Last(Trimmed[b]) = Total(gains[b])
         /\ gains[b][1] = 0 => Trimmed[b][1] = 0
<1>1. HistoryDays \in Nat \ {0} /\ 1 \in 1 .. Brokers /\ Start \in 1 .. HistoryDays
  BY FiguresAssumption, CurveStart
<1>2. /\ Len(Trimmed[b]) = HistoryDays - Start + 1
      /\ \A i \in 1 .. Len(Trimmed[b]) : Trimmed[b][i] = EquityByBroker[b][Start + i - 1]
  BY TrimmedIs
<1>3. Len(Trimmed[1]) = HistoryDays - Start + 1
  BY <1>1, TrimmedIs
<1>4. \A i \in 1 .. HistoryDays : EquityByBroker[b][i] = Sums(gains[b])[i]
  BY EquityIs
<1>5. gains[b] \in Seq(Int) /\ Len(gains[b]) = HistoryDays
  BY GainsAre
<1>6. Last(Trimmed[b]) = Total(gains[b])
  <2>1. /\ Len(Trimmed[b]) \in 1 .. Len(Trimmed[b])
        /\ Start + Len(Trimmed[b]) - 1 = HistoryDays /\ HistoryDays \in 1 .. HistoryDays
    <3>1. ASSUME NEW n, n = HistoryDays - Start + 1
          PROVE  /\ n \in 1 .. n /\ Start + n - 1 = HistoryDays
                 /\ HistoryDays \in 1 .. HistoryDays
      BY <1>1, <3>1
    <3>2. Len(Trimmed[b]) = HistoryDays - Start + 1
      BY <1>2
    <3> QED
      BY <3>1, <3>2, Zenon
  <2>2. Last(Trimmed[b]) = EquityByBroker[b][HistoryDays]
    BY <1>2, <2>1 DEF Last
  <2> QED
    BY <1>4, <1>5, <2>1, <2>2 DEF Total
<1>7. ASSUME gains[b][1] = 0 PROVE Trimmed[b][1] = 0
  <2>1. 1 \in 1 .. Len(Trimmed[b]) /\ Start + 1 - 1 = Start /\ Start \in 1 .. Start
    BY <1>1, <1>2
  <2>2. Trimmed[b][1] = EquityByBroker[b][Start]
    BY <1>2, <2>1
  <2>3. CASE Start = 1
    <3>1. 1 \in 1 .. Len(gains[b]) /\ 1 - 1 = 0
      BY <1>1, <1>5
    <3>2. Sums(gains[b])[1] = Sums(gains[b])[0] + gains[b][1] /\ Sums(gains[b])[0] = 0
      BY <1>5, <3>1, SumsAre
    <3> QED
      BY <1>1, <1>4, <1>7, <2>2, <2>3, <3>2
  <2>4. CASE Start # 1
    BY <2>1, <2>2, <2>4, CurveStart
  <2> QED
    BY <2>3, <2>4
<1> QED
  BY <1>2, <1>3, <1>6, <1>7

\* The profit of a history, from its start.
LEMMA ProfitIs ==
  ASSUME NEW h \in Seq(Int)
  PROVE  /\ ProfitCumulative(h) \in Seq(Int) /\ Len(ProfitCumulative(h)) <= Len(h)
         /\ ProfitCurrentValue(h) = Total(h)
<1> DEFINE days == {i \in DOMAIN h : h[i] # 0}
<1>1. Len(h) \in Nat /\ DOMAIN h = 1 .. Len(h)
  OBVIOUS
<1>2. CASE days = {}
  <2>1. \A i \in 1 .. Len(h) : h[i] = 0
    BY <1>1, <1>2
  <2>2. \A i \in 0 .. Len(h) : Sums(h)[i] = 0
    <3>1. Len(h) \in 0 .. Len(h)
      BY <1>1
    <3> QED
      BY <2>1, <3>1, ZeroSums
  <2>3. Total(h) = 0
    BY <1>1, <2>2 DEF Total
  <2>4. ProfitCumulative(h) = <<>>
    BY <1>2 DEF ProfitCumulative
  <2>5. ProfitCurrentValue(h) = 0
    BY <2>4 DEF ProfitCurrentValue
  <2> QED
    BY <1>1, <2>3, <2>4, <2>5
<1>3. CASE days # {}
  <2>1. Len(h) \in Nat \ {0} /\ days \in SUBSET (1 .. Len(h))
    BY <1>1, <1>3
  <2> DEFINE k == StartOf(days)
             t == SubSeq(h, k, Len(h))
  <2>2. ProfitCumulative(h) = Cumulated(t)
    BY <1>3 DEF ProfitCumulative
  <2>3. k \in 1 .. Len(h) /\ (k # 1 => \A i \in 1 .. k : i \notin days)
    <3> HIDE DEF days
    <3> QED
      BY <2>1, StartIs
  <2>4. \A i \in 1 .. k - 1 : h[i] = 0
    <3>1. \A i \in 1 .. k - 1 : i \in 1 .. k /\ i \in DOMAIN h /\ k # 1
      BY <1>1, <2>3
    <3> HIDE DEF k
    <3> QED
      BY <2>3, <3>1
  <2> HIDE DEF k, days
  <2>5. Sums(h)[k - 1] = 0
    <3>1. k - 1 \in 0 .. Len(h) /\ k - 1 \in 0 .. k - 1
      BY <1>1, <2>3
    <3> QED
      BY <2>4, <3>1, ZeroSums
  <2>6. /\ t \in Seq(Int) /\ Len(t) = Len(h) - k + 1
        /\ \A i \in 0 .. Len(t) : Sums(t)[i] = Sums(h)[k + i - 1] - Sums(h)[k - 1]
    BY <2>3, SuffixSums
  <2> HIDE DEF t
  <2>7. /\ Len(t) \in 0 .. Len(t) /\ k + Len(t) - 1 = Len(h) /\ Len(t) >= 1
        /\ Len(t) \in 1 .. Len(t) /\ Len(t) <= Len(h) /\ Len(h) \in 0 .. Len(h)
    BY <1>1, <2>3, <2>6
  <2>8. Sums(t)[Len(t)] = Sums(h)[Len(h)]
    <3>1. Sums(t)[Len(t)] = Sums(h)[Len(h)] - 0
      BY <2>5, <2>6, <2>7
    <3>2. Sums(h)[Len(h)] \in Int
      BY <2>7, SumsAre
    <3> QED
      BY <3>1, <3>2
  <2>9. /\ Cumulated(t) \in Seq(Int) /\ Len(Cumulated(t)) = Len(t)
        /\ \A i \in 1 .. Len(t) : Cumulated(t)[i] = Sums(t)[i]
    BY <2>6, CumulatedIs
  <2>10. Cumulated(t) # <<>>
    BY <2>7, <2>9
  <2>11. ProfitCurrentValue(h) = Last(Cumulated(t))
    BY <2>2, <2>10 DEF ProfitCurrentValue
  <2>12. Last(Cumulated(t)) = Sums(t)[Len(t)]
    BY <2>7, <2>9 DEF Last
  <2> QED
    BY <2>2, <2>7, <2>8, <2>9, <2>11, <2>12 DEF Total
<1> QED
  BY <1>2, <1>3

\* The best day is the first traded one that no other beats.
LEMMA BestIs ==
  ASSUME GainsOK, NEW h \in Seq(Int), Len(h) = HistoryDays
  PROVE  \A t \in Trades : /\ h[t[2]] <= h[BestCalendarDay(h)]
                           /\ h[t[2]] = h[BestCalendarDay(h)] => BestCalendarDay(h) <= t[2]
<1> DEFINE H == HistoryDays
           Traded(d) == \E t \in Trades : t[2] = d
           Beats(d, b) == Traded(d) /\ (b = 0 \/ h[d] > h[b])
           step == [d \in 1 .. H |-> [b \in 0 .. H |-> IF Beats(d, b) THEN d ELSE b]]
           body(f) == [d \in 0 .. H |->
                         IF d = 0 THEN 0 ELSE IF Beats(d, f[d - 1]) THEN d ELSE f[d - 1]]
           best == CHOOSE f : f = body(f)
<1>1. H \in Nat \ {0} /\ \A d \in 1 .. H : h[d] \in Int
  BY FiguresAssumption
<1>2. \A t \in Trades : t[2] \in 1 .. H
  BY DEF Trades
<1>3. BestCalendarDay(h) = best[H]
  BY DEF BestCalendarDay
<1> HIDE DEF Traded
<1>4. step \in [1 .. H -> [0 .. H -> 0 .. H]]
  <2> HIDE DEF Beats
  <2> QED
    BY <1>1
<1>5. \A d \in 1 .. H, b \in 0 .. H : step[d][b] = IF Beats(d, b) THEN d ELSE b
  BY <1>1
<1> HIDE DEF step, Beats
<1>6. PICK f \in [0 .. H -> 0 .. H] :
        f[0] = 0 /\ \A d \in 1 .. H : f[d] = step[d][f[d - 1]]
  <2>1. H \in Nat /\ 0 \in 0 .. H
    BY <1>1
  <2> DEFINE S == 0 .. H
  <2> HIDE DEF S
  <2>2. step \in [1 .. H -> [S -> S]] /\ 0 \in S
    BY <1>4, <2>1 DEF S
  <2>3. \E f \in [0 .. H -> S] : Computed(f, H, 0, step)
    <3> HIDE DEF H
    <3> QED
      BY <2>1, <2>2, Steps, Zenon
  <2> QED
    BY <2>3 DEF Computed, S
<1>7. \A d \in 1 .. H : /\ d - 1 \in 0 .. H /\ f[d - 1] \in 0 .. H
                        /\ f[d] = IF Beats(d, f[d - 1]) THEN d ELSE f[d - 1]
  <2>1. \A d \in 1 .. H : d - 1 \in 0 .. H
    BY <1>1
  <2>2. \A d \in 1 .. H : f[d - 1] \in 0 .. H
    BY <2>1
  <2> QED
    BY <1>5, <1>6, <2>1, <2>2
<1>8. f = body(f)
  <2>1. \A d \in 1 .. H : d \in 0 .. H /\ d # 0
    BY <1>1
  <2>2. \A d \in 1 .. H : body(f)[d] = IF Beats(d, f[d - 1]) THEN d ELSE f[d - 1]
    BY <2>1
  <2>3. \A d \in 1 .. H : f[d] = body(f)[d]
    <3> HIDE DEF body
    <3> QED
      BY <1>7, <2>2
  <2>4. 0 \in 0 .. H /\ body(f)[0] = 0
    BY <1>1
  <2>5. \A d \in 0 .. H : d = 0 \/ d \in 1 .. H
    BY <1>1
  <2>6. DOMAIN body(f) = 0 .. H /\ DOMAIN f = 0 .. H
    BY <1>6
  <2>7. body(f) = [d \in 0 .. H |-> body(f)[d]]
    OBVIOUS
  <2> HIDE DEF body
  <2>8. \A d \in 0 .. H : f[d] = body(f)[d]
    BY <1>6, <2>3, <2>4, <2>5
  <2> QED
    BY <2>6, <2>7, <2>8
<1>9. best = body(best)
  <2> HIDE DEF body
  <2> QED
    BY <1>8
<1> HIDE DEF best
<1>10. best[0] = 0 /\ \A d \in 1 .. H : best[d] = IF Beats(d, best[d - 1]) THEN d ELSE best[d - 1]
  <2>1. \A d \in 0 .. H : best[d] = body(best)[d]
    BY <1>9
  <2>2. \A d \in 1 .. H : d \in 0 .. H /\ d # 0
    BY <1>1
  <2>3. 0 \in 0 .. H
    BY <1>1
  <2> QED
    BY <2>1, <2>2, <2>3
<1> HIDE DEF body
<1> DEFINE BestOf(d, b) ==
             /\ b \in 0 .. d
             /\ b = 0 => \A t \in Trades : t[2] > d
             /\ b # 0 => \A t \in Trades : t[2] <= d => /\ h[t[2]] <= h[b]
                                                        /\ h[t[2]] = h[b] => b <= t[2]
           Good(d) == d <= H => BestOf(d, best[d])
           good == {d \in Nat : Good(d)}
<1>11. Good(0)
  <2>1. \A t \in Trades : t[2] > 0
    BY <1>1, <1>2
  <2>2. BestOf(0, best[0])
    BY <1>10, <2>1
  <2> HIDE DEF BestOf
  <2> QED
    BY <2>2
<1>12. ASSUME NEW d \in Nat, Good(d) PROVE Good(d + 1)
  <2> SUFFICES ASSUME d + 1 <= H PROVE BestOf(d + 1, best[d + 1])
    OBVIOUS
  <2>1. d + 1 \in 1 .. H /\ (d + 1) - 1 = d /\ d <= H
    BY <1>1
  <2> DEFINE b == best[d]
  <2>2. BestOf(d, b)
    BY <1>12, <2>1
  <2>3. best[d + 1] = IF Beats(d + 1, b) THEN d + 1 ELSE b
    BY <1>10, <2>1
  <2> HIDE DEF b
  <2>4. \A t \in Trades : t[2] \in 1 .. H /\ h[t[2]] \in Int
    BY <1>1, <1>2
  <2>5. b \in Int /\ (b # 0 => h[b] \in Int) /\ h[d + 1] \in Int /\ b <= d
    <3>1. b \in 0 .. d
      BY <2>2
    <3>2. b # 0 => b \in 1 .. H
      BY <2>1, <3>1
    <3>3. b \in Int /\ b <= d
      BY <3>1
    <3> QED
      BY <1>1, <2>1, <3>2, <3>3
  <2>6. \A t \in Trades : t[2] <= d + 1 => t[2] <= d \/ t[2] = d + 1
    BY <2>4
  <2>7. CASE Beats(d + 1, b)
    <3>1. best[d + 1] = d + 1 /\ (b = 0 \/ h[d + 1] > h[b])
      BY <2>3, <2>7 DEF Beats
    <3>2. ASSUME NEW t \in Trades, t[2] <= d + 1
          PROVE  h[t[2]] <= h[d + 1] /\ (h[t[2]] = h[d + 1] => d + 1 <= t[2])
      <4>1. CASE t[2] = d + 1
        BY <2>4, <4>1
      <4>2. CASE t[2] <= d
        <5>1. b # 0
          BY <2>2, <2>4, <4>2
        <5>2. h[t[2]] <= h[b] /\ h[d + 1] > h[b]
          BY <2>2, <3>1, <4>2, <5>1
        <5> QED
          BY <2>4, <2>5, <5>1, <5>2
      <4> QED
        BY <2>6, <3>2, <4>1, <4>2
    <3> QED
      BY <3>1, <3>2
  <2>8. CASE ~Beats(d + 1, b)
    <3>1. best[d + 1] = b /\ (Traded(d + 1) => b # 0 /\ ~(h[d + 1] > h[b]))
      BY <2>3, <2>8 DEF Beats
    <3>2. \A t \in Trades : t[2] = d + 1 => b # 0 /\ h[t[2]] <= h[b] /\ b <= t[2]
      BY <2>4, <2>5, <3>1 DEF Traded
    <3>3. b = 0 => \A t \in Trades : t[2] > d + 1
      BY <2>2, <2>4, <2>6, <3>2
    <3>4. b # 0 => \A t \in Trades : t[2] <= d + 1 => /\ h[t[2]] <= h[b]
                                                      /\ h[t[2]] = h[b] => b <= t[2]
      BY <2>2, <2>6, <3>2
    <3>5. b \in 0 .. d + 1
      BY <2>2
    <3> QED
      BY <3>1, <3>3, <3>4, <3>5
  <2> QED
    BY <2>7, <2>8
<1>13. good = Nat
  <2> HIDE DEF Good
  <2>1. good \in SUBSET Nat /\ 0 \in good /\ \A d \in good : d + 1 \in good
    BY <1>11, <1>12
  <2> HIDE DEF good
  <2> QED
    BY <2>1, AllNumbers
<1>14. Good(H)
  <2> HIDE DEF Good
  <2> QED
    BY <1>1, <1>13
<1>15. BestOf(H, best[H])
  BY <1>1, <1>14
<1> HIDE DEF Good, good
<1>16. ASSUME NEW t \in Trades
       PROVE  h[t[2]] <= h[best[H]] /\ (h[t[2]] = h[best[H]] => best[H] <= t[2])
  <2>1. t[2] <= H /\ ~(t[2] > H)
    BY <1>1, <1>2
  <2> QED
    BY <1>15, <2>1
<1> QED
  BY <1>3, <1>16

LEMMA CurvesTell == GainsOK => CurvesTellAll
<1> SUFFICES ASSUME GainsOK PROVE CurvesTellAll
  OBVIOUS
<1>1. PnlHistory \in Seq(Int) /\ Len(PnlHistory) = HistoryDays
  BY HistoryIs
<1>2. ProfitCurrentValue(PnlHistory) = Total(PnlHistory)
  BY <1>1, ProfitIs
<1>3. \A t \in Trades :
        /\ PnlHistory[t[2]] <= PnlHistory[BestCalendarDay(PnlHistory)]
        /\ PnlHistory[t[2]] = PnlHistory[BestCalendarDay(PnlHistory)]
             => BestCalendarDay(PnlHistory) <= t[2]
  BY <1>1, BestIs
<1> QED
  BY <1>2, <1>3, CurveTells DEF CurvesTellAll

\* The extent of curves holds their values and zero.
Bounds(e) == /\ e.lo \in Int /\ e.hi \in Int /\ e.range \in Int
             /\ e.lo <= 0 /\ 0 <= e.hi /\ e.range >= 1 /\ e.hi - e.lo <= e.range
             /\ e.range = e.hi - e.lo \/ (e.range = 1 /\ e.hi = e.lo)

LEMMA ExtentIs ==
  ASSUME NEW all, IsFiniteSet(DOMAIN all), \A b \in DOMAIN all : all[b] \in Seq(Int)
  PROVE  /\ Bounds(Extent(all))
         /\ \A b \in DOMAIN all : \A i \in 1 .. Len(all[b]) :
              Extent(all).lo <= all[b][i] /\ all[b][i] <= Extent(all).hi
<1> DEFINE sets == {ToSet(all[b]) : b \in DOMAIN all}
           values == {0} \cup UNION sets
           e == Extent(all)
<1>1. IsFiniteSet(sets)
  <2> DEFINE f == [b \in DOMAIN all |-> ToSet(all[b])]
  <2>1. DOMAIN f = DOMAIN all /\ sets = {f[b] : b \in DOMAIN all}
    OBVIOUS
  <2> HIDE DEF f, sets
  <2>2. IsFiniteSet({f[b] : b \in DOMAIN all})
    BY <2>1, ValuesFinite
  <2> QED
    BY <2>1, <2>2
<1>2. \A b \in DOMAIN all : /\ IsFiniteSet(ToSet(all[b])) /\ ToSet(all[b]) \subseteq Int
                            /\ \A i \in 1 .. Len(all[b]) : all[b][i] \in ToSet(all[b])
  BY SetOf
<1>3. IsFiniteSet(UNION sets) /\ UNION sets \subseteq Int
  <2>1. \A T \in sets : IsFiniteSet(T) /\ T \subseteq Int
    BY <1>2
  <2> HIDE DEF sets
  <2> QED
    BY <1>1, <2>1, FS_UNION
<1>4. IsFiniteSet(values) /\ values \in SUBSET Int /\ 0 \in values
  <2> HIDE DEF sets
  <2>1. IsFiniteSet({0})
    BY FS_Singleton
  <2>2. IsFiniteSet(values)
    BY <1>3, <2>1, FS_Union
  <2> QED
    BY <1>3, <2>2
<1>5. \A b \in DOMAIN all : \A i \in 1 .. Len(all[b]) : all[b][i] \in values
  BY <1>2
<1>6. e.lo = Min(values) /\ e.hi = Max(values)
  BY DEF Extent
<1>7. e.range = IF Max(values) = Min(values) THEN 1 ELSE Max(values) - Min(values)
  BY DEF Extent
<1> HIDE DEF values, e
<1>8. /\ Min(values) \in values /\ Max(values) \in values
      /\ \A x \in values : Min(values) <= x /\ x <= Max(values)
  BY <1>4, Extremes
<1>9. Min(values) \in Int /\ Max(values) \in Int /\ Min(values) <= 0 /\ 0 <= Max(values)
  BY <1>4, <1>8
<1>10. Bounds(e)
  BY <1>6, <1>7, <1>9 DEF Bounds
<1>11. \A b \in DOMAIN all : \A i \in 1 .. Len(all[b]) : e.lo <= all[b][i] /\ all[b][i] <= e.hi
  BY <1>5, <1>6, <1>8
<1> QED
  BY <1>10, <1>11 DEF e

\* A point of a curve is inside the frame, and the zero line too.
Top(e) == UsableH * e.range
Wide == SvgW * Max({1, HistoryDays - 1})

LEMMA PointFits ==
  ASSUME NEW e, Bounds(e), NEW v \in Int, e.lo <= v, v <= e.hi
  PROVE  /\ Y(v, e) \in 0 .. Top(e) /\ Y(0, e) \in 0 .. Top(e)
         /\ Top(e) \in Nat
<1> DEFINE lo == e.lo
           hi == e.hi
           range == e.range
<1>1. /\ lo \in Int /\ hi \in Int /\ range \in Int /\ lo <= 0 /\ 0 <= hi /\ range >= 1
      /\ hi - lo <= range /\ lo <= v /\ v <= hi
  BY DEF Bounds
<1>2. Y(v, e) = 135 * range - (v - lo) * 135
  BY DEF Y, UsableH
<1>3. Y(0, e) = 135 * range - (0 - lo) * 135
  BY DEF Y, UsableH
<1>4. Top(e) = 135 * range
  BY DEF Top, UsableH
<1> HIDE DEF lo, hi, range
<1> QED
  BY <1>1, <1>2, <1>3, <1>4

LEMMA WidthFits ==
  ASSUME NEW n \in Nat, n <= HistoryDays, NEW i \in 1 .. n
  PROVE  X(i, n) \in 0 .. Wide
<1>1. HistoryDays \in Nat \ {0}
  BY FiguresAssumption
<1>2. Max({1, HistoryDays - 1}) = IF 1 >= HistoryDays - 1 THEN 1 ELSE HistoryDays - 1
  <2>1. 1 \in Int /\ HistoryDays - 1 \in Int
    BY <1>1
  <2> QED
    BY <2>1, MaxOfTwo
<1>3. Wide = 400 * (IF 1 >= HistoryDays - 1 THEN 1 ELSE HistoryDays - 1)
  BY <1>2 DEF Wide, SvgW
<1>4. CASE n > 1
  <2>1. X(i, n) = (i - 1) * 400
    BY <1>4 DEF X, SvgW
  <2> QED
    BY <1>1, <1>3, <1>4, <2>1
<1>5. CASE ~(n > 1)
  <2>1. X(i, n) = 400 \div 2
    BY <1>5 DEF X, SvgW
  <2>2. 400 \div 2 = 200
    OBVIOUS
  <2> QED
    BY <1>1, <1>3, <2>1, <2>2
<1> QED
  BY <1>4, <1>5

\* An area ends on the zero line.
LEMMA ClosedBy ==
  ASSUME NEW P, NEW p \in Seq(P), NEW a \in P, NEW b \in P
  PROVE  p \o <<a, b>> \in Seq(P)
<1>1. <<a, b>> \in Seq(P)
  OBVIOUS
<1> QED
  BY <1>1, ConcatProperties

\* The curve and its areas, each on its side of the zero line.
LEMMA AreasAre ==
  ASSUME NEW e, Bounds(e), NEW s \in Seq(Int), Len(s) <= HistoryDays,
         \A i \in 1 .. Len(s) : e.lo <= s[i] /\ s[i] <= e.hi
  PROVE  AreasFit(s, e)
<1> DEFINE zero == Y(0, e)
           Points(lo, hi) == [x : 0 .. Wide, y : lo .. hi]
           n == Len(s)
           lines == Polyline(s, e)
<1>1. n \in Nat /\ DOMAIN s = 1 .. n
  OBVIOUS
<1>2. Top(e) \in Nat /\ zero \in 0 .. Top(e)
  <2>1. 0 \in Int /\ e.lo <= 0 /\ 0 <= e.hi
    BY DEF Bounds
  <2> QED
    BY <2>1, PointFits
<1>3. ASSUME NEW i \in 1 .. n
      PROVE  Y(s[i], e) \in 0 .. Top(e) /\ X(i, n) \in 0 .. Wide
  <2>1. s[i] \in Int /\ e.lo <= s[i] /\ s[i] <= e.hi
    OBVIOUS
  <2>2. Y(s[i], e) \in 0 .. Top(e)
    BY <2>1, PointFits
  <2>3. X(i, n) \in 0 .. Wide
    BY <1>1, WidthFits
  <2> QED
    BY <2>2, <2>3
<1>4. /\ DOMAIN lines = 1 .. n
      /\ \A i \in 1 .. n : lines[i].x = X(i, n) /\ lines[i].y = Y(s[i], e)
  BY <1>1 DEF Polyline
<1> HIDE DEF lines, zero, n
<1>5. \A i \in 1 .. n : lines[i].y \in 0 .. Top(e) /\ lines[i].x \in 0 .. Wide
  BY <1>3, <1>4
<1>6. InFrame(lines, e)
  BY <1>4, <1>5 DEF InFrame, Top, Wide
<1>7. ASSUME NEW lo \in Int, NEW hi \in Int, lo <= hi, 0 <= lo, hi <= Top(e),
             NEW points \in Seq(Points(lo, hi))
      PROVE  /\ InFrame(points, e)
             /\ \A i \in DOMAIN points : lo <= points[i].y /\ points[i].y <= hi
  <2>1. \A i \in DOMAIN points : points[i] \in Points(lo, hi)
    <3> DEFINE P == Points(lo, hi)
    <3>1. points \in Seq(P)
      OBVIOUS
    <3> HIDE DEF P
    <3>2. \A i \in DOMAIN points : points[i] \in P
      BY <3>1
    <3> QED
      BY <3>2 DEF P
  <2>2. \A i \in DOMAIN points : points[i].x \in 0 .. Wide /\ points[i].y \in lo .. hi
    BY <2>1
  <2>3. \A i \in DOMAIN points : points[i].y \in 0 .. Top(e)
    BY <1>2, <1>7, <2>2
  <2>4. InFrame(points, e)
    BY <2>2, <2>3 DEF InFrame, Top, Wide
  <2> QED
    BY <2>2, <2>4
<1>8. ASSUME NEW lo \in Int, NEW hi \in Int, lo <= zero, zero <= hi, n >= 2,
             NEW h, \A i \in 1 .. n : h[i] \in lo .. hi
      PROVE  [i \in 1 .. n |-> [x |-> lines[i].x, y |-> h[i]]]
               \o <<[x |-> lines[n].x, y |-> zero], [x |-> lines[1].x, y |-> zero]>>
             \in Seq(Points(lo, hi))
  <2> DEFINE P == Points(lo, hi)
             p == [i \in 1 .. n |-> [x |-> lines[i].x, y |-> h[i]]]
  <2>1. \A i \in 1 .. n : [x |-> lines[i].x, y |-> h[i]] \in P
    BY <1>5, <1>8
  <2>2. n \in 1 .. n /\ 1 \in 1 .. n
    BY <1>1, <1>8
  <2>3. zero \in lo .. hi
    BY <1>2, <1>8
  <2>4. \A i \in 1 .. n : [x |-> lines[i].x, y |-> zero] \in P
    BY <1>5, <2>3
  <2>5. [x |-> lines[n].x, y |-> zero] \in P /\ [x |-> lines[1].x, y |-> zero] \in P
    <3> HIDE DEF P
    <3> QED
      BY <2>2, <2>4
  <2> HIDE DEF P
  <2>6. p \in Seq(P)
    BY <1>1, <2>1
  <2> HIDE DEF p
  <2>7. p \o <<[x |-> lines[n].x, y |-> zero], [x |-> lines[1].x, y |-> zero]>> \in Seq(P)
    BY <2>5, <2>6, ClosedBy
  <2> QED
    BY <2>7 DEF P, p
<1> HIDE DEF Points
<1>9. CASE n < 2
  <2>1. GreenArea(s, e) = <<>> /\ RedArea(s, e) = <<>>
    BY <1>9 DEF GreenArea, RedArea, SplitArea, n
  <2>2. InFrame(<<>>, e)
    BY DEF InFrame
  <2> QED
    BY <1>6, <2>1, <2>2 DEF AreasFit, lines
<1>10. CASE ~(n < 2)
  <2>1. n >= 2
    BY <1>1, <1>10
  <2>2. GreenArea(s, e) =
          [i \in 1 .. n |-> [x |-> lines[i].x, y |-> Min({lines[i].y, zero})]]
            \o <<[x |-> lines[n].x, y |-> zero], [x |-> lines[1].x, y |-> zero]>>
    BY <1>1, <1>10 DEF GreenArea, SplitArea, lines, zero, n
  <2>3. RedArea(s, e) =
          [i \in 1 .. n |-> [x |-> lines[i].x, y |-> Max({lines[i].y, zero})]]
            \o <<[x |-> lines[n].x, y |-> zero], [x |-> lines[1].x, y |-> zero]>>
    BY <1>1, <1>10 DEF RedArea, SplitArea, lines, zero, n
  <2>4. \A i \in 1 .. n : lines[i].y \in Int /\ zero \in Int
    BY <1>2, <1>5
  <2> DEFINE low == [i \in 1 .. n |-> Min({lines[i].y, zero})]
             high == [i \in 1 .. n |-> Max({lines[i].y, zero})]
  <2>5. \A i \in 1 .. n : low[i] \in 0 .. zero
    <3>1. \A i \in 1 .. n : low[i] = IF lines[i].y <= zero THEN lines[i].y ELSE zero
      BY <2>4, MinOfTwo
    <3> HIDE DEF low
    <3> QED
      BY <1>2, <1>5, <3>1
  <2>6. \A i \in 1 .. n : high[i] \in zero .. Top(e)
    <3>1. \A i \in 1 .. n : high[i] = IF lines[i].y >= zero THEN lines[i].y ELSE zero
      BY <2>4, MaxOfTwo
    <3> HIDE DEF high
    <3> QED
      BY <1>2, <1>5, <3>1
  <2>7. GreenArea(s, e) =
          [i \in 1 .. n |-> [x |-> lines[i].x, y |-> low[i]]]
            \o <<[x |-> lines[n].x, y |-> zero], [x |-> lines[1].x, y |-> zero]>>
    BY <2>2
  <2>8. RedArea(s, e) =
          [i \in 1 .. n |-> [x |-> lines[i].x, y |-> high[i]]]
            \o <<[x |-> lines[n].x, y |-> zero], [x |-> lines[1].x, y |-> zero]>>
    BY <2>3
  <2> HIDE DEF low, high
  <2>9. /\ 0 \in Int /\ zero \in Int /\ Top(e) \in Int
        /\ 0 <= zero /\ zero <= zero /\ zero <= Top(e) /\ 0 <= 0 /\ Top(e) <= Top(e)
    BY <1>2
  <2>10. GreenArea(s, e) \in Seq(Points(0, zero))
    BY <1>8, <2>1, <2>5, <2>7, <2>9
  <2>11. RedArea(s, e) \in Seq(Points(zero, Top(e)))
    BY <1>8, <2>1, <2>6, <2>8, <2>9
  <2>12. /\ InFrame(GreenArea(s, e), e)
         /\ \A i \in DOMAIN GreenArea(s, e) : GreenArea(s, e)[i].y <= zero
    BY <1>7, <2>9, <2>10
  <2>13. /\ InFrame(RedArea(s, e), e)
         /\ \A i \in DOMAIN RedArea(s, e) : zero <= RedArea(s, e)[i].y
    BY <1>7, <2>9, <2>11
  <2>14. \A i \in DOMAIN RedArea(s, e) : RedArea(s, e)[i].y >= zero
    BY <2>13
  <2> QED
    BY <1>6, <2>12, <2>13, <2>14 DEF AreasFit, zero, lines
<1> QED
  BY <1>9, <1>10

\* A share of a whole is at most all of it.
LEMMA ShareOf ==
  ASSUME NEW a \in Nat, NEW b \in Nat \ {0}, NEW c \in Nat, a <= c * b
  PROVE  a \div b \in 0 .. c
<1> DEFINE q == a \div b
           r == a % b
<1>1. q \in Int /\ r \in Int /\ a = b * q + r /\ 0 <= r /\ r < b
  OBVIOUS
<1> HIDE DEF q, r
<1>2. q <= c
  <2>1. SUFFICES ASSUME q >= c + 1 PROVE FALSE
    BY <1>1
  <2>2. b * q >= b * (c + 1)
    BY <1>1, <2>1
  <2>3. b * (c + 1) = c * b + b
    OBVIOUS
  <2>4. b * q \in Int /\ c * b \in Int
    BY <1>1
  <2> QED
    BY <1>1, <2>2, <2>3, <2>4
<1>3. q >= 0
  <2>1. SUFFICES ASSUME q <= -1 PROVE FALSE
    BY <1>1
  <2>2. b * q <= b * (-1)
    BY <1>1, <2>1
  <2>3. b * (-1) = -b
    OBVIOUS
  <2>4. b * q \in Int
    BY <1>1
  <2> QED
    BY <1>1, <2>2, <2>3, <2>4
<1> QED
  BY <1>1, <1>2, <1>3 DEF q

\* What divides evenly.
LEMMA EvenShare ==
  ASSUME NEW n \in Nat \ {0}, NEW k \in Int
  PROVE  (n * k) \div n = k
<1> DEFINE a == n * k
           q == a \div n
           r == a % n
<1>1. a \in Int /\ a = n * k
  OBVIOUS
<1> HIDE DEF a
<1>2. q \in Int /\ r \in Int /\ a = n * q + r /\ 0 <= r /\ r < n
  BY <1>1
<1> HIDE DEF q, r
<1>3. n * (k - q) = r
  BY <1>1, <1>2
<1>4. ~(k - q >= 1)
  BY <1>2, <1>3
<1>5. ~(k - q <= -1)
  BY <1>2, <1>3
<1>6. q = k
  BY <1>2, <1>4, <1>5
<1> QED
  BY <1>6 DEF q, a

LEMMA AbsIs ==
  ASSUME NEW v \in Int PROVE Abs(v) \in Nat /\ (Abs(v) = 0 <=> v = 0)
BY DEF Abs

\* A bar is as high as its share, and no higher than the frame.
LEMMA BarFits ==
  ASSUME NEW values \in SUBSET Int, IsFiniteSet(values), NEW v \in values,
         NEW full \in Nat, NEW least \in Nat, least <= full
  PROVE  BarHeight(v, values, full, least) \in least .. full
<1> DEFINE all == values \cup {0}
           sizes == {Abs(w) : w \in all}
           most == Max(sizes)
<1>1. IsFiniteSet(sizes)
  <2>1. IsFiniteSet({0})
    BY FS_Singleton
  <2>2. IsFiniteSet(all)
    BY <2>1, FS_Union
  <2> DEFINE f == [w \in all |-> Abs(w)]
  <2>3. DOMAIN f = all /\ sizes = {f[w] : w \in all}
    OBVIOUS
  <2> HIDE DEF f, all, sizes
  <2>4. IsFiniteSet({f[w] : w \in all})
    BY <2>2, <2>3, ValuesFinite
  <2> QED
    BY <2>3, <2>4
<1>2. sizes \in SUBSET Nat /\ Abs(v) \in sizes
  BY AbsIs
<1> HIDE DEF sizes
<1>3. most \in Nat /\ Abs(v) <= most /\ Abs(v) \in Nat
  <2>1. sizes \in SUBSET Int /\ sizes # {}
    BY <1>2
  <2>2. Max(sizes) \in sizes /\ \A x \in sizes : x <= Max(sizes)
    BY <1>1, <2>1, Extremes
  <2> QED
    BY <1>2, <2>2
<1>4. BarHeight(v, values, full, least) =
        IF most = 0 THEN least ELSE Max({(Abs(v) * full) \div most, least})
  BY DEF BarHeight, sizes
<1> HIDE DEF most
<1>5. CASE most = 0
  BY <1>4, <1>5
<1>6. CASE most # 0
  <2>1. Abs(v) * full <= full * most /\ Abs(v) * full \in Nat
    BY <1>3
  <2>2. (Abs(v) * full) \div most \in 0 .. full
    BY <1>3, <1>6, <2>1, ShareOf
  <2>3. ASSUME NEW k \in 0 .. full PROVE Max({k, least}) \in least .. full
    <3>1. Max({k, least}) = IF k >= least THEN k ELSE least
      BY MaxOfTwo
    <3> QED
      BY <3>1
  <2> QED
    BY <1>4, <1>6, <2>2, <2>3
<1> QED
  BY <1>5, <1>6

\* A bar of a backtest's days stands on the zero line or hangs from it, in its half.
LEMMA DailyBarFits ==
  ASSUME NEW values \in SUBSET Int, IsFiniteSet(values), NEW v \in values
  PROVE  LET bar == DailyPnlBar(v, values)
         IN bar.top >= 0 /\ bar.top + bar.height <= PlotHeight
<1> DEFINE height == BarHeight(v, values, HalfHeight - 8, 2)
<1>1. PlotHeight = 208 /\ HalfHeight = 104
  BY DEF PlotHeight, HalfHeight
<1>2. height \in 2 .. 96
  <2>1. 96 \in Nat /\ 2 \in Nat /\ 2 <= 96
    OBVIOUS
  <2>2. ASSUME NEW full \in Nat, NEW least \in Nat, least <= full
        PROVE  BarHeight(v, values, full, least) \in least .. full
    BY <2>2, BarFits
  <2>3. BarHeight(v, values, 96, 2) \in 2 .. 96
    BY <2>1, <2>2, Zenon
  <2>4. HalfHeight - 8 = 96
    BY <1>1
  <2> QED
    BY <2>3, <2>4
<1>3. /\ DailyPnlBar(v, values).height = height
      /\ DailyPnlBar(v, values).top = IF v >= 0 THEN HalfHeight - height ELSE HalfHeight
  BY DEF DailyPnlBar
<1> HIDE DEF height
<1> QED
  BY <1>1, <1>2, <1>3

\* A share of trades or days, in hundredths.
LEMMA ShareIs ==
  ASSUME NEW whole, IsFiniteSet(whole), NEW part \in SUBSET whole
  PROVE  Share(part, whole) \in Nat
<1>1. CASE whole = {}
  BY <1>1 DEF Share
<1>2. CASE whole # {}
  <2>1. Cardinality(whole) \in Nat /\ Cardinality(whole) # 0
    BY <1>2, FS_CardinalityType, FS_EmptySet
  <2>2. Cardinality(part) \in Nat /\ Cardinality(part) <= Cardinality(whole)
    <3>1. IsFiniteSet(part) /\ Cardinality(part) <= Cardinality(whole)
      BY FS_Subset
    <3> QED
      BY <3>1, FS_CardinalityType
  <2>3. ASSUME NEW p \in Nat, NEW w \in Nat \ {0}, p <= w PROVE (100 * p) \div w \in 0 .. 100
    <3>1. 100 * p \in Nat /\ 100 * p <= 100 * w /\ 100 \in Nat
      BY <2>3
    <3> DEFINE a == 100 * p
               c == 100
    <3>2. a \in Nat /\ c \in Nat /\ a <= c * w
      BY <3>1
    <3> HIDE DEF a, c
    <3>3. a \div w \in 0 .. c
      BY <3>2, ShareOf
    <3> QED
      BY <3>3 DEF a, c
  <2>4. (100 * Cardinality(part)) \div Cardinality(whole) \in 0 .. 100
    BY <2>1, <2>2, <2>3
  <2>5. Share(part, whole) = (100 * Cardinality(part)) \div Cardinality(whole)
    BY <1>2 DEF Share
  <2> QED
    BY <2>4, <2>5
<1> QED
  BY <1>1, <1>2

\* The deepest fall is none or more.
LEMMA DrawdownIs == ASSUME GainsOK PROVE Drawdown \in Nat
<1> DEFINE level == Cumulated(PnlHistory)
           levels(i) == {0} \cup {level[j] : j \in 1 .. i}
           peak(i) == Max(levels(i))
           days == {j \in 1 .. HistoryDays : peak(j) > 0}
           falls == {(100 * (peak(i) - level[i])) \div peak(i) : i \in days}
<1>1. HistoryDays \in Nat /\ PnlHistory \in Seq(Int) /\ Len(PnlHistory) = HistoryDays
  BY HistoryIs
<1>2. \A i \in 1 .. HistoryDays : level[i] \in Int
  BY <1>1, CumulatedIs
<1> HIDE DEF level
<1>3. ASSUME NEW i \in 1 .. HistoryDays PROVE peak(i) \in Int
  <2>1. \A j \in 1 .. i : j \in 1 .. HistoryDays
    BY <1>1
  <2>2. levels(i) \in SUBSET Int /\ levels(i) # {}
    BY <1>2, <2>1
  <2>3. IsFiniteSet(levels(i))
    <3> DEFINE f == [j \in 1 .. i |-> level[j]]
               lows == {level[j] : j \in 1 .. i}
    <3>1. IsFiniteSet(1 .. i) /\ IsFiniteSet({0})
      <4>1. 1 \in Int /\ i \in Int
        OBVIOUS
      <4>2. IsFiniteSet(1 .. i)
        BY <4>1, FS_Interval
      <4>3. IsFiniteSet({0})
        BY FS_Singleton
      <4> QED
        BY <4>2, <4>3
    <3>2. DOMAIN f = 1 .. i /\ lows = {f[j] : j \in 1 .. i}
      OBVIOUS
    <3> HIDE DEF f, lows
    <3>3. IsFiniteSet({f[j] : j \in 1 .. i})
      BY <3>1, <3>2, ValuesFinite
    <3>4. IsFiniteSet({0} \cup lows)
      BY <3>1, <3>2, <3>3, FS_Union
    <3> QED
      BY <3>4 DEF lows
  <2> HIDE DEF levels
  <2>4. Max(levels(i)) \in levels(i)
    BY <2>2, <2>3, Extremes
  <2> QED
    BY <2>2, <2>4
<1>4. Drawdown = Max({0} \cup falls)
  BY DEF Drawdown, level
<1> HIDE DEF peak, levels
<1>5. \A i \in days : (100 * (peak(i) - level[i])) \div peak(i) \in Int
  <2>1. ASSUME NEW p \in Int, p > 0, NEW l \in Int PROVE (100 * (p - l)) \div p \in Int
    BY <2>1
  <2>2. \A i \in days : peak(i) \in Int /\ peak(i) > 0 /\ level[i] \in Int
    BY <1>2, <1>3
  <2> HIDE DEF days
  <2> QED
    BY <2>1, <2>2
<1>6. IsFiniteSet(days)
  <2>1. IsFiniteSet(1 .. HistoryDays)
    BY <1>1, FS_Interval
  <2> QED
    BY <2>1, FS_Subset
<1> HIDE DEF days
<1>7. IsFiniteSet(falls) /\ falls \subseteq Int
  <2> DEFINE f == [i \in days |-> (100 * (peak(i) - level[i])) \div peak(i)]
  <2>1. DOMAIN f = days /\ falls = {f[i] : i \in days} /\ falls \subseteq Int
    BY <1>5
  <2> HIDE DEF f, falls
  <2>2. IsFiniteSet({f[i] : i \in days})
    BY <1>6, <2>1, ValuesFinite
  <2> QED
    BY <2>1, <2>2
<1> HIDE DEF falls
<1>8. IsFiniteSet({0} \cup falls)
  <2>1. IsFiniteSet({0})
    BY FS_Singleton
  <2> QED
    BY <1>7, <2>1, FS_Union
<1>9. {0} \cup falls \in SUBSET Int /\ 0 \in {0} \cup falls
  BY <1>7
<1>10. /\ Max({0} \cup falls) \in {0} \cup falls
       /\ \A x \in {0} \cup falls : x <= Max({0} \cup falls)
  BY <1>8, <1>9, Extremes
<1> QED
  BY <1>4, <1>9, <1>10

LEMMA RadarFits ==
  ASSUME GainsOK
  PROVE  \A i \in DOMAIN RadarNormValues : RadarNormValues[i] \in 0 .. 100
<1>1. HistoryDays \in Nat /\ Brokers \in Nat
  BY FiguresAssumption
<1>2. IsFiniteSet(Trades)
  <2> DEFINE all == (1 .. Brokers) \X (1 .. HistoryDays)
  <2>1. IsFiniteSet(1 .. Brokers) /\ IsFiniteSet(1 .. HistoryDays)
    BY <1>1, FS_Interval
  <2>2. IsFiniteSet(all)
    BY <2>1, FS_Product
  <2>3. Trades \in SUBSET all
    BY DEF Trades
  <2> HIDE DEF all
  <2> QED
    BY <2>2, <2>3, FS_Subset
<1>3. IsFiniteSet(TradingDays)
  <2>1. IsFiniteSet(1 .. HistoryDays) /\ TradingDays \in SUBSET (1 .. HistoryDays)
    BY <1>1, FS_Interval DEF TradingDays
  <2> QED
    BY <2>1, FS_Subset
<1>4. WinRate \in Nat
  <2> DEFINE part == {t \in Trades : gains[t[1]][t[2]] > 0}
  <2>1. part \in SUBSET Trades
    OBVIOUS
  <2>2. WinRate = Share(part, Trades)
    BY DEF WinRate
  <2> HIDE DEF part
  <2> QED
    BY <1>2, <2>1, <2>2, ShareIs
<1>5. Consistency \in Nat
  <2> DEFINE part == {d \in TradingDays : PnlHistory[d] > 0}
  <2>1. part \in SUBSET TradingDays
    OBVIOUS
  <2>2. Consistency = Share(part, TradingDays)
    BY DEF Consistency
  <2> HIDE DEF part
  <2> QED
    BY <1>3, <2>1, <2>2, ShareIs
<1>6. ASSUME NEW v \in Nat PROVE Min({v, 100}) \in 0 .. 100
  <2>1. Min({v, 100}) = IF v <= 100 THEN v ELSE 100
    BY MinOfTwo
  <2> QED
    BY <2>1
<1>7. Max({100 - Drawdown, 0}) \in 0 .. 100
  <2>1. Drawdown \in Nat
    BY DrawdownIs
  <2>2. 100 - Drawdown \in Int /\ 0 \in Int
    BY <2>1
  <2>3. Max({100 - Drawdown, 0}) = IF 100 - Drawdown >= 0 THEN 100 - Drawdown ELSE 0
    BY <2>2, MaxOfTwo
  <2> QED
    BY <2>1, <2>3
<1>8. RadarNormValues = <<Min({WinRate, 100}), Max({100 - Drawdown, 0}), Min({Consistency, 100})>>
  BY DEF RadarNormValues
<1>9. ASSUME NEW a, NEW b, NEW c, a \in 0 .. 100, b \in 0 .. 100, c \in 0 .. 100
      PROVE  \A i \in DOMAIN <<a, b, c>> : <<a, b, c>>[i] \in 0 .. 100
  BY <1>9
<1> QED
  BY <1>4, <1>5, <1>6, <1>7, <1>8, <1>9

\* What one piece of the way covers, and what no piece does.
LEMMA CoveredIs ==
  ASSUME NEW n \in Int
  PROVE  /\ Covered({}, n) = 0
         /\ \A p, q, r, t :
              Covered({<<<<p, q>>, <<r, t>>>>}, n) = (n * (r * q - p * t)) \div (q * t)
<1>1. Cardinality({}) # 1
  BY FS_EmptySet
<1>2. Covered({}, n) = 0
  BY <1>1 DEF Covered
<1>3. ASSUME NEW p, NEW q, NEW r, NEW t
      PROVE  Covered({<<<<p, q>>, <<r, t>>>>}, n) = (n * (r * q - p * t)) \div (q * t)
  <2> DEFINE way == <<<<p, q>>, <<r, t>>>>
             z == CHOOSE z \in {way} : TRUE
  <2>1. z = way
    OBVIOUS
  <2>2. Cardinality({way}) = 1
    BY FS_Singleton
  <2>3. Covered({way}, n) = (n * (z[2][1] * z[1][2] - z[1][1] * z[2][2])) \div (z[1][2] * z[2][2])
    BY <2>2 DEF Covered
  <2>4. way[1][1] = p /\ way[1][2] = q /\ way[2][1] = r /\ way[2][2] = t
    OBVIOUS
  <2> HIDE DEF way, z
  <2>5. Covered({way}, n) = (n * (r * q - p * t)) \div (q * t)
    BY <2>1, <2>3, <2>4
  <2> QED
    BY <2>5 DEF way
<1> QED
  BY <1>2, <1>3

\* The colours share the way between two points.
LEMMA SidesCover ==
  ASSUME NEW a \in Int, NEW b \in Int, Abs(a) + Abs(b) > 0
  PROVE  Covered(SignedArea(a, b, 1), Abs(a) + Abs(b))
           + Covered(SignedArea(a, b, -1), Abs(a) + Abs(b)) = Abs(a) + Abs(b)
<1> DEFINE n == Abs(a) + Abs(b)
           k == Abs(a)
           whole == {<<<<0, 1>>, <<1, 1>>>>}
           before == {<<<<0, 1>>, <<k, n>>>>}
           after == {<<<<k, n>>, <<1, 1>>>>}
<1>1. n \in Nat \ {0} /\ k \in Nat /\ n \in Int
  BY AbsIs
<1>2. \A sign : SignedArea(a, b, sign) =
                  CASE a * sign >= 0 /\ b * sign >= 0 -> whole
                    [] a * sign > 0 /\ b * sign < 0 -> before
                    [] a * sign < 0 /\ b * sign > 0 -> after
                    [] OTHER -> {}
  BY DEF SignedArea
<1>3. ~(a = 0 /\ b = 0)
  BY AbsIs
<1> HIDE DEF whole, before, after
<1>4. SignedArea(a, b, 1) =
        IF a >= 0 /\ b >= 0 THEN whole
        ELSE IF a > 0 /\ b < 0 THEN before ELSE IF a < 0 /\ b > 0 THEN after ELSE {}
  <2>1. a * 1 = a /\ b * 1 = b
    OBVIOUS
  <2>2. SignedArea(a, b, 1) =
          CASE a >= 0 /\ b >= 0 -> whole
            [] a > 0 /\ b < 0 -> before
            [] a < 0 /\ b > 0 -> after
            [] OTHER -> {}
    BY <1>2, <2>1
  <2> QED
    BY <2>2
<1>5. SignedArea(a, b, -1) =
        IF a <= 0 /\ b <= 0 THEN whole
        ELSE IF a < 0 /\ b > 0 THEN before ELSE IF a > 0 /\ b < 0 THEN after ELSE {}
  <2>1. a * (-1) = -a /\ b * (-1) = -b
    OBVIOUS
  <2>2. SignedArea(a, b, -1) =
          CASE -a >= 0 /\ -b >= 0 -> whole
            [] -a > 0 /\ -b < 0 -> before
            [] -a < 0 /\ -b > 0 -> after
            [] OTHER -> {}
    BY <1>2, <2>1
  <2> QED
    BY <2>2
<1> HIDE DEF n, k
<1>6. Covered({}, n) = 0
  BY <1>1, CoveredIs
<1> DEFINE OneArea(p, q, r, t) == {<<<<p, q>>, <<r, t>>>>}
           Part(p, q, r, t) == (n * (r * q - p * t)) \div (q * t)
<1>7. \A p, q, r, t : Covered(OneArea(p, q, r, t), n) = Part(p, q, r, t)
  BY <1>1, CoveredIs
<1>8. whole = OneArea(0, 1, 1, 1) /\ before = OneArea(0, 1, k, n) /\ after = OneArea(k, n, 1, 1)
  BY DEF whole, before, after
<1>9. Covered(whole, n) = n
  <2>1. Covered(whole, n) = (n * (1 * 1 - 0 * 1)) \div (1 * 1)
    <3> HIDE DEF OneArea, Part
    <3>1. Covered(whole, n) = Part(0, 1, 1, 1)
      BY <1>7, <1>8
    <3> QED
      BY <3>1 DEF Part
  <2>2. (n * (1 * 1 - 0 * 1)) = n /\ 1 * 1 = 1 /\ n \div 1 = n
    BY <1>1
  <2> QED
    BY <2>1, <2>2
<1>10. Covered(before, n) = k
  <2>1. Covered(before, n) = (n * (k * 1 - 0 * n)) \div (1 * n)
    <3> HIDE DEF OneArea, Part
    <3>1. Covered(before, n) = Part(0, 1, k, n)
      BY <1>7, <1>8
    <3> QED
      BY <3>1 DEF Part
  <2>2. k * 1 - 0 * n = k /\ 1 * n = n
    BY <1>1
  <2>3. (n * k) \div n = k
    BY <1>1, EvenShare
  <2> QED
    BY <2>1, <2>2, <2>3
<1>11. Covered(after, n) = n - k
  <2>1. Covered(after, n) = (n * (1 * n - k * 1)) \div (n * 1)
    <3> HIDE DEF OneArea, Part
    <3>1. Covered(after, n) = Part(k, n, 1, 1)
      BY <1>7, <1>8
    <3> QED
      BY <3>1 DEF Part
  <2>2. 1 * n - k * 1 = n - k /\ n * 1 = n /\ n - k \in Int
    BY <1>1
  <2>3. (n * (n - k)) \div n = n - k
    BY <1>1, <2>2, EvenShare
  <2> QED
    BY <2>1, <2>2, <2>3
<1>12. /\ Covered(SignedArea(a, b, 1), n) \in Int /\ Covered(SignedArea(a, b, -1), n) \in Int
       /\ Covered(SignedArea(a, b, 1), n) + Covered(SignedArea(a, b, -1), n) = n
  <2>1. CASE a >= 0 /\ b >= 0
    <3>1. SignedArea(a, b, 1) = whole /\ SignedArea(a, b, -1) = {}
      BY <1>3, <1>4, <1>5, <2>1
    <3> QED
      BY <1>1, <1>6, <1>9, <3>1
  <2>2. CASE a > 0 /\ b < 0
    <3>1. SignedArea(a, b, 1) = before /\ SignedArea(a, b, -1) = after
      BY <1>4, <1>5, <2>2
    <3> QED
      BY <1>1, <1>10, <1>11, <3>1
  <2>3. CASE a < 0 /\ b > 0
    <3>1. SignedArea(a, b, 1) = after /\ SignedArea(a, b, -1) = before
      BY <1>4, <1>5, <2>3
    <3> QED
      BY <1>1, <1>10, <1>11, <3>1
  <2>4. CASE a <= 0 /\ b <= 0
    <3>1. SignedArea(a, b, 1) = {} /\ SignedArea(a, b, -1) = whole
      BY <1>3, <1>4, <1>5, <2>4
    <3> QED
      BY <1>1, <1>6, <1>9, <3>1
  <2> QED
    BY <2>1, <2>2, <2>3, <2>4
<1> QED
  BY <1>12 DEF n

\* The labels of the axis.
LEMMA LabelsFit ==
  ASSUME NEW e, Bounds(e), NEW v2 \in YAxis(e)
  PROVE  TopPct(v2, e) \in 0 .. 200 * e.range
<1> DEFINE lo == e.lo
           hi == e.hi
           range == e.range
<1>1. /\ lo \in Int /\ hi \in Int /\ range \in Int /\ lo <= 0 /\ 0 <= hi /\ range >= 1
      /\ hi - lo <= range
  BY DEF Bounds
<1>2. v2 = 2 * hi \/ v2 = lo + hi
  BY DEF YAxis
<1>3. TopPct(v2, e) = 100 * 2 * range - 100 * (v2 - 2 * lo)
  BY DEF TopPct
<1> HIDE DEF lo, hi, range
<1>4. TopPct(v2, e) \in 0 .. 200 * range
  BY <1>1, <1>2, <1>3
<1> QED
  BY <1>4 DEF range

\* The curve of a backtest lies between the values of its frame.
LEMMA ScaleFits ==
  ASSUME NEW s \in Seq(Int), NEW i \in 1 .. Len(s)
  PROVE  ScaleY(s[i], Domain(s, 0)) \in 0 .. (Domain(s, 0).hi - Domain(s, 0).lo) * PlotHeight
<1> DEFINE values == ToSet(s) \cup {0}
<1>1. IsFiniteSet(ToSet(s)) /\ ToSet(s) \subseteq Int /\ s[i] \in ToSet(s)
  BY SetOf
<1>2. IsFiniteSet({0})
  BY FS_Singleton
<1>3. IsFiniteSet(values) /\ values \in SUBSET Int /\ s[i] \in values
  <2>1. IsFiniteSet(values)
    BY <1>1, <1>2, FS_Union
  <2> QED
    BY <1>1, <2>1
<1>4. Domain(s, 0).hi = Max(values) + 25 /\ Domain(s, 0).lo = Min(values) - 25
  BY DEF Domain, Padding
<1> HIDE DEF values
<1>5. /\ Min(values) \in Int /\ Max(values) \in Int /\ s[i] \in Int
      /\ Min(values) <= s[i] /\ s[i] <= Max(values)
  BY <1>3, Extremes
<1>6. ScaleY(s[i], Domain(s, 0)) = (Domain(s, 0).hi - s[i]) * 208 /\ PlotHeight = 208
  BY DEF ScaleY, PlotHeight
<1>7. ASSUME NEW lo \in Int, NEW hi \in Int, NEW v \in Int, lo <= v, v <= hi
      PROVE  (hi + 25 - v) * 208 \in 0 .. ((hi + 25) - (lo - 25)) * 208
  BY <1>7
<1> QED
  BY <1>4, <1>5, <1>6, <1>7

LEMMA FitsFrame == GainsOK => FiguresFit
<1> SUFFICES ASSUME GainsOK PROVE FiguresFit
  OBVIOUS
<1> DEFINE e == Extent(Trimmed)
           p == ProfitCumulative(PnlHistory)
           s == Cumulated(PnlHistory)
           d == Domain(s, 0)
           values == ToSet(PnlHistory)
           only == <<p>>
<1>1. HistoryDays \in Nat \ {0} /\ Brokers \in Nat \ {0}
  BY FiguresAssumption
<1>2. /\ PnlHistory \in Seq(Int) /\ Len(PnlHistory) = HistoryDays
      /\ \A i \in 1 .. HistoryDays : PnlHistory[i] \in Int
  BY HistoryIs
<1>3. /\ IsFiniteSet(values) /\ values \in SUBSET Int
      /\ \A i \in 1 .. HistoryDays : PnlHistory[i] \in values
  BY <1>2, SetOf
<1>4. /\ DOMAIN Trimmed = 1 .. Brokers
      /\ \A b \in 1 .. Brokers : Trimmed[b] \in Seq(Int) /\ Len(Trimmed[b]) <= HistoryDays
  <2>1. Start \in 1 .. HistoryDays /\ 1 \in 1 .. Brokers
    BY <1>1, CurveStart
  <2>2. \A k \in 1 .. HistoryDays : HistoryDays - k + 1 <= HistoryDays
    BY <1>1
  <2>3. DOMAIN Trimmed = 1 .. Brokers
    BY <2>1, TrimmedIs
  <2> QED
    BY <2>1, <2>2, <2>3, TrimmedIs
<1>5. /\ Bounds(e)
      /\ \A b \in 1 .. Brokers : \A i \in 1 .. Len(Trimmed[b]) :
           e.lo <= Trimmed[b][i] /\ Trimmed[b][i] <= e.hi
  <2>1. IsFiniteSet(DOMAIN Trimmed)
    BY <1>1, <1>4, FS_Interval
  <2> QED
    BY <1>4, <2>1, ExtentIs
<1> HIDE DEF e, values
<1>6. \A b \in 1 .. Brokers : AreasFit(Trimmed[b], e)
  BY <1>4, <1>5, AreasAre
<1>7. p \in Seq(Int) /\ Len(p) <= HistoryDays
  BY <1>2, ProfitIs
<1> HIDE DEF p
<1>8. AreasFit(p, Extent(<<p>>))
  <2>1. DOMAIN only = {1} /\ only[1] = p
    OBVIOUS
  <2> HIDE DEF only
  <2>2. IsFiniteSet(DOMAIN only)
    BY <2>1, FS_Singleton
  <2>3. \A b \in DOMAIN only : only[b] \in Seq(Int)
    BY <1>7, <2>1
  <2>4. /\ Bounds(Extent(only))
        /\ \A b \in DOMAIN only : \A i \in 1 .. Len(only[b]) :
             Extent(only).lo <= only[b][i] /\ only[b][i] <= Extent(only).hi
    BY <2>2, <2>3, ExtentIs
  <2>5. \A i \in 1 .. Len(p) : Extent(only).lo <= p[i] /\ p[i] <= Extent(only).hi
    BY <2>1, <2>4
  <2>6. AreasFit(p, Extent(only))
    BY <1>7, <2>4, <2>5, AreasAre
  <2> QED
    BY <2>6 DEF only
<1>9. \A v2 \in YAxis(e) : TopPct(v2, e) \in 0 .. 200 * e.range
  BY <1>5, LabelsFit
<1>10. \A i \in 1 .. HistoryDays : BarHeight(PnlHistory[i], values, 100, 4) \in 4 .. 100
  <2>1. ASSUME NEW v \in values, NEW full \in Nat, NEW least \in Nat, least <= full
        PROVE  BarHeight(v, values, full, least) \in least .. full
    BY <1>3, <2>1, BarFits
  <2>2. 100 \in Nat /\ 4 \in Nat /\ 4 <= 100
    OBVIOUS
  <2>3. ASSUME NEW v \in values PROVE BarHeight(v, values, 100, 4) \in 4 .. 100
    BY <2>1, <2>2, Zenon
  <2> QED
    BY <1>3, <2>3
<1>11. \A i \in 1 .. HistoryDays :
         LET bar == DailyPnlBar(PnlHistory[i], values)
         IN bar.top >= 0 /\ bar.top + bar.height <= PlotHeight
  BY <1>3, DailyBarFits
<1>12. \A i \in DOMAIN RadarNormValues : RadarNormValues[i] \in 0 .. 100
  BY RadarFits
<1>13. s \in Seq(Int) /\ Len(s) = HistoryDays
  BY <1>2, CumulatedIs
<1> HIDE DEF s
<1>14. \A i \in 1 .. HistoryDays : ScaleY(s[i], d) \in 0 .. (d.hi - d.lo) * PlotHeight
  BY <1>13, ScaleFits
<1>15. \A i \in 1 .. HistoryDays - 1 :
         Abs(s[i]) + Abs(s[i + 1]) > 0 =>
           Covered(SignedArea(s[i], s[i + 1], 1), Abs(s[i]) + Abs(s[i + 1]))
             + Covered(SignedArea(s[i], s[i + 1], -1), Abs(s[i]) + Abs(s[i + 1]))
           = Abs(s[i]) + Abs(s[i + 1])
  <2>1. \A i \in 1 .. HistoryDays - 1 : s[i] \in Int /\ s[i + 1] \in Int
    BY <1>1, <1>13
  <2> QED
    BY <2>1, SidesCover
<1> HIDE DEF d
<1> QED
  BY <1>6, <1>8, <1>9, <1>10, <1>11, <1>12, <1>14, <1>15 DEF FiguresFit, e, p, s, d, values

\* A month fits on the sheet, each day under its weekday.
LEMMA MonthFits ==
  ASSUME NEW w \in 0 .. 6, NEW days \in 28 .. 31
  PROVE  /\ Len(CalendarDays(w, days)) = 42
         /\ \A d \in 1 .. days : \E c \in 1 .. 42 :
              CalendarDays(w, days)[c] = d /\ (c - 1) % 7 = (w + d - 1 + 6) % 7
<1> DEFINE before == StartDow(w)
           cells == CalendarDays(w, days)
<1>1. before = (IF w = 0 THEN 6 ELSE w - 1) /\ before \in 0 .. 6
  BY DEF StartDow
<1>2. Max({42, before + days}) = 42
  <2>1. 42 \in Int /\ before + days \in Int /\ before + days <= 42
    BY <1>1
  <2> HIDE DEF before
  <2>2. Max({42, before + days}) = IF 42 >= before + days THEN 42 ELSE before + days
    BY <2>1, MaxOfTwo
  <2> QED
    BY <2>1, <2>2
<1>3. cells = [c \in 1 .. Max({42, before + days}) |->
                 IF c > before /\ c <= before + days THEN c - before ELSE 0]
  BY DEF CalendarDays
<1> HIDE DEF cells, before
<1>4. cells = [c \in 1 .. 42 |-> IF c > before /\ c <= before + days THEN c - before ELSE 0]
  BY <1>2, <1>3
<1>5. ASSUME NEW d \in 1 .. days
      PROVE  \E c \in 1 .. 42 : cells[c] = d /\ (c - 1) % 7 = (w + d - 1 + 6) % 7
  <2> DEFINE c == before + d
  <2>1. c \in 1 .. 42 /\ c > before /\ c <= before + days /\ c - before = d
    BY <1>1
  <2>2. cells[c] = d
    BY <1>4, <2>1
  <2>3. c - 1 = w + d - 1 + 6 \/ c - 1 = (w + d - 1 + 6) - 7
    BY <1>1
  <2>4. \A x \in Int : (x - 7) % 7 = x % 7
    OBVIOUS
  <2>5. w + d - 1 + 6 \in Int
    OBVIOUS
  <2>6. (c - 1) % 7 = (w + d - 1 + 6) % 7
    BY <2>3, <2>4, <2>5
  <2> QED
    BY <2>1, <2>2, <2>6
<1>6. Len(cells) = 42
  BY <1>4
<1> QED
  BY <1>5, <1>6 DEF cells

\* The dates on an axis: the first, the last, and none twice.
LEMMA DatesAre ==
  ASSUME NEW n \in Nat \ {0}
  PROVE  /\ XAxisDates(n)[1] = 1 /\ Last(XAxisDates(n)) = n
         /\ \A i \in 1 .. Len(XAxisDates(n)) - 1 : XAxisDates(n)[i] < XAxisDates(n)[i + 1]
         /\ {1, n} \subseteq EquityXTicks(n)
<1> DEFINE dates == XAxisDates(n)
<1>1. CASE n <= 4
  <2>1. dates = [i \in 1 .. n |-> i]
    BY <1>1 DEF XAxisDates
  <2> HIDE DEF dates
  <2>2. Len(dates) = n /\ \A i \in 1 .. n : dates[i] = i
    BY <2>1
  <2>3. \A i \in 1 .. n - 1 : i \in 1 .. n /\ i + 1 \in 1 .. n /\ i < i + 1
    OBVIOUS
  <2>4. dates[1] = 1 /\ Last(dates) = n
    BY <2>2 DEF Last
  <2>5. \A i \in 1 .. Len(dates) - 1 : dates[i] < dates[i + 1]
    BY <2>2, <2>3
  <2>6. {1, n} \subseteq EquityXTicks(n)
    BY DEF EquityXTicks
  <2> QED
    BY <2>4, <2>5, <2>6 DEF dates
<1>2. CASE ~(n <= 4)
  <2>1. dates = [i \in 1 .. 4 |-> ((2 * (i - 1) * (n - 1) + 3) \div 6) + 1]
    BY <1>2 DEF XAxisDates
  <2> HIDE DEF dates
  <2>2. Len(dates) = 4
    BY <2>1
  <2>3. n \in Nat /\ n >= 5
    BY <1>2
  <2>4. dates[1] = ((2 * (1 - 1) * (n - 1) + 3) \div 6) + 1
    BY <2>1
  <2>5. dates[2] = ((2 * (2 - 1) * (n - 1) + 3) \div 6) + 1
    BY <2>1
  <2>6. dates[3] = ((2 * (3 - 1) * (n - 1) + 3) \div 6) + 1
    BY <2>1
  <2>7. dates[4] = ((2 * (4 - 1) * (n - 1) + 3) \div 6) + 1
    BY <2>1
  <2>8. dates[1] = 1
    BY <2>3, <2>4
  <2>9. dates[4] = n
    <3>1. 2 * (4 - 1) * (n - 1) + 3 = 6 * (n - 1) + 3
      BY <2>3
    <3>2. (6 * (n - 1) + 3) \div 6 = n - 1
      BY <2>3
    <3> QED
      BY <2>3, <2>7, <3>1, <3>2
  <2>10. dates[1] < dates[2] /\ dates[2] < dates[3] /\ dates[3] < dates[4]
    BY <2>3, <2>4, <2>5, <2>6, <2>7
  <2>11. \A i \in 1 .. Len(dates) - 1 : dates[i] < dates[i + 1]
    <3>1. ASSUME NEW i \in 1 .. 3 PROVE dates[i] < dates[i + 1]
      <4>1. i = 1 \/ i = 2 \/ i = 3
        OBVIOUS
      <4>2. 1 + 1 = 2 /\ 2 + 1 = 3 /\ 3 + 1 = 4
        OBVIOUS
      <4> QED
        BY <2>10, <4>1, <4>2
    <3> QED
      BY <2>2, <3>1
  <2>12. Last(dates) = n
    BY <2>2, <2>9 DEF Last
  <2>13. {1, n} \subseteq EquityXTicks(n)
    BY <2>3 DEF EquityXTicks
  <2> QED
    BY <2>8, <2>11, <2>12, <2>13 DEF dates
<1> QED
  BY <1>1, <1>2

LEMMA AxesTrue == AxesAreTrue
<1>1. \A w \in 0 .. 6, days \in 28 .. 31 :
        /\ Len(CalendarDays(w, days)) = 42
        /\ \A d \in 1 .. days : \E c \in 1 .. 42 :
             CalendarDays(w, days)[c] = d /\ (c - 1) % 7 = (w + d - 1 + 6) % 7
  BY MonthFits
<1>2. \A n \in 1 .. 40 : n \in Nat \ {0}
  OBVIOUS
<1>3. \A n \in 1 .. 40 :
        /\ XAxisDates(n)[1] = 1 /\ Last(XAxisDates(n)) = n
        /\ \A i \in 1 .. Len(XAxisDates(n)) - 1 : XAxisDates(n)[i] < XAxisDates(n)[i + 1]
        /\ {1, n} \subseteq EquityXTicks(n)
  BY <1>2, DatesAre
<1> QED
  BY <1>1, <1>3 DEF AxesAreTrue

\* What the server asks for a backtest is never more than what the form showed, whatever the
\* numbers of symbols and days.
THEOREM EstimateIsEnough ==
  ASSUME NEW symbols \in Nat, NEW days \in Nat, NEW cost \in ServerEstimates(symbols, days)
  PROVE  cost <= ShownEstimate(symbols, days)
<1> DEFINE m == Max({1, Round(Max({1, days}) * 100, 30)})
           runs == symbols * m
<1>1. m \in Nat
  <2>1. Max({1, days}) \in Nat
    <3>1. Max({1, days}) = IF 1 >= days THEN 1 ELSE days
      BY MaxOfTwo
    <3> QED
      BY <3>1
  <2>2. Round(Max({1, days}) * 100, 30) \in Int
    <3>1. ASSUME NEW k \in Nat PROVE Round(k * 100, 30) \in Int
      BY DEF Round
    <3> QED
      BY <2>1, <3>1
  <2>3. ASSUME NEW k \in Int PROVE Max({1, k}) \in Nat
    <3>1. Max({1, k}) = IF 1 >= k THEN 1 ELSE k
      BY MaxOfTwo
    <3> QED
      BY <3>1
  <2> QED
    BY <2>2, <2>3
<1>2. Executions(symbols, days) = runs
  BY DEF Executions
<1>3. ServerEstimates(symbols, days) =
        IF (15 * symbols * m) % 4 = 1
        THEN {(15 * symbols * m) \div 2, ShownEstimate(symbols, days)}
        ELSE {ShownEstimate(symbols, days)}
  BY DEF ServerEstimates
<1> HIDE DEF m
<1>4. runs \in Nat /\ 15 * symbols * m = 15 * runs
  BY <1>1
<1> HIDE DEF runs
<1>5. ShownEstimate(symbols, days) = (2 * (15 * runs) + 2) \div (2 * 2)
  BY <1>2 DEF ShownEstimate, Round
<1>6. (15 * runs) \div 2 <= (2 * (15 * runs) + 2) \div (2 * 2)
  BY <1>4
<1>7. ShownEstimate(symbols, days) \in Int
  BY <1>4, <1>5
<1>8. cost = (15 * runs) \div 2 \/ cost = ShownEstimate(symbols, days)
  BY <1>3, <1>4
<1> QED
  BY <1>5, <1>6, <1>7, <1>8

LEMMA EstimatesCover == EstimateCovers
<1>1. \A symbols \in 1 .. 20, days \in 0 .. 400 : symbols \in Nat /\ days \in Nat
  OBVIOUS
<1> QED
  BY <1>1, EstimateIsEnough DEF EstimateCovers

\* Whatever the profits, the figures are true to them.
LEMMA FiguresTrue == GainsOK => FiguresAreTrue
BY CurvesTell, FitsFrame, AxesTrue, EstimatesCover DEF FiguresAreTrue

\* What is drawn and computed from the profits is true to them, whatever they are: no curve
\* loses a profit, nothing leaves its frame, no day is shown twice, and what the form shows
\* covers the cost that the server estimates.
THEOREM FiguresHold == FiguresSpec => []FiguresAreTrue
<1>1. FiguresInit => GainsOK
  BY FiguresAssumption DEF FiguresInit, GainsOK
<1>2. GainsOK /\ [UNCHANGED gains]_figuresVars => GainsOK'
  BY DEF GainsOK, figuresVars
<1> QED
  BY <1>1, <1>2, FiguresTrue, PTL DEF FiguresSpec

-------------------------------------------------------------------------------
(* The parts together                                                      *)

TradingInv ==
  /\ tradingPart \in TradingParts
  /\ SessionInv /\ ListInv /\ DialogInv /\ DecisionInv
  /\ BacktestInv /\ ShownInv
  /\ GainsOK

\* No step of the list takes an execution away that the dialog may be about.
LEMMA RowsStay == ASSUME ListInv, ExecutionListNext PROVE Ids \subseteq Ids'
<1>1. ASSUME NEW d \in decisions, DecisionServed(d) PROVE Ids \subseteq Ids'
  <2>1. d.e \in Nat
    BY RowsAssumption DEF ListInv, ListTypeOK
  <2>2. CASE Done(d.op, d.e, "none")
    BY <2>1, <2>2, RowsDone DEF Results, ListInv, ListTypeOK
  <2>3. CASE UNCHANGED rowVars
    BY <2>3 DEF rowVars, Ids
  <2> QED
    BY <1>1, <2>2, <2>3 DEF DecisionServed
<1>2. CASE ListBackend
  BY <1>2, RowsMove DEF ListBackend, ListInv, ListTypeOK
<1>3. CASE UNCHANGED rowVars
  BY <1>3 DEF rowVars, Ids
<1>4. \/ UNCHANGED rowVars \/ ListBackend \/ \E d \in decisions : DecisionServed(d)
  <2>1. CASE RefreshTick \/ ListServes \/ ListAnswers \/ \E r \in listRequests : ListFails(r)
    BY <2>1 DEF RefreshTick, ListServes, ListServed, ListAnswers, ListLoaded, MoreLoaded,
       ListFails
  <2>2. CASE ListUser
    BY <2>2 DEF ListUser, RefreshList, LoadMore, SetFilter, ClearFilters, SetTimeline,
       ToggleTimelineFilter, ShowOnlyTrades, ShowAllCategories, Decide
  <2>3. CASE DecisionSteps
    BY <2>3 DEF DecisionSteps, DecisionAnswered
  <2> QED
    BY <2>1, <2>2, <2>3 DEF ExecutionListNext
<1> QED
  BY <1>1, <1>2, <1>3, <1>4

\* A part that rests keeps its invariant; the dialog does while executions come and move.
LEMMA SessionRests == SessionInv /\ UNCHANGED sessionVars => SessionInv'
BY SessionStep

LEMMA ListRests ==
  ListInv /\ UNCHANGED listPartVars /\ RowsTypeOK' => ListInv'
BY DEF listPartVars, listVars, ListInv, ListTypeOK, Distinct

LEMMA DialogRests ==
  DialogInv /\ UNCHANGED dialogPartVars /\ RowsTypeOK' /\ Ids \subseteq Ids' => DialogInv'
BY DEF dialogPartVars, dialogVars, DialogInv, DialogTypeOK, ExecutionsExist, AnswersAreTrue,
   AnnouncedIsDone, Matches, Gains

LEMMA ApprovalRests == DecisionInv /\ UNCHANGED approvalPageVars => DecisionInv'
BY DecisionStep

LEMMA BacktestsRest ==
  BacktestInv /\ ShownInv /\ UNCHANGED backtestVars => BacktestInv' /\ ShownInv'
BY BacktestStep, ShownStep

LEMMA GainsStay == GainsOK /\ UNCHANGED figuresVars => GainsOK'
BY DEF GainsOK, figuresVars

LEMMA GainsInitially == FiguresInit => GainsOK
BY FiguresAssumption DEF FiguresInit, GainsOK

LEMMA TradingInitially == TradingInit => TradingInv
BY SessionInitially, ListInitially, DialogInitially, DecisionInitially, BacktestInitially,
   ShownInitially, GainsInitially
   DEF TradingInit, TradingInv, ListInit, ReconciliationInit

LEMMA TradingStep == TradingInv /\ [TradingNext]_tradingVars => TradingInv'
<1> SUFFICES ASSUME TradingInv, [TradingNext]_tradingVars PROVE TradingInv'
  OBVIOUS
<1>i. /\ tradingPart \in TradingParts
      /\ SessionInv /\ ListInv /\ DialogInv /\ DecisionInv /\ BacktestInv /\ ShownInv
      /\ GainsOK
  BY DEF TradingInv
<1>r. UNCHANGED rowVars => RowsTypeOK' /\ Ids \subseteq Ids'
  BY <1>i DEF rowVars, RowsTypeOK, Ids, DialogInv
<1>1. CASE /\ SessionNext
           /\ UNCHANGED <<tradingPart, rowVars, listPartVars, dialogPartVars,
                          approvalPageVars, backtestVars, figuresVars>>
  BY <1>1, <1>i, <1>r, SessionStep, ListRests, DialogRests, ApprovalRests, BacktestsRest,
     GainsStay
     DEF TradingInv
<1>2. CASE /\ ExecutionListNext
           /\ UNCHANGED <<tradingPart, sessionVars, dialogPartVars, approvalPageVars,
                          backtestVars, figuresVars>>
  <2>1. ListInv' /\ RowsTypeOK'
    BY <1>2, <1>i, ListStep DEF ListInv, ListTypeOK
  <2>2. Ids \subseteq Ids'
    BY <1>2, <1>i, RowsStay
  <2> QED
    BY <1>2, <1>i, <2>1, <2>2, SessionRests, DialogRests, ApprovalRests, BacktestsRest,
       GainsStay
       DEF TradingInv
<1>3. CASE /\ ReconciliationNext
           /\ UNCHANGED <<tradingPart, sessionVars, listPartVars, approvalPageVars,
                          backtestVars, figuresVars>>
  <2>1. DialogInv' /\ RowsTypeOK'
    BY <1>3, <1>i, DialogStep DEF DialogInv
  <2> QED
    BY <1>3, <1>i, <2>1, SessionRests, ListRests, ApprovalRests, BacktestsRest,
       GainsStay
       DEF TradingInv
<1>4. CASE /\ ApprovalPageNext
           /\ UNCHANGED <<tradingPart, sessionVars, rowVars, listPartVars, dialogPartVars,
                          backtestVars, figuresVars>>
  BY <1>4, <1>i, <1>r, DecisionStep, SessionRests, ListRests, DialogRests, BacktestsRest,
     GainsStay
     DEF TradingInv
<1>5. CASE /\ BacktestsNext
           /\ UNCHANGED <<tradingPart, sessionVars, rowVars, listPartVars, dialogPartVars,
                          approvalPageVars, figuresVars>>
  BY <1>5, <1>i, <1>r, BacktestStep, ShownStep, SessionRests, ListRests, DialogRests,
     ApprovalRests, GainsStay
     DEF TradingInv
<1>6. CASE UNCHANGED tradingVars
  <2>1. UNCHANGED <<tradingPart, sessionVars, rowVars, listPartVars, dialogPartVars,
                    approvalPageVars, backtestVars, figuresVars>>
    BY <1>6 DEF tradingVars
  <2> QED
    BY <1>i, <1>r, <2>1, SessionRests, ListRests, DialogRests, ApprovalRests, BacktestsRest,
       GainsStay
       DEF TradingInv
<1> QED
  BY <1>1, <1>2, <1>3, <1>4, <1>5, <1>6 DEF TradingNext

LEMMA TradingIsInvariant == TradingSpec => []TradingInv
BY TradingInitially, TradingStep, PTL DEF TradingSpec

\* Every part keeps its types, whichever one is in use.
THEOREM TradingTypes == TradingSpec => []TradingTypeOK
<1>1. TradingInv => TradingTypeOK
  BY DEF TradingInv, TradingTypeOK, SessionInv, ListInv, DialogInv, DecisionInv, BacktestInv,
     BacktestsTypeOK, PageOK, RequestOK
<1> QED
  BY <1>1, TradingIsInvariant, PTL

\* What the client shows of its sessions, executions, reconciliations and decisions, and of
\* the details, the reports and the lists of its backtests, holds together, whichever part is
\* in use.
THEOREM TradingHolds ==
  TradingSpec => [](/\ SessionIsKept /\ NoDuplicates /\ AnnouncedIsDone
                    /\ PnLMatchesPrices /\ DecisionIsTrue /\ BacktestsAreShown)
<1>1. SessionInv => SessionIsKept
  BY DEF SessionInv, EndedOnLogin, SessionIsKept, ExpiryReturns
<1>2. ListInv => NoDuplicates
  BY DEF ListInv, NoDuplicates, Distinct
<1>3. DialogInv => AnnouncedIsDone /\ PnLMatchesPrices
  BY DEF DialogInv, Matches, Gains, PnLMatchesPrices
<1>4. DecisionInv => DecisionIsTrue
  BY DEF DecisionInv
<1>5. BacktestInv /\ ShownInv => BacktestsAreShown
  BY ShownHolds
<1> QED
  BY <1>1, <1>2, <1>3, <1>4, <1>5, TradingIsInvariant, PTL DEF TradingInv

\* The figures are drawn true to the profits whenever they are looked at.
THEOREM FiguresDrawn == TradingSpec => []FiguresAreDrawn
<1>1. TradingInv => FiguresAreDrawn
  BY FiguresTrue DEF TradingInv, FiguresAreDrawn
<1> QED
  BY <1>1, TradingIsInvariant, PTL
===============================================================================
