-------------------------------- MODULE Session --------------------------------
(***************************************************************************)
(* The session of the web client: the token in the browser's storage, the  *)
(* user it loads, the guard of the routes, the interceptor that ends the   *)
(* session at a 401, and the login and register pages.                     *)
(*                                                                         *)
(* A token is the number of the login that gave it; even ones belong to    *)
(* one account and odd ones to another.  Pages are only names here; what   *)
(* they do while they are open is in the modules of the pages.             *)
(***************************************************************************)
EXTENDS Naturals

CONSTANTS
  ProtectedPages,  \* routes with the guard
  Home,            \* /dashboard, where a login without a returnUrl goes
  MaxLogins        \* bound on submitted logins and registrations

ASSUME SessionAssumption ==
  /\ Home \in ProtectedPages /\ MaxLogins \in Nat
  /\ {"landing", "login", "register", "none"} \cap ProtectedPages = {}

VARIABLES
  route,
  returnUrl,      \* of the mounted login page
  token,          \* localStorage auth_token; 0: none
  currentUser,    \* the login whose user was loaded last; 0: null
  authenticated,  \* isAuthenticatedSubject
  submitted,      \* login and register requests in flight
  meRequests,     \* loadCurrentUser in flight, by token
  requests,       \* other requests in flight, by token
  loginError,     \* what the login or register page shows
  \* the backend
  logins,         \* how many were submitted
  valid,          \* tokens it accepts
  \* history
  expiredOn       \* the page on which a 401 ended the session, until the user moves on

pageOfSession == <<route, returnUrl, loginError>>
authVars == <<token, currentUser, authenticated>>
sessionVars == <<pageOfSession, authVars, submitted, meRequests, requests, logins, valid,
                 expiredOn>>

PublicPages == {"landing", "login", "register"}
Pages == ProtectedPages \cup PublicPages
Tokens == 0 .. MaxLogins

IsAuthenticated == token # 0

-------------------------------------------------------------------------------
(* Routes                                                                  *)

\* ngOnInit of the login page.
MountLogin(from) == returnUrl' = from /\ loginError' = FALSE

\* canActivate
AuthGuard(p) == p \in PublicPages \/ IsAuthenticated

\* The router on a navigation to page p; a login page that is open already is reused.
NavigateTo(p, from) ==
  IF AuthGuard(p)
    THEN /\ route' = p
         /\ IF p = "login"
              THEN IF route = "login" THEN UNCHANGED <<returnUrl, loginError>> ELSE MountLogin(from)
              ELSE returnUrl' = "none" /\ loginError' = FALSE
    ELSE /\ route' = "login"
         /\ IF route = "login" THEN UNCHANGED <<returnUrl, loginError>> ELSE MountLogin(p)

\* The user follows a link or enters an address.
Navigate ==
  /\ \E p \in Pages \ {route} : NavigateTo(p, Home)
  /\ expiredOn' = "none"
  /\ UNCHANGED <<authVars, submitted, meRequests, requests, logins, valid>>

-------------------------------------------------------------------------------
(* Login and register                                                      *)

\* onSubmit of the login page keeps its returnUrl; register goes to the landing page.
Submit ==
  /\ route \in {"login", "register"}
  /\ logins < MaxLogins /\ logins' = logins + 1
  /\ submitted' = submitted \cup
       {[n |-> logins', goTo |-> IF route = "login" THEN returnUrl ELSE "landing"]}
  /\ loginError' = FALSE
  /\ UNCHANGED <<route, returnUrl, authVars, meRequests, requests, valid, expiredOn>>

\* login: the token is stored, the user asked for and the page left, whatever page it is
\* by now.
LoginAnswered(s) ==
  /\ submitted' = submitted \ {s}
  /\ valid' = valid \cup {s.n}
  /\ token' = s.n /\ authenticated' = TRUE
  /\ meRequests' = meRequests \cup {s.n}
  /\ route' = s.goTo /\ returnUrl' = "none" /\ loginError' = FALSE
  /\ expiredOn' = "none"
  /\ UNCHANGED <<currentUser, requests, logins>>

\* removeToken, and the navigation that follows.
Logout == token' = 0 /\ currentUser' = 0 /\ authenticated' = FALSE

\* Wrong credentials are a 401 too: the interceptor ends whatever session there is and
\* sends to the login page.
LoginRefused(s) ==
  /\ submitted' = submitted \ {s}
  /\ Logout
  /\ route' = "login"
  /\ IF route = "login" THEN UNCHANGED returnUrl ELSE returnUrl' = route
  /\ loginError' = (route = "login")
  /\ expiredOn' = IF route \in ProtectedPages THEN route ELSE expiredOn
  /\ UNCHANGED <<meRequests, requests, logins, valid>>

\* Any other error is shown.
LoginFails(s) ==
  /\ submitted' = submitted \ {s}
  /\ loginError' = (route \in {"login", "register"})
  /\ UNCHANGED <<route, returnUrl, authVars, meRequests, requests, logins, valid, expiredOn>>

\* The logout of the navigation bar: to the login page and at once to the landing page.
UserLogout ==
  /\ IsAuthenticated /\ Logout
  /\ route' = "landing" /\ returnUrl' = "none" /\ loginError' = FALSE
  /\ expiredOn' = "none"
  /\ UNCHANGED <<submitted, meRequests, requests, logins, valid>>

-------------------------------------------------------------------------------
(* Requests                                                                *)

\* A page asks for something; the interceptor adds the token.
SendRequest ==
  /\ route \in ProtectedPages
  /\ requests' = requests \cup {token}
  /\ UNCHANGED <<pageOfSession, authVars, submitted, meRequests, logins, valid, expiredOn>>

\* Mutant: the login page is opened anew, with the address the router has by then.
UnauthorizedRemounts ==
  /\ Logout
  /\ route' = "login" /\ returnUrl' = route /\ loginError' = FALSE
  /\ expiredOn' = IF route \in ProtectedPages THEN route ELSE expiredOn

\* The interceptor at a 401: logout, and the login page with the address of this page.  It
\* does not ask which token the request had.
Unauthorized ==
  /\ Logout
  /\ route' = "login"
  /\ IF route = "login" THEN UNCHANGED <<returnUrl, loginError>> ELSE MountLogin(route)
  /\ expiredOn' = IF route \in ProtectedPages THEN route ELSE expiredOn

RequestAnswered ==
  /\ \E t \in requests :
       /\ requests' = requests \ {t}
       /\ IF t \in valid
            THEN UNCHANGED <<pageOfSession, authVars, expiredOn>>
            ELSE Unauthorized
  /\ UNCHANGED <<submitted, meRequests, logins, valid>>

\* loadCurrentUser; its answer is taken after a logout too.
MeAnswered ==
  /\ \E t \in meRequests :
       /\ meRequests' = meRequests \ {t}
       /\ IF t \in valid
            THEN currentUser' = t /\ UNCHANGED <<token, authenticated, pageOfSession, expiredOn>>
            ELSE Unauthorized
  /\ UNCHANGED <<submitted, requests, logins, valid>>

\* The token's lifetime ends.
TokenExpires ==
  /\ \E t \in valid : valid' = valid \ {t}
  /\ UNCHANGED <<pageOfSession, authVars, submitted, meRequests, requests, logins, expiredOn>>

-------------------------------------------------------------------------------

\* The application starts; with a token in the storage it loads the user.
SessionInit ==
  /\ route = "landing" /\ returnUrl = "none" /\ loginError = FALSE
  /\ token \in {0, 1} /\ token <= MaxLogins
  /\ logins = token /\ valid \in SUBSET ({token} \ {0})
  /\ authenticated = (token # 0) /\ currentUser = 0
  /\ meRequests = IF token = 0 THEN {} ELSE {token}
  /\ submitted = {} /\ requests = {} /\ expiredOn = "none"

SessionAnswers ==
  \/ \E s \in submitted : LoginAnswered(s) \/ LoginRefused(s) \/ LoginFails(s)
  \/ RequestAnswered \/ MeAnswered

SessionNext ==
  Navigate \/ Submit \/ UserLogout \/ SendRequest \/ TokenExpires \/ SessionAnswers

SessionSpec == SessionInit /\ [][SessionNext]_sessionVars

-------------------------------------------------------------------------------
(* Properties                                                              *)

\* The types of the session.
SessionTypeOK ==
  /\ route \in Pages /\ returnUrl \in Pages \cup {"none"}
  /\ token \in Tokens /\ currentUser \in Tokens /\ authenticated \in BOOLEAN
  /\ submitted \subseteq [n : Tokens \ {0}, goTo : Pages \ {"login"}]
  /\ meRequests \subseteq Tokens /\ requests \subseteq Tokens
  /\ loginError \in BOOLEAN
  /\ logins \in Tokens /\ valid \subseteq Tokens \ {0}
  /\ expiredOn \in ProtectedPages \cup {"none"}

\* No protected page stays open without a token: whatever order the answers to requests of
\* this and earlier sessions come in, what takes the token away leaves the page too.
ProtectedNeedsToken == route \in ProtectedPages => IsAuthenticated

\* After a 401 the login page returns the user to the page that was open, also when more
\* 401s come in while the login page is open already, and when a login is refused.
ExpiryReturns == route = "login" /\ expiredOn # "none" => returnUrl = expiredOn

\* Both hold at any time of a session, and over any number of sessions.
SessionIsKept == ProtectedNeedsToken /\ ExpiryReturns
===============================================================================
