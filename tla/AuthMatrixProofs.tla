--------------------------- MODULE AuthMatrixProofs ---------------------------
(***************************************************************************)
(* Proofs that every error a request ends with has its cause               *)
(* (DenialHasCause) and that the outcome of a request follows the          *)
(* authorization matrix (AuthorizationMatrix), for every value of the      *)
(* constants.  Neither is inductive: an error raised by authorize_admin    *)
(* is only justified if the thread entered authorize_admin for an          *)
(* admin-only endpoint, and a handler that returns only ends a served      *)
(* request if the thread reached the handler through func.  StageInv(r)    *)
(* records both; with SafetyInv of AuthProofs (the identity in             *)
(* req.context is verified) the two properties become inductive.          *)
(***************************************************************************)
EXTENDS AuthProofs, TLAPS

\* Where a thread is tells how it got there: authorize_admin runs only for
\* admin-only endpoints, and the handler only after func was called.
StageInv(r) ==
    /\ pc[r] = "authz" => AdminOnly(req[r].endpoint)
    /\ pc[r] = "handler" => served[r]

LocalInv(r) == StageInv(r) /\ DeniedWithCause(r) /\ MatrixHolds(r)

MatrixInv == SafetyInv /\ \A r \in Requests : LocalInv(r)

\* The code a backend of thread r raises, dispatched to b, fits the
\* request: the causes the taxonomy gives each of 401, 403 and 400, and 401
\* for an anonymous request to an endpoint that requires login.
CodeFits(r, b, code) ==
    LET h == req[r].hdr IN
    /\ code = 401 =>
         \/ h.scheme = "none"
         \/ h.scheme = "Basic" /\ h.tok.form = "ok" /\ h.tok.pw = "bad"
    /\ code = 403 =>
         /\ h.scheme = "Negotiate" /\ h.tok.form = "ok"
         /\ Lower(h.tok.p.realm) # Lower(Domain)
    /\ code = 400 =>
         \/ h.scheme \notin {"none", IF b = "kerberos" THEN "Negotiate"
                                                       ELSE "Basic"}
         \/ h.scheme = "Negotiate" /\ h.tok.form = "bad_b64"
    /\ req[r].endpoint \in {"required", "admin"} /\ h.scheme = "none" =>
         code = 401

\* A backend that raises a fitting code ends the request as the two
\* properties require; the context is still empty, so no user is involved.
LEMMA BackendRejectLocal ==
    ASSUME TypeOK, NEW r \in Requests, NEW b, NEW code,
           pc[r] = "auth", ctx[r] = EmptyContext, ~served[r],
           req' = req, via'[r] = b, Reject(r, code), CodeFits(r, b, code)
    PROVE  LocalInv(r)'
BY SentinelAssumption
   DEF TypeOK, Reject, LocalInv, StageInv, DeniedWithCause, MatrixHolds,
       CodeFits, EmptyContext

\* A backend that calls on goes to authorize_admin exactly for admin-only
\* endpoints, and otherwise into the handler with the request served.
LEMMA BackendCallLocal ==
    ASSUME TypeOK, NEW r \in Requests, NEW c, req' = req, CallFunc(r, c)
    PROVE  LocalInv(r)'
BY DEF TypeOK, CallFunc, LocalInv, StageInv, DeniedWithCause, MatrixHolds

\* kerberos_authenticate raises 401 only without a header, 400 only for a
\* header that is not Negotiate or a token that is not base64, and 403
\* only for a foreign realm.
LEMMA KerberosLocal ==
    ASSUME SafetyInv, NEW r \in Requests, KerberosAuthenticate(r)
    PROVE  LocalInv(r)'
<1>0. /\ TypeOK /\ ~served[r] /\ ctx[r] = EmptyContext /\ pc[r] = "auth"
      /\ via'[r] = "kerberos" /\ req' = req
    BY BackendStart DEF KerberosAuthenticate
<1> DEFINE h   == req[r].hdr
           opt == Optional(req[r].endpoint)
<1>1. CASE \E c : CallFunc(r, c)
    BY <1>0, <1>1, BackendCallLocal
<1>2. CASE h.scheme = "none" /\ ~opt /\ Reject(r, 401)
    BY <1>0, <1>2, BackendRejectLocal DEF CodeFits
<1>3. CASE h.scheme \notin {"none", "Negotiate"} /\ Reject(r, 400)
    BY <1>0, <1>3, BackendRejectLocal DEF CodeFits
<1>4. CASE h.scheme = "Negotiate" /\ h.tok.form = "bad_b64" /\ Reject(r, 400)
    BY <1>0, <1>4, BackendRejectLocal DEF CodeFits
<1>5. CASE h.scheme = "Negotiate" /\ Reject(r, 500)
    BY <1>0, <1>5, BackendRejectLocal DEF CodeFits
<1>6. CASE /\ h.scheme = "Negotiate" /\ h.tok.form = "ok"
           /\ ~RealmAccepted(h.tok.p.realm) /\ Reject(r, 403)
    BY <1>0, <1>6, BackendRejectLocal DEF CodeFits, RealmAccepted
<1>7. QED
    BY <1>1, <1>2, <1>3, <1>4, <1>5, <1>6 DEF KerberosAuthenticate

\* ldap_authenticate raises 401 only without a header or for a wrong
\* password, and 400 only for a header that is not Basic; its other
\* errors are 500.
LEMMA LdapLocal ==
    ASSUME SafetyInv, NEW r \in Requests, LdapAuthenticate(r)
    PROVE  LocalInv(r)'
<1>0. /\ TypeOK /\ ~served[r] /\ ctx[r] = EmptyContext /\ pc[r] = "auth"
      /\ via'[r] = "ldap" /\ req' = req
    BY BackendStart DEF LdapAuthenticate
<1> DEFINE h == req[r].hdr
<1>1. CASE \E c : CallFunc(r, c)
    BY <1>0, <1>1, BackendCallLocal
<1>2. CASE h.scheme = "none" /\ Reject(r, 401)
    BY <1>0, <1>2, BackendRejectLocal DEF CodeFits
<1>3. CASE h.scheme \notin {"none", "Basic"} /\ Reject(r, 400)
    BY <1>0, <1>3, BackendRejectLocal DEF CodeFits
<1>4. CASE h.scheme = "Basic" /\ Reject(r, 500)
    BY <1>0, <1>4, BackendRejectLocal DEF CodeFits
<1>5. CASE /\ h.scheme = "Basic" /\ h.tok.form = "ok" /\ h.tok.pw = "bad"
           /\ Reject(r, 401)
    BY <1>0, <1>5, BackendRejectLocal DEF CodeFits
<1>6. QED
    BY <1>1, <1>2, <1>3, <1>4, <1>5 DEF LdapAuthenticate

\* pam_authenticate raises the same codes for the same causes as
\* ldap_authenticate.
LEMMA PamLocal ==
    ASSUME SafetyInv, NEW r \in Requests, PamAuthenticate(r)
    PROVE  LocalInv(r)'
<1>0. /\ TypeOK /\ ~served[r] /\ ctx[r] = EmptyContext /\ pc[r] = "auth"
      /\ via'[r] = "pam" /\ req' = req
    BY BackendStart DEF PamAuthenticate
<1> DEFINE h == req[r].hdr
<1>1. CASE \E c : CallFunc(r, c)
    BY <1>0, <1>1, BackendCallLocal
<1>2. CASE h.scheme = "none" /\ Reject(r, 401)
    BY <1>0, <1>2, BackendRejectLocal DEF CodeFits
<1>3. CASE h.scheme \notin {"none", "Basic"} /\ Reject(r, 400)
    BY <1>0, <1>3, BackendRejectLocal DEF CodeFits
<1>4. CASE h.scheme = "Basic" /\ Reject(r, 500)
    BY <1>0, <1>4, BackendRejectLocal DEF CodeFits
<1>5. CASE /\ h.scheme = "Basic" /\ h.tok.form = "ok" /\ h.tok.pw = "bad"
           /\ Reject(r, 401)
    BY <1>0, <1>5, BackendRejectLocal DEF CodeFits
<1>6. QED
    BY <1>1, <1>2, <1>3, <1>4, <1>5 DEF PamAuthenticate

\* An error of wrapped itself is a 500 with no backend chosen.
LEMMA WrappedRaisesLocal ==
    ASSUME SafetyInv, NEW r \in Requests, WrappedRaises(r)
    PROVE  LocalInv(r)'
<1>a. PICK e \in DispatchErrors : Dispatched(r, e)
    BY DEF WrappedRaises
<1>0. /\ TypeOK /\ via'[r] \in DispatchErrors
    BY <1>a, BackendStart DEF WrappedRaises
<1>b. via'[r] \notin BackendNames
    BY <1>0 DEF DispatchErrors, BackendNames
<1>1. QED
    BY <1>0, <1>b DEF WrappedRaises, Reject, TypeOK, LocalInv, StageInv,
                      DeniedWithCause, MatrixHolds

\* An anonymous request never reaches authorize_admin or the handler of
\* an endpoint that requires login: the context of a thread past its
\* backend is verified, and a verified header is not empty.
LEMMA NotAnonymousRequired ==
    ASSUME NEW r, VerifiedOrAnonymous(r),
           req[r].endpoint \in {"required", "admin"}
    PROVE  req[r].hdr.scheme # "none"
BY DEF VerifiedOrAnonymous, Verified

\* authorize_admin raises 403 only for a user who is not an administrator,
\* on an admin-only endpoint, and calls the handler for every administrator.
LEMMA AuthorizeAdminLocal ==
    ASSUME SafetyInv, NEW r \in Requests, LocalInv(r), AuthorizeAdmin(r)
    PROVE  LocalInv(r)'
<1>0. /\ TypeOK /\ pc[r] = "authz" /\ ~served[r]
      /\ AdminOnly(req[r].endpoint) /\ VerifiedOrAnonymous(r)
      /\ UNCHANGED <<req, via>>
    BY DEF SafetyInv, TypeInv, ReqInv, LocalInv, StageInv, AuthorizeAdmin
<1>1. ~(req[r].endpoint \in {"required", "admin"} /\ req[r].hdr.scheme = "none")
    BY <1>0, NotAnonymousRequired
<1> DEFINE u == ctx[r].user
<1>2. CASE IsAdmin(u)
    <2>1. pc' = [pc EXCEPT ![r] = "handler"] /\ served' = [served EXCEPT ![r] = TRUE]
        BY <1>2, SentinelAssumption DEF AuthorizeAdmin, IsAdmin, Reject
    <2>2. QED
        BY <1>0, <2>1 DEF TypeOK, LocalInv, StageInv, DeniedWithCause, MatrixHolds
<1>3. CASE u \in UserObjects /\ ~IsAdmin(u) /\ Reject(r, 403)
    BY <1>0, <1>1, <1>3
    DEF TypeOK, Reject, LocalInv, StageInv, DeniedWithCause, MatrixHolds, AdminOnly
<1>4. CASE u \in {None, Unset} /\ Reject(r, 500)
    BY <1>0, <1>1, <1>4, SentinelAssumption
    DEF TypeOK, Reject, LocalInv, StageInv, DeniedWithCause, MatrixHolds
<1>5. QED
    BY <1>2, <1>3, <1>4 DEF AuthorizeAdmin

\* The handler ends a served request; what it returns is no error of the
\* taxonomy, and its identity was verified and, on admin endpoints,
\* authorized.
LEMMA HandlerLocal ==
    ASSUME SafetyInv, NEW r \in Requests, LocalInv(r), Handler(r)
    PROVE  LocalInv(r)'
<1>0. /\ TypeOK /\ served[r] /\ ReqInv(r) /\ VerifiedOrAnonymous(r)
      /\ UNCHANGED <<req, via, ctx, served>> /\ pc'[r] = "done"
    BY DEF SafetyInv, TypeInv, ReqInv, LocalInv, StageInv, Handler, TypeOK
<1>1. ~(req[r].endpoint \in {"required", "admin"} /\ req[r].hdr.scheme = "none")
    BY <1>0, NotAnonymousRequired
<1>2. QED
    BY <1>0, <1>1 DEF ReqInv, LocalInv, StageInv, DeniedWithCause, MatrixHolds

\* A new request is in its backend: nothing is claimed of it yet.
LEMMA ArriveLocal ==
    ASSUME SafetyInv, NEW r \in Requests, Arrive(r)
    PROVE  LocalInv(r)'
BY DEF SafetyInv, TypeInv, TypeOK, Arrive, LocalInv, StageInv,
       DeniedWithCause, MatrixHolds

\* A step of another thread leaves the outcome of s as it was.
LEMMA LocalInvFrame ==
    ASSUME NEW s, LocalInv(s),
           pc'[s] = pc[s], req'[s] = req[s], via'[s] = via[s],
           ctx'[s] = ctx[s], served'[s] = served[s], status'[s] = status[s]
    PROVE  LocalInv(s)'
BY DEF LocalInv, StageInv, DeniedWithCause, MatrixHolds

LEMMA InitMatrixInv == Init => MatrixInv
BY InitSafetyInv DEF Init, MatrixInv, LocalInv, StageInv, DeniedWithCause,
                     MatrixHolds

LEMMA NextMatrixInv == MatrixInv /\ [Next]_vars => MatrixInv'
<1> SUFFICES ASSUME MatrixInv, [Next]_vars PROVE MatrixInv'
    OBVIOUS
<1>0. SafetyInv /\ TypeInv
    BY DEF MatrixInv, SafetyInv
<1>1. SafetyInv'
    BY <1>0, NextSafetyInv
<1>2. ASSUME NEW s \in Requests PROVE LocalInv(s)'
    <2>0. LocalInv(s)
        BY DEF MatrixInv
    <2>1. CASE UNCHANGED vars
        BY <2>0, <2>1, LocalInvFrame DEF vars
    <2>2. CASE Next
        <3>1. PICK r \in Requests :
                \/ KerberosAuthenticate(r) \/ LdapAuthenticate(r)
                \/ PamAuthenticate(r) \/ WrappedRaises(r) \/ AuthorizeAdmin(r)
                \/ Handler(r) \/ Arrive(r)
            BY <2>2 DEF Next
        <3>2. CASE r # s
            BY <1>0, <2>0, <3>1, <3>2, ThreadFrame, LocalInvFrame
        <3>3. CASE r = s
            BY <1>0, <2>0, <3>1, <3>3, KerberosLocal, LdapLocal, PamLocal,
               WrappedRaisesLocal, AuthorizeAdminLocal, HandlerLocal, ArriveLocal
        <3>4. QED
            BY <3>2, <3>3
    <2>3. QED
        BY <2>1, <2>2
<1>3. QED
    BY <1>1, <1>2 DEF MatrixInv

LEMMA MatrixInvariant == Spec => []MatrixInv
BY InitMatrixInv, NextMatrixInv, PTL DEF Spec

(* Every 401, 403 and 400 a request ends with has the cause the error     *)
(* taxonomy gives it, for every realm, user set and number of threads:    *)
(* the three backends and authorize_admin raise each code only on the    *)
(* branch for its cause.                                                  *)
THEOREM DenialSafety == Spec => []DenialHasCause
<1>1. MatrixInv => DenialHasCause
    BY DEF MatrixInv, LocalInv, DenialHasCause
<1>2. QED
    BY <1>1, MatrixInvariant, PTL

(* Every finished request follows the authorization matrix, for every     *)
(* realm, user set and number of threads: anonymous requests to endpoints *)
(* that require login get 401, authenticated non-administrators on admin  *)
(* endpoints get 403, and every other authenticated request is served.    *)
THEOREM MatrixSafety == Spec => []AuthorizationMatrix
<1>1. MatrixInv => AuthorizationMatrix
    BY DEF MatrixInv, LocalInv, AuthorizationMatrix
<1>2. QED
    BY <1>1, MatrixInvariant, PTL

=============================================================================
