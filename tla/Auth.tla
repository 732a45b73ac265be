-------------------------------- MODULE Auth --------------------------------
(***************************************************************************)
(* The authentication shim of certidude (src/certidude/auth.py).           *)
(*                                                                         *)
(* Every API handler is wrapped by login_required / login_optional, and    *)
(* admin-only ones also by authorize_admin.  A request is dispatched by    *)
(* `wrapped` to the Kerberos, LDAP or PAM backend according to the         *)
(* configured backend set and the client's User-Agent; the backend checks  *)
(* the Authorization header, fills req.context (user, machine, ldap_conn)  *)
(* and calls the handler, or raises an HTTP error.  Each request is served *)
(* by its own thread, so the requests in Requests proceed interleaved.     *)
(*                                                                         *)
(* Data is abstracted: a header is a record saying which scheme it uses    *)
(* and whether its token decodes, a password is "good" or "bad", a         *)
(* Kerberos principal is a (name, machine account?, realm) triple.  The    *)
(* case folding of realms and host names is the constant operator Lower.   *)
(***************************************************************************)
EXTENDS AuthData

(***************************************************************************)
(* State.                                                                  *)
(***************************************************************************)
VARIABLES
    backends,   \* config.AUTHENTICATION_BACKENDS, fixed for the process
    pc,         \* where each request thread is
    req,        \* the request each thread is serving
    via,        \* the backend `wrapped` dispatched the request to
    ctx,        \* req.context
    conn,       \* the LDAP connection opened by ldap_authenticate
    served,     \* the handler itself (func) has been called
    status      \* the HTTP status of the response, 0 while in flight

vars == <<backends, pc, req, via, ctx, conn, served, status>>

Statuses == {0, 200, 400, 401, 403, 500}

\* The outcomes of wrapped that are no backend.
DispatchErrors == {"unsupported", "no_user_agent"}

Contexts ==
    [user : UserObjects \cup {None, Unset},
     machine : {Lower(n) : n \in Names} \cup {Unset},
     ldap_conn : BOOLEAN,
     admin_authorized : BOOLEAN]

EmptyContext ==
    [user |-> Unset, machine |-> Unset, ldap_conn |-> FALSE,
     admin_authorized |-> FALSE]

TypeOK ==
    /\ backends \in SUBSET BackendNames
    /\ pc \in [Requests -> {"idle", "auth", "authz", "handler", "done"}]
    /\ req \in [Requests -> Inputs \cup {NoRequest}]
    /\ via \in [Requests -> BackendNames \cup {"none"} \cup DispatchErrors]
    /\ ctx \in [Requests -> Contexts]
    /\ conn \in [Requests -> {"none", "open", "unbound"}]
    /\ served \in [Requests -> BOOLEAN]
    /\ status \in [Requests -> Statuses]

(***************************************************************************)
(* wrapped: the backend a request is dispatched to.  The order of the      *)
(* tests matters: LDAP for mobile clients first, then Kerberos, then the   *)
(* single-backend configurations.  With LDAP configured the User-Agent is  *)
(* searched first; without the header req.user_agent is None and           *)
(* "Android" in None raises TypeError before any backend runs.            *)
(***************************************************************************)
Route(bs, ua) ==
    IF "ldap" \in bs /\ ua = "none" THEN "no_user_agent"
    ELSE IF "ldap" \in bs /\ ua = "mobile" THEN "ldap"
    ELSE IF "kerberos" \in bs THEN "kerberos"
    ELSE IF bs = {"pam"} THEN "pam"
    ELSE IF bs = {"ldap"} THEN "ldap"
    ELSE "unsupported"

\* The request ends with an HTTP error raised before the handler ran.
Reject(r, code) ==
    /\ pc' = [pc EXCEPT ![r] = "done"]
    /\ status' = [status EXCEPT ![r] = code]
    /\ UNCHANGED <<ctx, served>>

\* CallFunc as if the handler were not wrapped by authorize_admin.
CallFuncSkipAuthz(r, c) ==
    /\ ctx' = [ctx EXCEPT ![r] = c]
    /\ pc' = [pc EXCEPT ![r] = "handler"]
    /\ served' = [served EXCEPT ![r] = TRUE]
    /\ UNCHANGED status

\* `return func(resource, req, resp, ...)` of a backend with context c: the
\* func is the handler, or authorize_admin's wrapper around it.
CallFunc(r, c) ==
    /\ ctx' = [ctx EXCEPT ![r] = c]
    /\ IF AdminOnly(req[r].endpoint)
         THEN /\ pc' = [pc EXCEPT ![r] = "authz"]
              /\ UNCHANGED served
         ELSE /\ pc' = [pc EXCEPT ![r] = "handler"]
              /\ served' = [served EXCEPT ![r] = TRUE]
    /\ UNCHANGED status

\* `if domain.lower() != const.DOMAIN.lower()`: the realm check.
RealmAcceptedCaseSensitive(realm) == realm = Lower(Domain)
RealmAccepted(realm) == Lower(realm) = Lower(Domain)

\* `username[:-1].lower()`: the host name of a machine account.
MachineNameUnlowered(p) == p.name
MachineName(p) == Lower(p.name)

\* `if optional and not req.get_param_as_bool("authenticate")` of the LDAP
\* and PAM backends: the handler is called without authentication.
SkipsAuthNoOptional(r) == ~req[r].authenticate
SkipsAuth(r) == Optional(req[r].endpoint) /\ ~req[r].authenticate

\* The guard shared by the three backends.
Dispatched(r, backend) ==
    /\ pc[r] = "auth"
    /\ Route(backends, req[r].ua) = backend
    /\ via' = [via EXCEPT ![r] = backend]

(***************************************************************************)
(* kerberos_authenticate                                                   *)
(***************************************************************************)
KerberosAuthenticate(r) ==
    LET h   == req[r].hdr
        opt == Optional(req[r].endpoint)
    IN
    /\ Dispatched(r, "kerberos")
    /\ UNCHANGED <<backends, req, conn>>
    /\ \/ h.scheme = "none" /\ opt
          /\ CallFunc(r, [ctx[r] EXCEPT !.user = None])
       \/ h.scheme = "none" /\ ~opt /\ Reject(r, 401)
       \/ h.scheme \notin {"none", "Negotiate"} /\ Reject(r, 400)
       \/ h.scheme = "Negotiate" /\ h.tok.form = "bad_b64" /\ Reject(r, 400)
       \* a GSSError from context.step is not caught
       \/ h.scheme = "Negotiate" /\ h.tok.form = "bad_gss" /\ Reject(r, 500)
       \/ h.scheme = "Negotiate" /\ h.tok.form = "ok"
          /\ LET p == h.tok.p IN
             \/ ~RealmAccepted(p.realm) /\ Reject(r, 403)
             \/ RealmAccepted(p.realm) /\ p.machine /\ opt
                /\ CallFunc(r, [ctx[r] EXCEPT !.machine = MachineName(p),
                                              !.user = None])
             \/ RealmAccepted(p.realm) /\ ~(p.machine /\ opt)
                /\ CallFunc(r, [ctx[r] EXCEPT
                                  !.user = UserObject(p.name, p.machine)])

(***************************************************************************)
(* ldap_authenticate.  The connection is opened before the bind and        *)
(* unbound only after the handler returned (see Handler).  The bind can    *)
(* also fail with SERVER_DOWN or STRONG_AUTH_REQUIRED, which are re-raised.*)
(***************************************************************************)
LdapAuthenticate(r) ==
    LET h == req[r].hdr IN
    /\ Dispatched(r, "ldap")
    /\ UNCHANGED <<backends, req>>
    /\ \/ SkipsAuth(r) /\ CallFunc(r, ctx[r]) /\ UNCHANGED conn
       \/ ~SkipsAuth(r)
          /\ \/ h.scheme = "none" /\ Reject(r, 401) /\ UNCHANGED conn
             \/ h.scheme \notin {"none", "Basic"}
                /\ Reject(r, 400) /\ UNCHANGED conn
             \* b64decode's TypeError, or the unpacking's ValueError
             \/ h.scheme = "Basic" /\ h.tok.form \in {"bad_b64", "no_colon"}
                /\ Reject(r, 500) /\ UNCHANGED conn
             \/ h.scheme = "Basic" /\ h.tok.form = "ok"
                /\ conn' = [conn EXCEPT ![r] = "open"]
                /\ \/ Reject(r, 500)     \* SERVER_DOWN, STRONG_AUTH_REQUIRED
                   \/ h.tok.pw = "bad" /\ Reject(r, 401)
                   \/ h.tok.pw = "good"
                      /\ CallFunc(r, [ctx[r] EXCEPT
                                        !.ldap_conn = TRUE,
                                        !.user = UserObject(h.tok.user, FALSE)])

(***************************************************************************)
(* pam_authenticate                                                        *)
(***************************************************************************)
PamAuthenticate(r) ==
    LET h == req[r].hdr IN
    /\ Dispatched(r, "pam")
    /\ UNCHANGED <<backends, req, conn>>
    /\ \/ SkipsAuth(r) /\ CallFunc(r, ctx[r])
       \/ ~SkipsAuth(r)
          /\ \/ h.scheme = "none" /\ Reject(r, 401)
             \/ h.scheme \notin {"none", "Basic"} /\ Reject(r, 400)
             \/ h.scheme = "Basic" /\ h.tok.form \in {"bad_b64", "no_colon"}
                /\ Reject(r, 500)
             \/ h.scheme = "Basic" /\ h.tok.form = "ok" /\ h.tok.pw = "bad"
                /\ Reject(r, 401)
             \/ h.scheme = "Basic" /\ h.tok.form = "ok" /\ h.tok.pw = "good"
                /\ CallFunc(r, [ctx[r] EXCEPT
                                  !.user = UserObject(h.tok.user, FALSE)])

\* `wrapped` raises before any backend runs: TypeError for a request with
\* no User-Agent when LDAP is configured, NotImplementedError for a backend
\* set it does not support.
WrappedRaises(r) ==
    /\ \E e \in DispatchErrors : Dispatched(r, e)
    /\ Reject(r, 500)
    /\ UNCHANGED <<backends, req, conn>>

(***************************************************************************)
(* authorize_admin: req.context.get("user").is_admin(); with no user the   *)
(* call is made on None and raises AttributeError.                         *)
(***************************************************************************)
AuthorizeAdmin(r) ==
    LET u == ctx[r].user IN
    /\ pc[r] = "authz"
    /\ \/ IsAdmin(u)
          /\ ctx' = [ctx EXCEPT ![r].admin_authorized = TRUE]
          /\ pc' = [pc EXCEPT ![r] = "handler"]
          /\ served' = [served EXCEPT ![r] = TRUE]
          /\ UNCHANGED status
       \/ u \in UserObjects /\ ~IsAdmin(u) /\ Reject(r, 403)
       \/ u \in {None, Unset} /\ Reject(r, 500)
    /\ UNCHANGED <<backends, req, via, conn>>

\* Handler as if ldap_authenticate never unbound its connection.
HandlerNoUnbind(r) ==
    /\ pc[r] = "handler"
    /\ pc' = [pc EXCEPT ![r] = "done"]
    /\ \E code \in {200, 500} : status' = [status EXCEPT ![r] = code]
    /\ UNCHANGED <<backends, req, via, ctx, served, conn>>

(***************************************************************************)
(* The handler returns or raises.  ldap_authenticate unbinds its           *)
(* connection after the handler returned, not when it raised.             *)
(***************************************************************************)
Handler(r) ==
    /\ pc[r] = "handler"
    /\ pc' = [pc EXCEPT ![r] = "done"]
    /\ \/ /\ status' = [status EXCEPT ![r] = 200]
          /\ conn' = IF ctx[r].ldap_conn
                       THEN [conn EXCEPT ![r] = "unbound"] ELSE conn
       \/ status' = [status EXCEPT ![r] = 500] /\ UNCHANGED conn
    /\ UNCHANGED <<backends, req, via, ctx, served>>

(***************************************************************************)
(* A thread takes the next request; the previous request's context and     *)
(* connection object are released with it.                                 *)
(***************************************************************************)
Arrive(r) ==
    /\ pc[r] \in {"idle", "done"}
    /\ \E i \in Inputs : req' = [req EXCEPT ![r] = i]
    /\ pc' = [pc EXCEPT ![r] = "auth"]
    /\ via' = [via EXCEPT ![r] = "none"]
    /\ ctx' = [ctx EXCEPT ![r] = EmptyContext]
    /\ conn' = [conn EXCEPT ![r] = "none"]
    /\ served' = [served EXCEPT ![r] = FALSE]
    /\ status' = [status EXCEPT ![r] = 0]
    /\ UNCHANGED backends

Init ==
    /\ backends \in SUBSET BackendNames \ {{}}
    /\ pc = [r \in Requests |-> "idle"]
    /\ req = [r \in Requests |-> NoRequest]
    /\ via = [r \in Requests |-> "none"]
    /\ ctx = [r \in Requests |-> EmptyContext]
    /\ conn = [r \in Requests |-> "none"]
    /\ served = [r \in Requests |-> FALSE]
    /\ status = [r \in Requests |-> 0]

Next ==
    \E r \in Requests :
        \/ KerberosAuthenticate(r)
        \/ LdapAuthenticate(r)
        \/ PamAuthenticate(r)
        \/ WrappedRaises(r)
        \/ AuthorizeAdmin(r)
        \/ Handler(r)
        \/ Arrive(r)

Spec == Init /\ [][Next]_vars

-----------------------------------------------------------------------------
(***************************************************************************)
(* Properties.                                                             *)
(***************************************************************************)

\* The credential of request r proves the identity now in req.context to
\* the backend that served it: a GSSAPI ticket of the configured realm
\* (realms compare case-insensitively) or a Basic user:password pair with
\* the right password.
Verified(r) ==
    LET h == req[r].hdr IN
    \/ /\ via[r] = "kerberos"
       /\ h.scheme = "Negotiate" /\ h.tok.form = "ok"
       /\ Lower(h.tok.p.realm) = Lower(Domain)
       /\ ctx[r].user \in {None, UserObject(h.tok.p.name, h.tok.p.machine)}
    \/ /\ via[r] \in {"ldap", "pam"}
       /\ h.scheme = "Basic" /\ h.tok.form = "ok" /\ h.tok.pw = "good"
       /\ ctx[r].user = UserObject(h.tok.user, FALSE)

(* No impostor reaches a handler: whenever a handler has been called, the  *)
(* backend verified the credential of the identity in req.context, or the *)
(* endpoint is login_optional and the handler sees no user at all.         *)
(* About kerberos_authenticate's realm check, ldap's bind and PAM.         *)
HandlerSeesVerifiedUser ==
    \A r \in Requests :
        served[r] =>
            \/ Verified(r)
            \/ req[r].endpoint \in {"optional", "optional_admin"} /\ ctx[r].user \in {None, Unset}

(* An admin-only handler (under authorize_admin) is only ever called for   *)
(* a user that is an administrator, with admin_authorized set, whichever   *)
(* backend authenticated it.                                               *)
AdminHandlerOnlyForAdmins ==
    \A r \in Requests :
        served[r] /\ req[r].endpoint \in {"admin", "optional_admin"} =>
            /\ ctx[r].admin_authorized
            /\ IsAdmin(ctx[r].user)

\* The error thread r ended with, if any, has its cause.
DeniedWithCause(r) ==
    LET h == req[r].hdr IN
    pc[r] = "done" /\ ~served[r] =>
        /\ status[r] = 401 =>
             \/ h.scheme = "none"
             \/ h.scheme = "Basic" /\ h.tok.form = "ok" /\ h.tok.pw = "bad"
        /\ status[r] = 403 =>
             \/ /\ h.scheme = "Negotiate" /\ h.tok.form = "ok"
                /\ Lower(h.tok.p.realm) # Lower(Domain)
             \/ /\ req[r].endpoint \in {"admin", "optional_admin"}
                /\ ctx[r].user \in UserObjects /\ ~IsAdmin(ctx[r].user)
        /\ status[r] = 400 =>
             \/ h.scheme \notin {"none", IF via[r] = "kerberos"
                                           THEN "Negotiate" ELSE "Basic"}
             \/ h.scheme = "Negotiate" /\ h.tok.form = "bad_b64"

(* Every authentication or authorization error has the cause the spec's    *)
(* error taxonomy gives it: 401 only when no credentials were offered or a *)
(* password was wrong, 403 only for a foreign realm or a non-administrator *)
(* on an admin-only endpoint, 400 only for a header of the wrong scheme or *)
(* a token that is not base64.  A genuine user is never turned away with   *)
(* one of these.  About the order of the checks in the three backends.     *)
DenialHasCause == \A r \in Requests : DeniedWithCause(r)

\* The outcome of thread r, if a backend handled its request, agrees with
\* the authorization matrix.
MatrixHolds(r) ==
    LET e == req[r].endpoint
        u == ctx[r].user
    IN
    pc[r] = "done" /\ via[r] \in BackendNames =>
        /\ e \in {"required", "admin"} /\ req[r].hdr.scheme = "none"
             => status[r] = 401
        /\ u \in UserObjects /\ e \in {"admin", "optional_admin"} /\ ~IsAdmin(u)
             => status[r] = 403
        /\ u \in UserObjects /\ (~e \in {"admin", "optional_admin"} \/ IsAdmin(u))
             => served[r]

(* The authorization matrix of the API (spec 4.6, tests/test_cli.py), for  *)
(* every request that wrapped handed to a backend: on an endpoint that     *)
(* requires login, an anonymous request is answered 401; an authenticated  *)
(* non-administrator on an admin-only endpoint gets 403; an authenticated  *)
(* user otherwise reaches the handler.  About the order of the checks in   *)
(* the backends and authorize_admin.  Requests wrapped itself fails are    *)
(* the subject of AnonymousGets401.                                        *)
AuthorizationMatrix == \A r \in Requests : MatrixHolds(r)

(* Spec 4.6: an unauthenticated request to an endpoint requiring any       *)
(* identity is answered 401, whatever the client, as long as the server's  *)
(* backend configuration is one wrapped supports.  About the User-Agent    *)
(* test of wrapped, which runs before any backend.                         *)
AnonymousGets401 ==
    \A r \in Requests :
        /\ pc[r] = "done" /\ via[r] # "unsupported"
        /\ req[r].endpoint \in {"required", "admin"}
        /\ req[r].hdr.scheme = "none"
        => status[r] = 401

(* The LDAP connection of a request is unbound exactly when the bind       *)
(* succeeded and the handler returned: a connection left open at the end   *)
(* of a request belongs to a request that failed (wrong password, server   *)
(* down, authorize_admin refused, or the handler raised), and no other     *)
(* backend ever opens one.  About conn.unbind_s() after func in            *)
(* ldap_authenticate.                                                      *)
LdapConnReleased ==
    \A r \in Requests :
        /\ conn[r] # "none" => via[r] = "ldap"
        /\ pc[r] = "done" =>
               (conn[r] = "unbound" <=> status[r] = 200 /\ ctx[r].ldap_conn)

(* Spec 7: a malformed token in the Authorization header is a BadRequest   *)
(* (400).  About the decoding of the Basic and Negotiate tokens.           *)
MalformedTokenIs400 ==
    \A r \in Requests :
        LET h == req[r].hdr IN
        /\ pc[r] = "done" /\ ~served[r]
        /\ \/ via[r] = "kerberos" /\ h.scheme = "Negotiate"
           \/ via[r] \in {"ldap", "pam"} /\ h.scheme = "Basic"
        /\ h.tok.form # "ok"
        => status[r] = 400
=============================================================================
