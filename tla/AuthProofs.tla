----------------------------- MODULE AuthProofs -----------------------------
(***************************************************************************)
(* Proofs about the authentication shim (Auth), for every value of the     *)
(* constants: the type invariant, and that handlers only ever see verified *)
(* users and admin-only handlers only administrators.                      *)
(***************************************************************************)
EXTENDS Auth, TLAPS

(***************************************************************************)
(* TypeOK alone is not inductive: a thread that is not idle must hold a    *)
(* real request, or the fields its backend reads are unconstrained.        *)
(***************************************************************************)
TypeInv ==
    /\ TypeOK
    /\ \A r \in Requests : pc[r] # "idle" => req[r] \in Inputs

-----------------------------------------------------------------------------
(* The two ways a step of one thread ends: both keep the types.            *)

LEMMA RejectType ==
    ASSUME TypeOK, NEW r \in Requests, NEW code \in Statuses, Reject(r, code)
    PROVE  /\ pc' \in [Requests -> {"idle", "auth", "authz", "handler", "done"}]
           /\ pc'[r] = "done"
           /\ status' \in [Requests -> Statuses]
           /\ UNCHANGED <<ctx, served>>
BY DEF TypeOK, Reject

LEMMA CallFuncType ==
    ASSUME TypeOK, NEW r \in Requests, NEW c \in Contexts, CallFunc(r, c)
    PROVE  /\ pc' \in [Requests -> {"idle", "auth", "authz", "handler", "done"}]
           /\ pc'[r] # "idle"
           /\ ctx' \in [Requests -> Contexts]
           /\ served' \in [Requests -> BOOLEAN]
           /\ UNCHANGED status
BY DEF TypeOK, CallFunc

\* The contexts the backends build from a context of the right type.
LEMMA CtxUserNone ==
    ASSUME NEW c \in Contexts
    PROVE  [c EXCEPT !.user = None] \in Contexts
BY DEF Contexts

LEMMA CtxUser ==
    ASSUME NEW c \in Contexts, NEW n \in Names, NEW m \in BOOLEAN
    PROVE  [c EXCEPT !.user = UserObject(n, m)] \in Contexts
BY DEF Contexts, UserObjects, UserObject

LEMMA CtxLdapUser ==
    ASSUME NEW c \in Contexts, NEW n \in Names
    PROVE  [c EXCEPT !.ldap_conn = TRUE, !.user = UserObject(n, FALSE)]
              \in Contexts
BY DEF Contexts, UserObjects, UserObject

LEMMA CtxMachine ==
    ASSUME NEW c \in Contexts, NEW p \in Principals
    PROVE  [c EXCEPT !.machine = MachineName(p), !.user = None] \in Contexts
BY DEF Contexts, MachineName, Principals

LEMMA CtxAdmin ==
    ASSUME NEW c \in Contexts
    PROVE  [c EXCEPT !.admin_authorized = TRUE] \in Contexts
BY DEF Contexts

\* The KerberosAuthenticate step ends by calling on or by raising.
LEMMA KerberosEnds ==
    ASSUME TypeInv, NEW r \in Requests, KerberosAuthenticate(r)
    PROVE  \/ \E c \in Contexts : CallFunc(r, c)
       \/ \E code \in Statuses : Reject(r, code)
<1>0. req[r] \in Inputs /\ ctx[r] \in Contexts
    BY DEF TypeInv, TypeOK, KerberosAuthenticate, Dispatched
<1> DEFINE h == req[r].hdr
<1>1. h \in Headers
    BY <1>0 DEF Inputs
<1>2. CASE h.scheme = "Negotiate" /\ h.tok.form = "ok"
    <2> DEFINE p == h.tok.p
    <2>1. p \in Principals
        BY <1>1, <1>2 DEF Headers, NegotiateTokens
    <2>2. CASE ~RealmAccepted(p.realm)
        <3>1. Reject(r, 403)
            BY <1>2, <2>2, Zenon DEF KerberosAuthenticate
        <3>2. QED
            BY <3>1 DEF Statuses
    <2>3. CASE RealmAccepted(p.realm) /\ p.machine
               /\ Optional(req[r].endpoint)
        <3>1. CallFunc(r, [ctx[r] EXCEPT !.machine = MachineName(p),
                                         !.user = None])
            BY <1>2, <2>3 DEF KerberosAuthenticate
        <3>2. [ctx[r] EXCEPT !.machine = MachineName(p), !.user = None]
                \in Contexts
            BY <1>0, <2>1, CtxMachine
        <3>3. QED
            BY <3>1, <3>2
    <2>4. CASE RealmAccepted(p.realm)
               /\ ~(p.machine /\ Optional(req[r].endpoint))
        <3>1. CallFunc(r, [ctx[r] EXCEPT
                             !.user = UserObject(p.name, p.machine)])
            BY <1>2, <2>4 DEF KerberosAuthenticate
        <3>2. p.name \in Names /\ p.machine \in BOOLEAN
            BY <2>1 DEF Principals
        <3>3. [ctx[r] EXCEPT !.user = UserObject(p.name, p.machine)]
                \in Contexts
            BY <3>2, <1>0, CtxUser
        <3>4. QED
            BY <3>1, <3>3
    <2>5. QED
        BY <2>2, <2>3, <2>4
<1>3. CASE ~(h.scheme = "Negotiate" /\ h.tok.form = "ok")
    <2>1. CASE h.scheme = "none" /\ Optional(req[r].endpoint)
        <3>1. CallFunc(r, [ctx[r] EXCEPT !.user = None])
            BY <2>1 DEF KerberosAuthenticate
        <3>2. [ctx[r] EXCEPT !.user = None] \in Contexts
            BY <1>0, CtxUserNone
        <3>3. QED
            BY <3>1, <3>2
    <2>2. CASE ~(h.scheme = "none" /\ Optional(req[r].endpoint))
        <3>1. \E code \in {400, 401, 500} : Reject(r, code)
            BY <1>3, <2>2 DEF KerberosAuthenticate
        <3>2. QED
            BY <3>1 DEF Statuses
    <2>3. QED
        BY <2>1, <2>2
<1>4. QED
    BY <1>2, <1>3

\* The LdapAuthenticate step ends by calling on or by raising.
LEMMA LdapEnds ==
    ASSUME TypeInv, NEW r \in Requests, LdapAuthenticate(r)
    PROVE  \/ \E c \in Contexts : CallFunc(r, c)
       \/ \E code \in Statuses : Reject(r, code)
<1>0. req[r] \in Inputs /\ ctx[r] \in Contexts
    BY DEF TypeInv, TypeOK, LdapAuthenticate, Dispatched
<1> DEFINE h == req[r].hdr
<1>1. h \in Headers
    BY <1>0 DEF Inputs
<1>2. CASE SkipsAuth(r)
    <2>1. CallFunc(r, ctx[r])
        BY <1>2 DEF LdapAuthenticate
    <2>2. QED
        BY <2>1, <1>0
<1>3. CASE ~SkipsAuth(r) /\ h.scheme = "Basic" /\ h.tok.form = "ok"
           /\ h.tok.pw = "good"
    <2>1. h.tok.user \in Names
        BY <1>1, <1>3 DEF Headers, BasicTokens
    <2> DEFINE c == [ctx[r] EXCEPT !.ldap_conn = TRUE,
                                   !.user = UserObject(h.tok.user, FALSE)]
    <2>2. CallFunc(r, c) \/ Reject(r, 500)
        BY <1>3 DEF LdapAuthenticate
    <2>3. c \in Contexts
        BY <2>1, <1>0, CtxLdapUser
    <2>4. QED
        BY <2>2, <2>3 DEF Statuses
<1>4. CASE ~SkipsAuth(r)
           /\ ~(h.scheme = "Basic" /\ h.tok.form = "ok" /\ h.tok.pw = "good")
    <2>1. \E code \in {400, 401, 500} : Reject(r, code)
        BY <1>4 DEF LdapAuthenticate
    <2>2. QED
        BY <2>1 DEF Statuses
<1>9. QED
    BY <1>2, <1>3, <1>4

\* The PamAuthenticate step ends by calling on or by raising.
LEMMA PamEnds ==
    ASSUME TypeInv, NEW r \in Requests, PamAuthenticate(r)
    PROVE  \/ \E c \in Contexts : CallFunc(r, c)
       \/ \E code \in Statuses : Reject(r, code)
<1>0. req[r] \in Inputs /\ ctx[r] \in Contexts
    BY DEF TypeInv, TypeOK, PamAuthenticate, Dispatched
<1> DEFINE h == req[r].hdr
<1>1. h \in Headers
    BY <1>0 DEF Inputs
<1>2. CASE SkipsAuth(r)
    <2>1. CallFunc(r, ctx[r])
        BY <1>2 DEF PamAuthenticate
    <2>2. QED
        BY <2>1, <1>0
<1>3. CASE ~SkipsAuth(r) /\ h.scheme = "Basic" /\ h.tok.form = "ok"
           /\ h.tok.pw = "good"
    <2>1. h.tok.user \in Names
        BY <1>1, <1>3 DEF Headers, BasicTokens
    <2>2. CallFunc(r, [ctx[r] EXCEPT !.user = UserObject(h.tok.user, FALSE)])
        BY <1>3 DEF PamAuthenticate
    <2>3. [ctx[r] EXCEPT !.user = UserObject(h.tok.user, FALSE)] \in Contexts
        BY <2>1, <1>0, CtxUser
    <2>4. QED
        BY <2>2, <2>3
<1>4. CASE ~SkipsAuth(r)
           /\ ~(h.scheme = "Basic" /\ h.tok.form = "ok" /\ h.tok.pw = "good")
    <2>1. \E code \in {400, 401, 500} : Reject(r, code)
        BY <1>4 DEF PamAuthenticate
    <2>2. QED
        BY <2>1 DEF Statuses
<1>9. QED
    BY <1>2, <1>3, <1>4

-----------------------------------------------------------------------------
LEMMA InitTypeInv == Init => TypeInv
BY DEF Init, TypeInv, TypeOK, EmptyContext, Contexts, Statuses, BackendNames

LEMMA NextTypeInv == TypeInv /\ [Next]_vars => TypeInv'
<1> SUFFICES ASSUME TypeInv, [Next]_vars PROVE TypeInv'
    OBVIOUS
<1> USE DEF TypeInv
<1>1. ASSUME NEW r \in Requests, KerberosAuthenticate(r) PROVE TypeInv'
    <2>1. req[r] \in Inputs /\ ctx[r] \in Contexts
        BY <1>1 DEF KerberosAuthenticate, Dispatched, TypeOK
    <2>2. via' \in [Requests -> BackendNames \cup {"none"} \cup DispatchErrors]
        BY <1>1 DEF KerberosAuthenticate, Dispatched, TypeOK, BackendNames
    <2>3. \/ \E c \in Contexts : CallFunc(r, c)
          \/ \E code \in Statuses : Reject(r, code)
        BY <1>1, KerberosEnds
    <2>6. /\ pc' \in [Requests -> {"idle", "auth", "authz", "handler", "done"}]
          /\ pc'[r] # "idle"
          /\ ctx' \in [Requests -> Contexts]
          /\ served' \in [Requests -> BOOLEAN]
          /\ status' \in [Requests -> Statuses]
        BY <2>3, RejectType, CallFuncType DEF TypeOK
    <2>4. \A s \in Requests : pc'[s] # "idle" => req'[s] \in Inputs
        BY <1>1, <2>6 DEF KerberosAuthenticate, Dispatched, TypeOK, Reject,
                          CallFunc
    <2>5. QED
        BY <1>1, <2>2, <2>6, <2>4 DEF KerberosAuthenticate, TypeOK
<1>2. ASSUME NEW r \in Requests, LdapAuthenticate(r) PROVE TypeInv'
    <2>1. req[r] \in Inputs /\ ctx[r] \in Contexts
        BY <1>2 DEF LdapAuthenticate, Dispatched, TypeOK
    <2>2. via' \in [Requests -> BackendNames \cup {"none"} \cup DispatchErrors]
        BY <1>2 DEF LdapAuthenticate, Dispatched, TypeOK, BackendNames
    <2>3. \/ \E c \in Contexts : CallFunc(r, c)
          \/ \E code \in Statuses : Reject(r, code)
        BY <1>2, LdapEnds
    <2>6. /\ pc' \in [Requests -> {"idle", "auth", "authz", "handler", "done"}]
          /\ pc'[r] # "idle"
          /\ ctx' \in [Requests -> Contexts]
          /\ served' \in [Requests -> BOOLEAN]
          /\ status' \in [Requests -> Statuses]
        BY <2>3, RejectType, CallFuncType DEF TypeOK
    <2>7. conn' \in [Requests -> {"none", "open", "unbound"}]
        BY <1>2 DEF LdapAuthenticate, TypeOK
    <2>4. \A s \in Requests : pc'[s] # "idle" => req'[s] \in Inputs
        BY <1>2, <2>6 DEF LdapAuthenticate, Dispatched, TypeOK, Reject,
                          CallFunc
    <2>5. QED
        BY <1>2, <2>2, <2>6, <2>4, <2>7 DEF LdapAuthenticate, TypeOK
<1>3. ASSUME NEW r \in Requests, PamAuthenticate(r) PROVE TypeInv'
    <2>1. req[r] \in Inputs /\ ctx[r] \in Contexts
        BY <1>3 DEF PamAuthenticate, Dispatched, TypeOK
    <2>2. via' \in [Requests -> BackendNames \cup {"none"} \cup DispatchErrors]
        BY <1>3 DEF PamAuthenticate, Dispatched, TypeOK, BackendNames
    <2>3. \/ \E c \in Contexts : CallFunc(r, c)
          \/ \E code \in Statuses : Reject(r, code)
        BY <1>3, PamEnds
    <2>6. /\ pc' \in [Requests -> {"idle", "auth", "authz", "handler", "done"}]
          /\ pc'[r] # "idle"
          /\ ctx' \in [Requests -> Contexts]
          /\ served' \in [Requests -> BOOLEAN]
          /\ status' \in [Requests -> Statuses]
        BY <2>3, RejectType, CallFuncType DEF TypeOK
    <2>4. \A s \in Requests : pc'[s] # "idle" => req'[s] \in Inputs
        BY <1>3, <2>6 DEF PamAuthenticate, Dispatched, TypeOK, Reject,
                          CallFunc
    <2>5. QED
        BY <1>3, <2>2, <2>6, <2>4 DEF PamAuthenticate, TypeOK
<1>4. ASSUME NEW r \in Requests, WrappedRaises(r) PROVE TypeInv'
    <2>1. PICK e \in DispatchErrors : Dispatched(r, e)
        BY <1>4 DEF WrappedRaises
    <2>2. pc[r] = "auth" /\ Reject(r, 500)
          /\ via' = [via EXCEPT ![r] = e]
          /\ UNCHANGED <<backends, req, conn>>
        BY <1>4, <2>1 DEF WrappedRaises, Dispatched
    <2>3. QED
        BY <2>2 DEF TypeOK, Statuses, Reject
<1>5. ASSUME NEW r \in Requests, AuthorizeAdmin(r) PROVE TypeInv'
    <2>1. ctx[r] \in Contexts /\ req[r] \in Inputs
        BY <1>5 DEF TypeOK, AuthorizeAdmin
    <2>2. CASE IsAdmin(ctx[r].user)
        <3>1. [ctx[r] EXCEPT !.admin_authorized = TRUE] \in Contexts
            BY <2>1, CtxAdmin
        <3>2. /\ ctx' = [ctx EXCEPT ![r].admin_authorized = TRUE]
              /\ pc' = [pc EXCEPT ![r] = "handler"]
              /\ served' = [served EXCEPT ![r] = TRUE]
              /\ UNCHANGED <<status, backends, req, via, conn>>
            BY <1>5, <2>2, SentinelAssumption DEF AuthorizeAdmin, IsAdmin
        <3>3. QED
            BY <2>1, <3>1, <3>2 DEF TypeOK
    <2>3. CASE ~IsAdmin(ctx[r].user)
        <3>1. Reject(r, 403) \/ Reject(r, 500)
            BY <1>5, <2>3 DEF AuthorizeAdmin
        <3>2. UNCHANGED <<backends, req, via, conn>>
            BY <1>5 DEF AuthorizeAdmin
        <3>3. QED
            BY <2>1, <3>1, <3>2 DEF TypeOK, Statuses, Reject
    <2>4. QED
        BY <2>2, <2>3
<1>6. ASSUME NEW r \in Requests, Handler(r) PROVE TypeInv'
    BY <1>6 DEF Handler, TypeOK, Statuses
<1>7. ASSUME NEW r \in Requests, Arrive(r) PROVE TypeInv'
    <2>1. PICK i \in Inputs : req' = [req EXCEPT ![r] = i]
        BY <1>7 DEF Arrive
    <2>2. EmptyContext \in Contexts
        BY DEF EmptyContext, Contexts
    <2>3. QED
        BY <1>7, <2>1, <2>2 DEF Arrive, TypeOK, Statuses
<1>8. CASE UNCHANGED vars
    BY <1>8 DEF vars, TypeOK
<1>9. QED
    BY <1>1, <1>2, <1>3, <1>4, <1>5, <1>6, <1>7, <1>8 DEF Next

(* The type invariant of the authentication shim holds in every state.     *)
THEOREM TypeCorrect == Spec => []TypeOK
<1>1. Spec => []TypeInv
    BY InitTypeInv, NextTypeInv, PTL DEF Spec
<1>2. QED
    BY <1>1, PTL DEF TypeInv
-----------------------------------------------------------------------------
(***************************************************************************)
(* Safety.  The invariant is strengthened per thread: a thread that has    *)
(* not yet passed authentication has an empty context and has called no    *)
(* handler, and a thread waiting in authorize_admin has a context that     *)
(* already satisfies HandlerSeesVerifiedUser, since authorize_admin only   *)
(* adds admin_authorized to it.                                            *)
(***************************************************************************)
VerifiedOrAnonymous(r) ==
    \/ Verified(r) /\ ctx[r].user \in UserObjects
    \/ /\ req[r].endpoint \in {"optional", "optional_admin"}
       /\ ctx[r].user \in {None, Unset}

ReqInv(r) ==
    /\ pc[r] \in {"idle", "auth"} => ctx[r] = EmptyContext /\ ~served[r]
    /\ pc[r] = "authz" => ~served[r]
    /\ pc[r] = "authz" \/ served[r] => VerifiedOrAnonymous(r)
    /\ served[r] /\ req[r].endpoint \in {"admin", "optional_admin"} =>
           ctx[r].admin_authorized /\ IsAdmin(ctx[r].user)

SafetyInv == TypeInv /\ \A r \in Requests : ReqInv(r)

\* A step of another thread leaves a thread's invariant as it was.
LEMMA ReqInvFrame ==
    ASSUME NEW s, ReqInv(s),
           pc'[s] = pc[s], req'[s] = req[s], via'[s] = via[s],
           ctx'[s] = ctx[s], served'[s] = served[s]
    PROVE  ReqInv(s)'
BY DEF ReqInv, VerifiedOrAnonymous, Verified

\* A backend that raised: no handler was called and none will be.
LEMMA RejectSafe ==
    ASSUME TypeOK, NEW r \in Requests, NEW code, ReqInv(r),
           pc[r] \in {"auth", "authz"}, Reject(r, code)
    PROVE  ReqInv(r)'
BY DEF TypeOK, ReqInv, Reject

\* A backend that called on: safe if the context it built is.
LEMMA CallFuncSafe ==
    ASSUME TypeOK, NEW r \in Requests, NEW c, ~served[r], req' = req,
           CallFunc(r, c), VerifiedOrAnonymous(r)'
    PROVE  ReqInv(r)'
BY DEF TypeOK, ReqInv, CallFunc, AdminOnly

LEMMA InitSafetyInv == Init => SafetyInv
<1> SUFFICES ASSUME Init PROVE SafetyInv
    OBVIOUS
<1>1. TypeInv
    BY InitTypeInv
<1>2. \A r \in Requests : ReqInv(r)
    BY DEF Init, ReqInv
<1>3. QED
    BY <1>1, <1>2 DEF SafetyInv
\* What a backend step knows of the thread it runs in.
LEMMA BackendStart ==
    ASSUME SafetyInv, NEW r \in Requests, NEW b,
           Dispatched(r, b), req' = req
    PROVE  /\ TypeOK /\ ReqInv(r) /\ ~served[r]
           /\ req[r] \in Inputs /\ ctx[r] = EmptyContext /\ pc[r] = "auth"
           /\ via'[r] = b
BY DEF SafetyInv, TypeInv, TypeOK, ReqInv, Dispatched

\* kerberos_authenticate keeps the invariant of its own thread: the user
\* it puts in the context is the principal of a ticket of the realm.
LEMMA KerberosSafe ==
    ASSUME SafetyInv, NEW r \in Requests, KerberosAuthenticate(r)
    PROVE  ReqInv(r)'
<1>0. /\ TypeOK /\ ReqInv(r) /\ ~served[r]
      /\ req[r] \in Inputs /\ ctx[r] = EmptyContext /\ pc[r] = "auth"
      /\ via'[r] = "kerberos" /\ req' = req
    <2>1. Dispatched(r, "kerberos") /\ req' = req
        BY DEF KerberosAuthenticate
    <2>2. QED
        BY <2>1, BackendStart
<1> DEFINE h == req[r].hdr
           p == h.tok.p
<1>1. CASE h.scheme = "none" /\ Optional(req[r].endpoint)
    <2>1. CallFunc(r, [ctx[r] EXCEPT !.user = None])
        BY <1>1 DEF KerberosAuthenticate
    <2>2. ctx'[r].user = None
        BY <2>1, <1>0 DEF CallFunc, TypeOK, EmptyContext
    <2>3. VerifiedOrAnonymous(r)'
        BY <2>2, <1>0, <1>1 DEF VerifiedOrAnonymous, Optional
    <2>4. QED
        BY <2>1, <2>3, <1>0, CallFuncSafe
<1>2. CASE h.scheme = "Negotiate" /\ h.tok.form = "ok" /\ RealmAccepted(p.realm)
           /\ p.machine /\ Optional(req[r].endpoint)
    <2>1. CallFunc(r, [ctx[r] EXCEPT !.machine = MachineName(p),
                                     !.user = None])
        BY <1>2 DEF KerberosAuthenticate
    <2>2. ctx'[r].user = None
        BY <2>1, <1>0 DEF CallFunc, TypeOK, EmptyContext
    <2>3. VerifiedOrAnonymous(r)'
        BY <2>2, <1>0, <1>2 DEF VerifiedOrAnonymous, Optional
    <2>4. QED
        BY <2>1, <2>3, <1>0, CallFuncSafe
<1>3. CASE h.scheme = "Negotiate" /\ h.tok.form = "ok" /\ RealmAccepted(p.realm)
           /\ ~(p.machine /\ Optional(req[r].endpoint))
    <2>1. CallFunc(r, [ctx[r] EXCEPT !.user = UserObject(p.name, p.machine)])
        BY <1>3 DEF KerberosAuthenticate
    <2>2. ctx'[r].user = UserObject(p.name, p.machine)
        BY <2>1, <1>0 DEF CallFunc, TypeOK, EmptyContext
    <2>3. Verified(r)'
        BY <2>2, <1>0, <1>3 DEF Verified, RealmAccepted
    <2>4. ctx'[r].user \in UserObjects
        <3>1. p \in Principals
            BY <1>0, <1>3 DEF Inputs, Headers, NegotiateTokens
        <3>2. QED
            BY <3>1, <2>2 DEF Principals, UserObjects, UserObject
    <2>5. QED
        BY <2>1, <2>3, <2>4, <1>0, CallFuncSafe DEF VerifiedOrAnonymous
<1>4. CASE /\ ~(h.scheme = "none" /\ Optional(req[r].endpoint))
           /\ ~(h.scheme = "Negotiate" /\ h.tok.form = "ok"
                /\ RealmAccepted(p.realm))
    <2>1. \E code : Reject(r, code)
        BY <1>4 DEF KerberosAuthenticate
    <2>2. QED
        BY <2>1, <1>0, RejectSafe
<1>5. QED
    BY <1>1, <1>2, <1>3, <1>4

\* The user named by a Basic token that decodes is a user object.
LEMMA BasicUser ==
    ASSUME NEW i \in Inputs, i.hdr.scheme = "Basic", i.hdr.tok.form = "ok"
    PROVE  UserObject(i.hdr.tok.user, FALSE) \in UserObjects
BY DEF Inputs, Headers, BasicTokens, UserObjects, UserObject

\* ldap_authenticate keeps the invariant of its own thread: it puts a user
\* in the context only after that user's bind succeeded.
LEMMA LdapSafe ==
    ASSUME SafetyInv, NEW r \in Requests, LdapAuthenticate(r)
    PROVE  ReqInv(r)'
<1>0. /\ TypeOK /\ ReqInv(r) /\ ~served[r]
      /\ req[r] \in Inputs /\ ctx[r] = EmptyContext /\ pc[r] = "auth"
      /\ via'[r] = "ldap" /\ req' = req
    <2>1. Dispatched(r, "ldap") /\ req' = req
        BY DEF LdapAuthenticate
    <2>2. QED
        BY <2>1, BackendStart
<1> DEFINE h == req[r].hdr
<1>1. CASE SkipsAuth(r)
    <2>1. CallFunc(r, ctx[r])
        BY <1>1 DEF LdapAuthenticate
    <2>2. ctx'[r].user = Unset
        BY <2>1, <1>0 DEF CallFunc, TypeOK, EmptyContext
    <2>3. VerifiedOrAnonymous(r)'
        BY <2>2, <1>0, <1>1 DEF VerifiedOrAnonymous, SkipsAuth, Optional
    <2>4. QED
        BY <2>1, <2>3, <1>0, CallFuncSafe
<1>2. CASE ~SkipsAuth(r) /\ h.scheme = "Basic" /\ h.tok.form = "ok"
           /\ h.tok.pw = "good"
    <2> DEFINE c == [ctx[r] EXCEPT !.ldap_conn = TRUE,
                                   !.user = UserObject(h.tok.user, FALSE)]
    <2>1. CallFunc(r, c) \/ \E code : Reject(r, code)
        BY <1>2 DEF LdapAuthenticate
    <2>2. CASE CallFunc(r, c)
        <3>1. ctx'[r].user = UserObject(h.tok.user, FALSE)
            BY <2>2, <1>0 DEF CallFunc, TypeOK, EmptyContext
        <3>2. Verified(r)'
            BY <3>1, <1>0, <1>2 DEF Verified
        <3>3. ctx'[r].user \in UserObjects
            BY <3>1, <1>0, <1>2, BasicUser
        <3>4. QED
            BY <2>2, <3>2, <3>3, <1>0, CallFuncSafe DEF VerifiedOrAnonymous
    <2>3. CASE \E code : Reject(r, code)
        BY <2>3, <1>0, RejectSafe
    <2>4. QED
        BY <2>1, <2>2, <2>3
<1>3. CASE ~SkipsAuth(r)
           /\ ~(h.scheme = "Basic" /\ h.tok.form = "ok" /\ h.tok.pw = "good")
    <2>1. \E code : Reject(r, code)
        BY <1>3 DEF LdapAuthenticate
    <2>2. QED
        BY <2>1, <1>0, RejectSafe
<1>4. QED
    BY <1>1, <1>2, <1>3

\* pam_authenticate keeps the invariant of its own thread.
LEMMA PamSafe ==
    ASSUME SafetyInv, NEW r \in Requests, PamAuthenticate(r)
    PROVE  ReqInv(r)'
<1>0. /\ TypeOK /\ ReqInv(r) /\ ~served[r]
      /\ req[r] \in Inputs /\ ctx[r] = EmptyContext /\ pc[r] = "auth"
      /\ via'[r] = "pam" /\ req' = req
    <2>1. Dispatched(r, "pam") /\ req' = req
        BY DEF PamAuthenticate
    <2>2. QED
        BY <2>1, BackendStart
<1> DEFINE h == req[r].hdr
<1>1. CASE SkipsAuth(r)
    <2>1. CallFunc(r, ctx[r])
        BY <1>1 DEF PamAuthenticate
    <2>2. ctx'[r].user = Unset
        BY <2>1, <1>0 DEF CallFunc, TypeOK, EmptyContext
    <2>3. VerifiedOrAnonymous(r)'
        BY <2>2, <1>0, <1>1 DEF VerifiedOrAnonymous, SkipsAuth, Optional
    <2>4. QED
        BY <2>1, <2>3, <1>0, CallFuncSafe
<1>2. CASE ~SkipsAuth(r) /\ h.scheme = "Basic" /\ h.tok.form = "ok"
           /\ h.tok.pw = "good"
    <2>1. CallFunc(r, [ctx[r] EXCEPT !.user = UserObject(h.tok.user, FALSE)])
        BY <1>2 DEF PamAuthenticate
    <2>2. ctx'[r].user = UserObject(h.tok.user, FALSE)
        BY <2>1, <1>0 DEF CallFunc, TypeOK, EmptyContext
    <2>3. Verified(r)'
        BY <2>2, <1>0, <1>2 DEF Verified
    <2>4. ctx'[r].user \in UserObjects
        BY <2>2, <1>0, <1>2, BasicUser
    <2>5. QED
        BY <2>1, <2>3, <2>4, <1>0, CallFuncSafe DEF VerifiedOrAnonymous
<1>3. CASE ~SkipsAuth(r)
           /\ ~(h.scheme = "Basic" /\ h.tok.form = "ok" /\ h.tok.pw = "good")
    <2>1. \E code : Reject(r, code)
        BY <1>3 DEF PamAuthenticate
    <2>2. QED
        BY <2>1, <1>0, RejectSafe
<1>4. QED
    BY <1>1, <1>2, <1>3

\* An error of `wrapped` itself is raised before any handler.
LEMMA WrappedRaisesSafe ==
    ASSUME SafetyInv, NEW r \in Requests, WrappedRaises(r)
    PROVE  ReqInv(r)'
<1>1. PICK e \in DispatchErrors : Dispatched(r, e)
    BY DEF WrappedRaises
<1>2. QED
    BY <1>1, BackendStart, RejectSafe DEF WrappedRaises

\* authorize_admin lets a thread through only for an administrator, and
\* leaves the user that authentication established in place.
LEMMA AuthorizeAdminSafe ==
    ASSUME SafetyInv, NEW r \in Requests, AuthorizeAdmin(r)
    PROVE  ReqInv(r)'
<1>0. /\ TypeOK /\ ReqInv(r) /\ pc[r] = "authz" /\ req[r] \in Inputs
      /\ VerifiedOrAnonymous(r)
    BY DEF SafetyInv, TypeInv, TypeOK, ReqInv, AuthorizeAdmin
<1> DEFINE u == ctx[r].user
<1>1. CASE IsAdmin(u)
    <2>1. /\ ctx' = [ctx EXCEPT ![r].admin_authorized = TRUE]
          /\ pc' = [pc EXCEPT ![r] = "handler"]
          /\ served' = [served EXCEPT ![r] = TRUE]
          /\ UNCHANGED <<req, via>>
        BY <1>1, SentinelAssumption DEF AuthorizeAdmin, IsAdmin
    <2>2. ctx'[r].user = u /\ ctx'[r].admin_authorized
        BY <2>1, <1>0 DEF TypeOK, Contexts
    <2>3. VerifiedOrAnonymous(r)'
        BY <2>1, <2>2, <1>0 DEF VerifiedOrAnonymous, Verified
    <2>4. QED
        BY <2>1, <2>2, <2>3, <1>0, <1>1 DEF ReqInv, TypeOK
<1>2. CASE ~IsAdmin(u)
    <2>1. \E code : Reject(r, code)
        BY <1>2 DEF AuthorizeAdmin
    <2>2. QED
        BY <2>1, <1>0, RejectSafe
<1>3. QED
    BY <1>1, <1>2

\* A handler that returns or raises changes nothing the invariant reads
\* but the thread's position.
LEMMA HandlerSafe ==
    ASSUME SafetyInv, NEW r \in Requests, Handler(r)
    PROVE  ReqInv(r)'
BY DEF SafetyInv, TypeInv, TypeOK, Handler, ReqInv, VerifiedOrAnonymous,
       Verified

\* A new request starts with an empty context and no handler called.
LEMMA ArriveSafe ==
    ASSUME SafetyInv, NEW r \in Requests, Arrive(r)
    PROVE  ReqInv(r)'
BY DEF SafetyInv, TypeInv, TypeOK, Arrive, ReqInv

\* A backend step of thread r changes nothing of another thread s.
LEMMA BackendFrame ==
    ASSUME TypeOK, NEW r \in Requests, NEW s \in Requests, r # s,
           NEW b, Dispatched(r, b), req' = req,
           conn' = conn \/ conn' = [conn EXCEPT ![r] = "open"],
           \/ \E c \in Contexts : CallFunc(r, c)
           \/ \E code \in Statuses : Reject(r, code)
    PROVE  /\ pc'[s] = pc[s] /\ req'[s] = req[s] /\ via'[s] = via[s]
           /\ ctx'[s] = ctx[s] /\ served'[s] = served[s]
           /\ conn'[s] = conn[s] /\ status'[s] = status[s]
BY DEF CallFunc, Reject, Dispatched, TypeOK

\* Request threads share no state: a step of thread r changes nothing of
\* another thread s.
LEMMA ThreadFrame ==
    ASSUME TypeInv, NEW r \in Requests, NEW s \in Requests, r # s,
           \/ KerberosAuthenticate(r) \/ LdapAuthenticate(r)
           \/ PamAuthenticate(r) \/ WrappedRaises(r) \/ AuthorizeAdmin(r)
           \/ Handler(r) \/ Arrive(r)
    PROVE  /\ pc'[s] = pc[s] /\ req'[s] = req[s] /\ via'[s] = via[s]
           /\ ctx'[s] = ctx[s] /\ served'[s] = served[s]
           /\ conn'[s] = conn[s] /\ status'[s] = status[s]
<1>0. TypeOK
    BY DEF TypeInv
<1>1. CASE KerberosAuthenticate(r)
    <2>1. Dispatched(r, "kerberos") /\ req' = req /\ conn' = conn
        BY <1>1 DEF KerberosAuthenticate
    <2>2. QED
        BY <1>0, <1>1, <2>1, KerberosEnds, BackendFrame
<1>2. CASE LdapAuthenticate(r)
    <2>1. /\ Dispatched(r, "ldap") /\ req' = req
          /\ conn' = conn \/ conn' = [conn EXCEPT ![r] = "open"]
        BY <1>2 DEF LdapAuthenticate
    <2>2. QED
        BY <1>0, <1>2, <2>1, LdapEnds, BackendFrame
<1>3. CASE PamAuthenticate(r)
    <2>1. Dispatched(r, "pam") /\ req' = req /\ conn' = conn
        BY <1>3 DEF PamAuthenticate
    <2>2. QED
        BY <1>0, <1>3, <2>1, PamEnds, BackendFrame
<1>4. CASE WrappedRaises(r)
    BY <1>0, <1>4 DEF WrappedRaises, Reject, Dispatched, TypeOK
<1>5. CASE AuthorizeAdmin(r)
    BY <1>0, <1>5 DEF AuthorizeAdmin, Reject, TypeOK
<1>6. CASE Handler(r) \/ Arrive(r)
    BY <1>0, <1>6 DEF Handler, Arrive, TypeOK
<1>7. QED
    BY <1>1, <1>2, <1>3, <1>4, <1>5, <1>6

\* Hence a step of thread r leaves the invariant of every other thread s
\* as it was.
LEMMA OtherThreadSafe ==
    ASSUME SafetyInv, NEW r \in Requests, NEW s \in Requests, r # s,
           \/ KerberosAuthenticate(r) \/ LdapAuthenticate(r)
           \/ PamAuthenticate(r) \/ WrappedRaises(r) \/ AuthorizeAdmin(r)
           \/ Handler(r) \/ Arrive(r)
    PROVE  ReqInv(s)'
<1>0. TypeInv /\ ReqInv(s)
    BY DEF SafetyInv
<1>1. QED
    BY <1>0, ThreadFrame, ReqInvFrame

LEMMA NextSafetyInv == SafetyInv /\ [Next]_vars => SafetyInv'
<1> SUFFICES ASSUME SafetyInv, [Next]_vars PROVE SafetyInv'
    OBVIOUS
<1>1. TypeInv'
    BY NextTypeInv DEF SafetyInv
<1>2. ASSUME NEW s \in Requests PROVE ReqInv(s)'
    <2>1. CASE UNCHANGED vars
        BY <2>1, ReqInvFrame DEF SafetyInv, vars
    <2>2. CASE Next
        <3>1. PICK r \in Requests :
                \/ KerberosAuthenticate(r) \/ LdapAuthenticate(r)
                \/ PamAuthenticate(r) \/ WrappedRaises(r) \/ AuthorizeAdmin(r)
                \/ Handler(r) \/ Arrive(r)
            BY <2>2 DEF Next
        <3>2. CASE r # s
            BY <3>1, <3>2, OtherThreadSafe
        <3>3. CASE r = s
            BY <3>1, <3>3, KerberosSafe, LdapSafe, PamSafe, WrappedRaisesSafe,
               AuthorizeAdminSafe, HandlerSafe, ArriveSafe
        <3>4. QED
            BY <3>2, <3>3
    <2>3. QED
        BY <2>1, <2>2
<1>3. QED
    BY <1>1, <1>2 DEF SafetyInv

\* Every step of the server keeps the strengthened invariant.
LEMMA SafetyInvariant == Spec => []SafetyInv
BY InitSafetyInv, NextSafetyInv, PTL DEF Spec

(* No impostor reaches a handler, for any realm, set of users and of       *)
(* administrators, and any number of request threads: the authenticate     *)
(* decorator calls the handler only with a verified or an empty identity.  *)
THEOREM HandlerSafety == Spec => []HandlerSeesVerifiedUser
<1>1. SafetyInv => HandlerSeesVerifiedUser
    BY DEF SafetyInv, ReqInv, VerifiedOrAnonymous, HandlerSeesVerifiedUser
<1>2. QED
    BY <1>1, SafetyInvariant, PTL

(* authorize_admin admits only administrators to an admin-only handler,    *)
(* for every configuration of users, administrators and backends.          *)
THEOREM AdminSafety == Spec => []AdminHandlerOnlyForAdmins
<1>1. SafetyInv => AdminHandlerOnlyForAdmins
    BY DEF SafetyInv, ReqInv, AdminHandlerOnlyForAdmins
<1>2. QED
    BY <1>1, SafetyInvariant, PTL
-----------------------------------------------------------------------------
(***************************************************************************)
(* The LDAP connection.  LdapConnReleased is not inductive: it needs that  *)
(* a thread that has not passed a backend has no connection, that only a   *)
(* finished request can have an unbound one, and that a context with      *)
(* ldap_conn set belongs to a thread whose connection is still open until  *)
(* the handler returns.                                                    *)
(***************************************************************************)
ConnInv(r) ==
    /\ pc[r] \in {"idle", "auth"} => conn[r] = "none"
    /\ conn[r] # "none" => via[r] = "ldap"
    /\ conn[r] = "unbound" =>
           pc[r] = "done" /\ status[r] = 200 /\ ctx[r].ldap_conn
    /\ pc[r] \in {"authz", "handler"} /\ ctx[r].ldap_conn => conn[r] = "open"
    /\ pc[r] = "done" /\ status[r] = 200 /\ ctx[r].ldap_conn =>
           conn[r] = "unbound"

ConnSafetyInv == SafetyInv /\ \A r \in Requests : ConnInv(r)

\* A backend step ends with a connection at most opened, and a context
\* that says ldap_conn only while that connection is open and the request
\* goes on.
LEMMA BackendConn ==
    ASSUME NEW r,
           pc'[r] \in {"authz", "handler", "done"},
           conn'[r] \in {"none", "open"},
           conn'[r] # "none" => via'[r] = "ldap",
           ctx'[r].ldap_conn => conn'[r] = "open" /\ pc'[r] # "done"
    PROVE  ConnInv(r)'
BY DEF ConnInv

\* What a backend step of thread r leaves of its thread's position.
LEMMA BackendEnd ==
    ASSUME TypeOK, NEW r \in Requests,
           \/ \E c \in Contexts : CallFunc(r, c)
           \/ \E code \in Statuses : Reject(r, code)
    PROVE  pc'[r] \in {"authz", "handler", "done"}
BY DEF CallFunc, Reject, TypeOK

LEMMA KerberosConn ==
    ASSUME SafetyInv, NEW r \in Requests, KerberosAuthenticate(r),
           ConnInv(r)
    PROVE  ConnInv(r)'
<1>0. TypeOK /\ ctx[r] = EmptyContext /\ pc[r] = "auth" /\ conn' = conn
    BY DEF SafetyInv, TypeInv, ReqInv, KerberosAuthenticate, Dispatched
<1>1. pc'[r] \in {"authz", "handler", "done"}
    BY <1>0, KerberosEnds, BackendEnd DEF SafetyInv
<1>2. conn'[r] = "none"
    BY <1>0 DEF ConnInv
<1> DEFINE h == req[r].hdr
           p == h.tok.p
<1>3. ~ctx'[r].ldap_conn
    <2>1. CASE h.scheme = "none" /\ Optional(req[r].endpoint)
        <3>1. CallFunc(r, [ctx[r] EXCEPT !.user = None])
            BY <2>1 DEF KerberosAuthenticate
        <3>2. QED
            BY <3>1, <1>0 DEF CallFunc, EmptyContext, TypeOK
    <2>2. CASE h.scheme = "Negotiate" /\ h.tok.form = "ok"
               /\ RealmAccepted(p.realm) /\ p.machine
               /\ Optional(req[r].endpoint)
        <3>1. CallFunc(r, [ctx[r] EXCEPT !.machine = MachineName(p),
                                         !.user = None])
            BY <2>2 DEF KerberosAuthenticate
        <3>2. QED
            BY <3>1, <1>0 DEF CallFunc, EmptyContext, TypeOK
    <2>3. CASE h.scheme = "Negotiate" /\ h.tok.form = "ok"
               /\ RealmAccepted(p.realm)
               /\ ~(p.machine /\ Optional(req[r].endpoint))
        <3>1. CallFunc(r, [ctx[r] EXCEPT
                             !.user = UserObject(p.name, p.machine)])
            BY <2>3 DEF KerberosAuthenticate
        <3>2. QED
            BY <3>1, <1>0 DEF CallFunc, EmptyContext, TypeOK
    <2>4. CASE /\ ~(h.scheme = "none" /\ Optional(req[r].endpoint))
               /\ ~(h.scheme = "Negotiate" /\ h.tok.form = "ok"
                    /\ RealmAccepted(p.realm))
        <3>1. \E code : Reject(r, code)
            BY <2>4 DEF KerberosAuthenticate
        <3>2. QED
            BY <3>1, <1>0 DEF Reject, EmptyContext
    <2>5. QED
        BY <2>1, <2>2, <2>3, <2>4
<1>4. QED
    BY <1>1, <1>2, <1>3, BackendConn

LEMMA PamConn ==
    ASSUME SafetyInv, NEW r \in Requests, PamAuthenticate(r), ConnInv(r)
    PROVE  ConnInv(r)'
<1>0. TypeOK /\ ctx[r] = EmptyContext /\ pc[r] = "auth" /\ conn' = conn
    BY DEF SafetyInv, TypeInv, ReqInv, PamAuthenticate, Dispatched
<1>1. pc'[r] \in {"authz", "handler", "done"}
    BY <1>0, PamEnds, BackendEnd DEF SafetyInv
<1>2. conn'[r] = "none"
    BY <1>0 DEF ConnInv
<1> DEFINE h == req[r].hdr
<1>3. ~ctx'[r].ldap_conn
    <2>1. CASE SkipsAuth(r)
        BY <2>1, <1>0 DEF PamAuthenticate, CallFunc, EmptyContext, TypeOK
    <2>2. CASE ~SkipsAuth(r) /\ h.scheme = "Basic" /\ h.tok.form = "ok"
               /\ h.tok.pw = "good"
        <3>1. CallFunc(r, [ctx[r] EXCEPT
                             !.user = UserObject(h.tok.user, FALSE)])
            BY <2>2 DEF PamAuthenticate
        <3>2. QED
            BY <3>1, <1>0 DEF CallFunc, EmptyContext, TypeOK
    <2>3. CASE ~SkipsAuth(r)
               /\ ~(h.scheme = "Basic" /\ h.tok.form = "ok" /\ h.tok.pw = "good")
        <3>1. \E code : Reject(r, code)
            BY <2>3 DEF PamAuthenticate
        <3>2. QED
            BY <3>1, <1>0 DEF Reject, EmptyContext
    <2>4. QED
        BY <2>1, <2>2, <2>3
<1>4. QED
    BY <1>1, <1>2, <1>3, BackendConn

LEMMA LdapConn ==
    ASSUME SafetyInv, NEW r \in Requests, LdapAuthenticate(r), ConnInv(r)
    PROVE  ConnInv(r)'
<1>0. /\ TypeOK /\ ctx[r] = EmptyContext /\ pc[r] = "auth"
      /\ conn[r] = "none" /\ via'[r] = "ldap"
    BY DEF SafetyInv, TypeInv, TypeOK, ReqInv, ConnInv, LdapAuthenticate,
           Dispatched
<1>1. pc'[r] \in {"authz", "handler", "done"}
    BY <1>0, LdapEnds, BackendEnd DEF SafetyInv
<1>2. conn'[r] \in {"none", "open"}
    BY <1>0 DEF LdapAuthenticate, TypeOK
<1> DEFINE h == req[r].hdr
<1>3. ctx'[r].ldap_conn => conn'[r] = "open" /\ pc'[r] # "done"
    <2>1. CASE SkipsAuth(r)
        BY <2>1, <1>0 DEF LdapAuthenticate, CallFunc, EmptyContext, TypeOK
    <2>2. CASE ~SkipsAuth(r) /\ h.scheme = "Basic" /\ h.tok.form = "ok"
        BY <2>2, <1>0 DEF LdapAuthenticate, CallFunc, Reject, EmptyContext,
                          TypeOK
    <2>3. CASE ~SkipsAuth(r) /\ ~(h.scheme = "Basic" /\ h.tok.form = "ok")
        BY <2>3, <1>0 DEF LdapAuthenticate, Reject, EmptyContext
    <2>4. QED
        BY <2>1, <2>2, <2>3
<1>4. QED
    BY <1>0, <1>1, <1>2, <1>3, BackendConn

LEMMA WrappedRaisesConn ==
    ASSUME SafetyInv, NEW r \in Requests, WrappedRaises(r), ConnInv(r)
    PROVE  ConnInv(r)'
BY DEF SafetyInv, TypeInv, TypeOK, ReqInv, ConnInv, WrappedRaises, Reject,
       Dispatched, EmptyContext

LEMMA AuthorizeAdminConn ==
    ASSUME SafetyInv, NEW r \in Requests, AuthorizeAdmin(r), ConnInv(r)
    PROVE  ConnInv(r)'
<1>0. TypeOK /\ pc[r] = "authz" /\ conn' = conn /\ via' = via
    BY DEF SafetyInv, TypeInv, AuthorizeAdmin
<1>1. ctx'[r].ldap_conn = ctx[r].ldap_conn
    BY <1>0 DEF AuthorizeAdmin, Reject, TypeOK, Contexts
<1>2. \/ pc'[r] = "handler"
      \/ pc'[r] = "done" /\ status'[r] \in {403, 500}
    BY <1>0 DEF AuthorizeAdmin, Reject, TypeOK
<1>3. QED
    BY <1>0, <1>1, <1>2 DEF ConnInv

LEMMA HandlerConn ==
    ASSUME SafetyInv, NEW r \in Requests, Handler(r), ConnInv(r)
    PROVE  ConnInv(r)'
BY DEF SafetyInv, TypeInv, TypeOK, ConnInv, Handler

LEMMA ArriveConn ==
    ASSUME SafetyInv, NEW r \in Requests, Arrive(r)
    PROVE  ConnInv(r)'
BY DEF SafetyInv, TypeInv, TypeOK, ConnInv, Arrive

LEMMA ConnInvFrame ==
    ASSUME NEW s, ConnInv(s),
           pc'[s] = pc[s], via'[s] = via[s], ctx'[s] = ctx[s],
           conn'[s] = conn[s], status'[s] = status[s]
    PROVE  ConnInv(s)'
BY DEF ConnInv

LEMMA NextConnSafetyInv == ConnSafetyInv /\ [Next]_vars => ConnSafetyInv'
<1> SUFFICES ASSUME ConnSafetyInv, [Next]_vars PROVE ConnSafetyInv'
    OBVIOUS
<1>0. SafetyInv /\ TypeInv
    BY DEF ConnSafetyInv, SafetyInv
<1>1. SafetyInv'
    BY <1>0, NextSafetyInv
<1>2. ASSUME NEW s \in Requests PROVE ConnInv(s)'
    <2>0. ConnInv(s)
        BY DEF ConnSafetyInv
    <2>1. CASE UNCHANGED vars
        BY <2>0, <2>1, ConnInvFrame DEF vars
    <2>2. CASE Next
        <3>1. PICK r \in Requests :
                \/ KerberosAuthenticate(r) \/ LdapAuthenticate(r)
                \/ PamAuthenticate(r) \/ WrappedRaises(r) \/ AuthorizeAdmin(r)
                \/ Handler(r) \/ Arrive(r)
            BY <2>2 DEF Next
        <3>2. CASE r # s
            BY <1>0, <2>0, <3>1, <3>2, ThreadFrame, ConnInvFrame
        <3>3. CASE r = s
            BY <1>0, <2>0, <3>1, <3>3, KerberosConn, LdapConn, PamConn,
               WrappedRaisesConn, AuthorizeAdminConn, HandlerConn, ArriveConn
        <3>4. QED
            BY <3>2, <3>3
    <2>3. QED
        BY <2>1, <2>2
<1>3. QED
    BY <1>1, <1>2 DEF ConnSafetyInv

(* The LDAP connection of a request is unbound exactly when its bind       *)
(* succeeded and its handler returned, for every number of threads and     *)
(* every backend configuration: ldap_authenticate's conn.unbind_s() runs   *)
(* after func and only then, so the connections that stay open are those  *)
(* of failed requests.                                                     *)
THEOREM LdapConnSafety == Spec => []LdapConnReleased
<1>1. Init => ConnSafetyInv
    BY InitSafetyInv DEF Init, ConnSafetyInv, ConnInv
<1>2. Spec => []ConnSafetyInv
    BY <1>1, NextConnSafetyInv, PTL DEF Spec
<1>3. ConnSafetyInv => LdapConnReleased
    BY DEF ConnSafetyInv, ConnInv, LdapConnReleased
<1>4. QED
    BY <1>2, <1>3, PTL
=============================================================================
