------------------------- MODULE AuthRefinementProofs -------------------------
(***************************************************************************)
(* Proof that Auth implements the safety part of AuthAbstract under the    *)
(* refinement mapping of AuthRefinement.  A step of a thread maps to a     *)
(* Receive (a new request), an Admit (func called), a Refuse (an error     *)
(* raised before func) or to no abstract step at all (a backend passing   *)
(* the request to authorize_admin, the handler returning or raising).      *)
(* Admit's guard is the invariant SafetyInv of AuthProofs read after the   *)
(* step.                                                                   *)
(***************************************************************************)
EXTENDS AuthRefinement, AuthProofs

\* Every thread but r is where it was.
OthersSame(r) ==
    \A s \in Requests \ {r} :
        /\ pc'[s] = pc[s] /\ req'[s] = req[s]
        /\ ctx'[s] = ctx[s] /\ served'[s] = served[s]

\* A step that changes neither the position nor the user of r, as the
\* abstract specification sees them, is an abstract stutter.
LEMMA ViewStutter ==
    ASSUME TypeOK, TypeOK', NEW r \in Requests, req' = req, OthersSame(r),
           AbsPhase(r)' = AbsPhase(r), AbsUser(r)' = AbsUser(r)
    PROVE  UNCHANGED A!avars
<1>1. \A s \in Requests : AbsPhase(s)' = AbsPhase(s) /\ AbsUser(s)' = AbsUser(s)
    BY DEF OthersSame, AbsPhase, AbsUser
<1>2. QED
    BY <1>1 DEF A!avars

\* An error raised before func is a Refuse.
LEMMA ViewRefuse ==
    ASSUME TypeOK, TypeOK', NEW r \in Requests, req' = req, OthersSame(r),
           pc[r] \in {"auth", "authz"}, pc'[r] = "done",
           ~served[r], ~served'[r]
    PROVE  A!Refuse(r)
<1>1. AbsPhase(r) = "pending" /\ AbsPhase(r)' = "refused"
    BY DEF AbsPhase
<1>2. \A s \in Requests \ {r} : AbsPhase(s)' = AbsPhase(s)
    BY DEF OthersSame, AbsPhase
<1>3. [s \in Requests |-> AbsPhase(s)]' =
        [[s \in Requests |-> AbsPhase(s)] EXCEPT ![r] = "refused"]
    BY <1>1, <1>2
<1>4. [s \in Requests |-> AbsUser(s)]' = [s \in Requests |-> AbsUser(s)]
    BY DEF OthersSame, AbsUser
<1>5. QED
    BY <1>1, <1>3, <1>4 DEF A!Refuse

\* The instance of AuthData inside A is AuthData itself.
LEMMA SameData ==
    /\ A!UserObjects = UserObjects
    /\ A!Inputs = Inputs
    /\ \A n, m : A!UserObject(n, m) = UserObject(n, m)
    /\ \A u : A!IsAdmin(u) <=> IsAdmin(u)
    /\ \A e : A!Optional(e) <=> Optional(e)
    /\ \A e : A!AdminOnly(e) <=> AdminOnly(e)
<1>1. A!Inputs = Inputs
    BY DEF A!Inputs, Inputs, A!Headers, Headers, A!NegotiateTokens,
           NegotiateTokens, A!BasicTokens, BasicTokens, A!Principals,
           Principals, A!Endpoints, Endpoints
<1>2. QED
    BY <1>1 DEF A!UserObjects, UserObjects, A!UserObject, UserObject,
       A!IsAdmin, IsAdmin, A!Optional, Optional, A!AdminOnly, AdminOnly

\* What the invariant says of a user the handler has been called with is
\* what Admit asks of it.  Stated of the state after a step.
LEMMA AdmissibleUser ==
    ASSUME TypeOK', NEW r \in Requests, served'[r], ReqInv(r)'
    PROVE  /\ ctx'[r].user \in UserObjects \cup {None, Unset}
           /\ A!Admissible(req'[r], ctx'[r].user)
<1>1. ctx'[r].user \in UserObjects \cup {None, Unset}
    BY DEF TypeOK, Contexts
<1>2. VerifiedOrAnonymous(r)'
    BY DEF ReqInv
<1>3. AdminOnly(req'[r].endpoint) => IsAdmin(ctx'[r].user)
    BY DEF ReqInv, AdminOnly
<1>4. CASE Verified(r)' /\ ctx'[r].user \in UserObjects
    <2>1. A!Proves(req'[r].hdr, ctx'[r].user)
        <3> DEFINE h == req'[r].hdr
                   u == ctx'[r].user
        <3>1. CASE /\ h.scheme = "Negotiate" /\ h.tok.form = "ok"
                   /\ Lower(h.tok.p.realm) = Lower(Domain)
                   /\ u \in {None, UserObject(h.tok.p.name, h.tok.p.machine)}
            <4>1. u = UserObject(h.tok.p.name, h.tok.p.machine)
                BY <3>1, <1>4, SentinelAssumption
            <4>2. QED
                BY <3>1, <4>1, SameData DEF A!Proves
        <3>2. CASE /\ h.scheme = "Basic" /\ h.tok.form = "ok"
                   /\ h.tok.pw = "good"
                   /\ u = UserObject(h.tok.user, FALSE)
            BY <3>2, SameData DEF A!Proves
        <3>3. QED
            BY <1>4, <3>1, <3>2 DEF Verified
    <2>2. QED
        BY <1>1, <2>1, <1>3, SameData DEF A!Admissible
<1>5. CASE Optional(req'[r].endpoint) /\ ctx'[r].user \in {None, Unset}
    BY <1>1, <1>5, <1>3, SameData DEF A!Admissible
<1>6. QED
    BY <1>1, <1>2, <1>4, <1>5 DEF VerifiedOrAnonymous, Optional

\* A handler called for the first time is an Admit with the user of
\* req.context.
LEMMA ViewAdmit ==
    ASSUME TypeOK, TypeOK', NEW r \in Requests, req' = req, OthersSame(r),
           pc[r] \in {"auth", "authz"}, pc'[r] = "handler",
           ~served[r], served'[r], ReqInv(r)'
    PROVE  A!Admit(r)
<1>1. AbsPhase(r) = "pending" /\ AbsPhase(r)' = "admitted"
    BY DEF AbsPhase
<1>2. \A s \in Requests \ {r} : AbsPhase(s)' = AbsPhase(s)
    BY DEF OthersSame, AbsPhase
<1>3. [s \in Requests |-> AbsPhase(s)]' =
        [[s \in Requests |-> AbsPhase(s)] EXCEPT ![r] = "admitted"]
    BY <1>1, <1>2
<1>4. /\ ctx'[r].user \in UserObjects \cup {None, Unset}
      /\ A!Admissible(req[r], ctx'[r].user)
    BY AdmissibleUser
<1>5. /\ AbsUser(r) = Unset /\ AbsUser(r)' = ctx'[r].user
      /\ \A s \in Requests \ {r} : AbsUser(s)' = AbsUser(s)
    BY DEF OthersSame, AbsUser
<1>6. [s \in Requests |-> AbsUser(s)]' =
        [[s \in Requests |-> AbsUser(s)] EXCEPT ![r] = ctx'[r].user]
    BY <1>5
<1>7. QED
    BY <1>1, <1>3, <1>4, <1>6, SameData DEF A!Admit

\* Taking a request is a Receive.
LEMMA ViewReceive ==
    ASSUME TypeOK, NEW r \in Requests, OthersSame(r), Arrive(r)
    PROVE  A!Receive(r)
<1>1. AbsPhase(r) # "pending" /\ AbsPhase(r)' = "pending"
    <2>1. pc[r] \in {"idle", "done"} /\ pc'[r] = "auth"
        BY DEF Arrive, TypeOK
    <2>2. AbsPhase(r)' = "pending"
        BY <2>1 DEF AbsPhase
    <2>3. CASE pc[r] = "idle"
        BY <2>2, <2>3 DEF AbsPhase
    <2>4. CASE pc[r] = "done"
        BY <2>2, <2>4 DEF AbsPhase
    <2>5. QED
        BY <2>1, <2>2, <2>3, <2>4
<1>2. \A s \in Requests \ {r} : AbsPhase(s)' = AbsPhase(s)
    BY DEF OthersSame, AbsPhase
<1>3. [s \in Requests |-> AbsPhase(s)]' =
        [[s \in Requests |-> AbsPhase(s)] EXCEPT ![r] = "pending"]
    BY <1>1, <1>2
<1>4. /\ AbsUser(r)' = Unset
      /\ \A s \in Requests \ {r} : AbsUser(s)' = AbsUser(s)
    BY DEF OthersSame, AbsUser, Arrive, TypeOK
<1>5. [s \in Requests |-> AbsUser(s)]' =
        [[s \in Requests |-> AbsUser(s)] EXCEPT ![r] = Unset]
    BY <1>4
<1>6. \E i \in Inputs : req' = [req EXCEPT ![r] = i]
    BY DEF Arrive
<1>7. QED
    BY <1>1, <1>3, <1>5, <1>6, SameData DEF A!Receive

\* A backend that raised is a Refuse, one that passed the request to
\* authorize_admin is no abstract step, and one that called the handler is
\* an Admit.
LEMMA BackendView ==
    ASSUME SafetyInv, SafetyInv', NEW r \in Requests, NEW b,
           Dispatched(r, b), req' = req, OthersSame(r),
           \/ \E c \in Contexts : CallFunc(r, c)
           \/ \E code \in Statuses : Reject(r, code)
    PROVE  [A!ANext]_A!avars
<1>0. /\ TypeOK /\ TypeOK' /\ ~served[r] /\ pc[r] = "auth"
      /\ ReqInv(r)'
    BY BackendStart DEF SafetyInv, TypeInv
<1>1. CASE \E code \in Statuses : Reject(r, code)
    <2>1. pc'[r] = "done" /\ ~served'[r]
        BY <1>0, <1>1 DEF Reject, TypeOK
    <2>2. A!Refuse(r)
        BY <1>0, <2>1, ViewRefuse
    <2>3. QED
        BY <2>2 DEF A!ANext
<1>2. CASE \E c \in Contexts : CallFunc(r, c) /\ AdminOnly(req[r].endpoint)
    <2>1. pc'[r] = "authz" /\ ~served'[r]
        BY <1>0, <1>2 DEF CallFunc, TypeOK
    <2>2. AbsPhase(r)' = AbsPhase(r) /\ AbsUser(r)' = AbsUser(r)
        BY <1>0, <2>1 DEF AbsPhase, AbsUser
    <2>3. QED
        BY <1>0, <2>2, ViewStutter
<1>3. CASE \E c \in Contexts : CallFunc(r, c) /\ ~AdminOnly(req[r].endpoint)
    <2>1. pc'[r] = "handler" /\ served'[r]
        BY <1>0, <1>3 DEF CallFunc, TypeOK
    <2>2. A!Admit(r)
        BY <1>0, <2>1, ViewAdmit
    <2>3. QED
        BY <2>2 DEF A!ANext
<1>4. QED
    BY <1>1, <1>2, <1>3

\* authorize_admin either calls the handler (an Admit) or raises (a
\* Refuse).
LEMMA AuthorizeAdminView ==
    ASSUME SafetyInv, SafetyInv', NEW r \in Requests, AuthorizeAdmin(r),
           OthersSame(r)
    PROVE  [A!ANext]_A!avars
<1>0. /\ TypeOK /\ TypeOK' /\ ~served[r] /\ pc[r] = "authz"
      /\ ReqInv(r)' /\ req' = req
    BY DEF SafetyInv, TypeInv, ReqInv, AuthorizeAdmin
<1>1. CASE pc'[r] = "handler" /\ served'[r]
    <2>1. A!Admit(r)
        BY <1>0, <1>1, ViewAdmit
    <2>2. QED
        BY <2>1 DEF A!ANext
<1>2. CASE \E code \in Statuses : Reject(r, code)
    <2>1. pc'[r] = "done" /\ ~served'[r]
        BY <1>0, <1>2 DEF Reject, TypeOK
    <2>2. A!Refuse(r)
        BY <1>0, <2>1, ViewRefuse
    <2>3. QED
        BY <2>2 DEF A!ANext
<1>3. QED
    BY <1>0, <1>1, <1>2 DEF AuthorizeAdmin, TypeOK, Statuses

\* Every step of Auth is a step of AuthAbstract or leaves its view alone.
LEMMA StepRefines ==
    ASSUME SafetyInv, SafetyInv', [Next]_vars
    PROVE  [A!ANext]_A!avars
<1>1. CASE UNCHANGED vars
    BY <1>1 DEF vars, A!avars, AbsPhase, AbsUser
<1>2. CASE Next
    <2>1. PICK r \in Requests :
              \/ KerberosAuthenticate(r) \/ LdapAuthenticate(r)
              \/ PamAuthenticate(r) \/ WrappedRaises(r) \/ AuthorizeAdmin(r)
              \/ Handler(r) \/ Arrive(r)
        BY <1>2 DEF Next
    <2>2. OthersSame(r)
        <3>1. ASSUME NEW s \in Requests \ {r}
              PROVE  /\ pc'[s] = pc[s] /\ req'[s] = req[s]
                     /\ ctx'[s] = ctx[s] /\ served'[s] = served[s]
            BY <2>1, ThreadFrame DEF SafetyInv
        <3>2. QED
            BY <3>1 DEF OthersSame
    <2>0. TypeOK /\ TypeOK'
        BY DEF SafetyInv, TypeInv
    <2>3. CASE KerberosAuthenticate(r)
        BY <2>2, <2>3, KerberosEnds, BackendView
           DEF SafetyInv, KerberosAuthenticate
    <2>4. CASE LdapAuthenticate(r)
        BY <2>2, <2>4, LdapEnds, BackendView DEF SafetyInv, LdapAuthenticate
    <2>5. CASE PamAuthenticate(r)
        BY <2>2, <2>5, PamEnds, BackendView DEF SafetyInv, PamAuthenticate
    <2>6. CASE WrappedRaises(r)
        <3>1. \E code \in Statuses : Reject(r, code)
            BY <2>6 DEF WrappedRaises, Statuses
        <3>2. PICK e \in DispatchErrors : Dispatched(r, e)
            BY <2>6 DEF WrappedRaises
        <3>3. QED
            BY <2>2, <2>6, <3>1, <3>2, BackendView DEF WrappedRaises
    <2>7. CASE AuthorizeAdmin(r)
        BY <2>2, <2>7, AuthorizeAdminView
    <2>8. CASE Handler(r)
        <3>1. AbsPhase(r)' = AbsPhase(r) /\ AbsUser(r)' = AbsUser(r)
            BY <2>0, <2>8 DEF Handler, AbsPhase, AbsUser, TypeOK
        <3>2. QED
            BY <2>0, <2>2, <2>8, <3>1, ViewStutter DEF Handler
    <2>9. CASE Arrive(r)
        BY <2>0, <2>2, <2>9, ViewReceive DEF A!ANext
    <2>10. QED
        BY <2>1, <2>3, <2>4, <2>5, <2>6, <2>7, <2>8, <2>9
<1>3. QED
    BY <1>1, <1>2

(* The authentication decorators implement their abstract promise, for    *)
(* any realm, users, administrators and number of threads: every request  *)
(* a thread takes is admitted only with an identity that proves itself   *)
(* (or none, on login_optional) and, on an admin endpoint, is an          *)
(* administrator's; otherwise it is refused.                              *)
THEOREM AuthRefinement == Spec => AuthRefinesAbstract
<1>1. Init => A!AInit
    BY DEF Init, A!AInit, AbsPhase, AbsUser
<1>2. SafetyInv /\ SafetyInv' /\ [Next]_vars => [A!ANext]_A!avars
    BY StepRefines
<1>3. QED
    BY <1>1, <1>2, SafetyInvariant, PTL
       DEF Spec, AuthRefinesAbstract, A!ASpec

=============================================================================
