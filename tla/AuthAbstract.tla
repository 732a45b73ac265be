----------------------------- MODULE AuthAbstract -----------------------------
(***************************************************************************)
(* What the authentication decorators promise the API handlers (spec 4.6), *)
(* independently of the backend that checks a credential: every request   *)
(* a thread takes is eventually either admitted or refused, and it is      *)
(* admitted only with an identity its credential proves, or anonymously on *)
(* an endpoint where login is optional, and on an admin-only endpoint only *)
(* for an administrator.                                                   *)
(***************************************************************************)
EXTENDS AuthData

VARIABLES
    areq,       \* the request each thread is serving
    phase,      \* "idle", "pending", "admitted" or "refused"
    user        \* the identity the handler is called with

avars == <<areq, phase, user>>

Phases == {"idle", "pending", "admitted", "refused"}

\* The credential h proves the identity u: a Kerberos ticket of the
\* deployment's realm, or a Basic user name with its right password.
Proves(h, u) ==
    \/ /\ h.scheme = "Negotiate" /\ h.tok.form = "ok"
       /\ Lower(h.tok.p.realm) = Lower(Domain)
       /\ u = UserObject(h.tok.p.name, h.tok.p.machine)
    \/ /\ h.scheme = "Basic" /\ h.tok.form = "ok" /\ h.tok.pw = "good"
       /\ u = UserObject(h.tok.user, FALSE)

\* The handler of request i may be called with identity u.
Admissible(i, u) ==
    /\ \/ Proves(i.hdr, u)
       \/ u \in {None, Unset} /\ Optional(i.endpoint)
    /\ AdminOnly(i.endpoint) => IsAdmin(u)

AInit ==
    /\ areq = [r \in Requests |-> NoRequest]
    /\ phase = [r \in Requests |-> "idle"]
    /\ user = [r \in Requests |-> Unset]

Receive(r) ==
    /\ phase[r] # "pending"
    /\ \E i \in Inputs : areq' = [areq EXCEPT ![r] = i]
    /\ phase' = [phase EXCEPT ![r] = "pending"]
    /\ user' = [user EXCEPT ![r] = Unset]

Admit(r) ==
    /\ phase[r] = "pending"
    /\ \E u \in UserObjects \cup {None, Unset} :
          /\ Admissible(areq[r], u)
          /\ user' = [user EXCEPT ![r] = u]
    /\ phase' = [phase EXCEPT ![r] = "admitted"]
    /\ UNCHANGED areq

Refuse(r) ==
    /\ phase[r] = "pending"
    /\ phase' = [phase EXCEPT ![r] = "refused"]
    /\ UNCHANGED <<areq, user>>

ANext == \E r \in Requests : Receive(r) \/ Admit(r) \/ Refuse(r)

\* Requests arrive and are answered; nothing is promised about when.
ASpec == AInit /\ [][ANext]_avars
=============================================================================
