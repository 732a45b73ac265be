# Formal models of certidude

These are TLA+ models of the certidude certificate authority, checked with TLC
and proved with TLAPS. The repository contains two source files:

- `src/certidude/auth.py`: the authentication shim that wraps every API handler.
- `src/tests/test_cli.py`: the end-to-end test, which drives the whole service.

The rest of the service is described only in `spec.md`: the signing pipeline,
the signer process, revocation and CRLs, enrollment tokens, and tags and leases.
Its code is not in this repository.

## 1. Inventory

### The parts and how they interact

A request goes through four stages:

1. HTTP front-end (falcon, out of scope).
2. The authentication shim (`auth.py`).
3. A core operation: the signing pipeline, revocation, tokens, or tags and leases.
4. The certificate store and the signer channel.

| Part | Source | State | Operations | Hard behaviour |
|---|---|---|---|---|
| Authentication shim | `auth.py` | per request: `req.context` (`user`, `machine`, `ldap_conn`, `admin_authorized`), the LDAP connection; process-wide: `config.AUTHENTICATION_BACKENDS` | `wrapped` (dispatch), `kerberos_authenticate`, `ldap_authenticate`, `pam_authenticate`, `authorize_admin`, the handler call, `login_required`/`login_optional` | one thread per request; dispatch order by backend set and User-Agent; errors raised in the middle of a backend; the LDAP connection unbound only after the handler returns |
| Signing pipeline | spec 4.1, test lines 133-178 | pending requests per CN, signed certificates | submit (idempotent or conflict), autosign, long-poll wait, fetch | long-poll waiters racing a signing event and a timeout; many waiters per CN |
| Signer channel | spec 4.2, 5 | one command in flight | sign, revoke, export_crl, exit | serialized commands; a failure is reported and never retried |
| Revocation and CRL engine | spec 4.3 | revoked set, CRL cache | revoke, export_crl, wait for the next CRL | the CRL must reflect a revocation whose response was observed |
| Enrollment tokens | spec 4.4 | none (HMAC of user and time), a clock | issue, redeem | expiry window boundary; replay until expiry |
| Tags and leases | spec 4.5 | key/value metadata per certificate | list, create, replace, delete, lease get | admin-only; 401/403/404 matrix |
| CLI, setup, static files | spec 1 | files | setup, serve, cron | process bootstrapping (out of scope) |

### The properties each part should have

- Authentication shim:
  - no handler runs for an identity the backend did not verify;
  - an admin-only handler runs only for an administrator;
  - every 400/401/403 has the cause the error taxonomy of spec 7 gives it;
  - the authorization matrix of spec 4.6 and 8 holds.
- Signing pipeline:
  - at most one pending request per CN;
  - an identical resubmission changes nothing;
  - two signings of the same CN never both succeed;
  - every long-poll waiter eventually resolves, by the signing or by its timeout.
- Revocation: a CRL exported after a revocation was answered contains the serial.
- Tokens: a token is accepted exactly while its time lies in the window.

## 2. Modules

| Module | Role |
|---|---|
| `AuthData` | constants, assumptions and the abstracted data: headers, tokens, principals, endpoints, user objects |
| `Auth` | the shim: state, one action per function of `auth.py`, `Spec`, the properties |
| `AuthAbstract` | what the decorators promise: a request is received, then admitted with an admissible identity or refused |
| `AuthRefinement` | the refinement mapping from `Auth` to `AuthAbstract` (`INSTANCE ... WITH`) |
| `MCAuth` | the model values and definitions TLC runs with |
| `AuthProofs` | type correctness, the safety invariant and the LDAP connection invariant (TLAPS) |
| `AuthRefinementProofs` | the proof that `Auth` implements `AuthAbstract` (TLAPS) |
| `AuthMatrixProofs` | the error taxonomy, and the authorization matrix (TLAPS) |

The other parts in the table above are not modelled. Their code is not in this
repository. `spec.md` gives only their interface, and `test_cli.py` drives them
end to end. A module "of" them would be translated from prose, not from code
(see section 6).

## 3. The authentication shim: `Auth.tla`

### State

Each request is served by a thread `r` in the constant set `Requests`.

| Variable | Code |
|---|---|
| `backends` | `config.AUTHENTICATION_BACKENDS`, fixed when the process starts |
| `pc[r]` | where the thread is: `idle`, `auth` (in a backend), `authz` (in `authorize_admin`), `handler` (in `func`), `done` |
| `req[r]` | the request: the `Authorization` header, whether the User-Agent is mobile, desktop or absent, the decorator stack of the endpoint, and the `authenticate` parameter |
| `via[r]` | the backend `wrapped` chose, or the error `wrapped` raised itself (`no_user_agent`, `unsupported`) |
| `ctx[r]` | `req.context` |
| `conn[r]` | the LDAP connection of `ldap_authenticate` |
| `served[r]` | whether `func` has been called |
| `status[r]` | the HTTP status (0 while in flight; 500 for an uncaught exception) |

Data is abstracted.

- A header is `none`, another scheme, `Negotiate` or `Basic`.
- Its token is valid, or it is broken in one of the ways the code tells apart:
  - Negotiate: the token is not base64 (`bad_b64`), or GSSAPI rejects it (`bad_gss`);
  - Basic: the token is not base64 (`bad_b64`), or it has no `:` (`no_colon`).
- A Kerberos principal is a name, whether it is a machine account (`$`), and a
  realm.
- A password is good or bad.
- `str.lower` is the constant operator `Lower`.

### Actions

There is one action per function of `auth.py`. Each takes the whole function,
from the dispatch to the point where it raises or calls the handler.

- `KerberosAuthenticate(r)` is `kerberos_authenticate` (lines 21-67). It has
  one disjunct per early return and per raise:
  - no header on an optional endpoint: the handler is called with user `None`;
  - no header otherwise: 401;
  - a header of another scheme: 400;
  - a token that is not base64: 400;
  - a `GSSError`, which is not caught: 500;
  - a foreign realm (compared after `lower()`): 403;
  - a machine account on an optional endpoint: the handler is called with a
    machine name and no user;
  - otherwise: the handler is called with `User.objects.get(name)`.
- `LdapAuthenticate(r)` is `ldap_authenticate` (lines 70-117):
  - an optional endpoint without `?authenticate` skips authentication;
  - 401, 400, or 500 for a token that does not decode;
  - the connection is opened before the bind;
  - the bind fails with `SERVER_DOWN`/`STRONG_AUTH_REQUIRED` (re-raised, so
    500) or `INVALID_CREDENTIALS` (401), or it succeeds and the handler is
    called with `ldap_conn` set.
- `PamAuthenticate(r)` is `pam_authenticate` (lines 120-145).
- `WrappedRaises(r)` is `wrapped` raising before any backend runs, with a 500:
  - `TypeError` at line 151: with `ldap` configured, `"Android" in
    req.user_agent` is evaluated on `None` when the request has no
    User-Agent header;
  - `NotImplementedError` at line 160, for a backend set such as `{ldap, pam}`
    with a desktop client.
- The guard `Dispatched` and the operator `Route` are the dispatch order of
  `wrapped` (lines 147-160).
- `CallFunc` is the call of `func`. Through `authorize_admin` it leads to
  `AuthorizeAdmin(r)` (lines 171-178):
  - an administrator gets `admin_authorized` and the handler is called;
  - a non-administrator gets 403;
  - `None` raises `AttributeError` (500).
- `Handler(r)`: the handler returns (200) or raises (500). `conn.unbind_s()`
  (line 116) runs only when it returns, so `conn[r]` becomes `unbound` only
  then. A failed bind or a raising handler leaves it `open`.
- `Arrive(r)`: a thread takes its next request, with a fresh `req.context`.

### The abstract specification and the refinement

`AuthAbstract` keeps only what a client can observe of a request:

- `areq[r]`, the request;
- `phase[r]`: `idle`, `pending`, `admitted` or `refused`;
- `user[r]`, the identity the handler was called with.

It has three actions:

- `Receive(r)`: a new request arrives.
- `Admit(r)`: the handler is called with an identity `u` such that
  `Admissible(req, u)` holds. Either the header proves `u`, or `u` is absent
  on a `login_optional` endpoint. On an admin endpoint, `u` is an
  administrator.
- `Refuse(r)`: an error is raised before the handler.

`Proves` is written from the spec's description of the backends, not from the
code: a Negotiate token of the home realm, or a Basic token with the right
password.

`AuthRefinement` maps `Auth` onto it:

- `areq` is `req`;
- `phase` is `AbsPhase`:
  - `idle` → `idle`;
  - `auth` and `authz` → `pending`;
  - after that, `admitted` if `func` was called and `refused` otherwise;
- `user` is `ctx[r].user` once `func` was called, and unset before.

Each step of `Auth` then maps as follows:

- `Arrive` is a `Receive`.
- A backend or `authorize_admin` that calls `func` is an `Admit`.
- One that raises is a `Refuse`.
- A backend that passes on to `authorize_admin`, and the handler's return, are
  stutters.

### Runs

`MCAuth.tla` instantiates the model:

- two accounts, `alice` and the administrator `Root`, spelled so that `lower()`
  changes it;
- the realm `example.lan` in two spellings, and a foreign realm;
- every backend set (`Init` chooses any non-empty subset);
- every header, client kind (mobile, desktop, no User-Agent), endpoint and `authenticate` flag.

| Run | cfg | Expect | Shows |
|---|---|---|---|
| `auth_pass` | `MCAuth.cfg` | pass (9,183 states) | `TypeOK`, five safety properties and the refinement, listed below |
| `auth_malformed` | `MCAuthMalformed.cfg` | violation | `MalformedTokenIs400`: the code answers a token GSSAPI rejects, or a Basic token without a `:`, with 500; spec 7 says 400 |
| `auth_no_user_agent` | `MCAuthNoUserAgent.cfg` | violation | `AnonymousGets401`: with LDAP configured, an anonymous request to a `login_required` endpoint that carries no User-Agent gets 500 (the `TypeError` of line 151); spec 4.6 says 401 |

The properties of `auth_pass`:

- `HandlerSeesVerifiedUser`: the handler sees a verified identity or, on a
  `login_optional` endpoint, none.
- `AdminHandlerOnlyForAdmins`: admin handlers run only for administrators with
  `admin_authorized`.
- `DenialHasCause`: 401, 403 and 400 are given only for their causes in the
  taxonomy.
- `AuthorizationMatrix`: for every request `wrapped` handed to a backend,
  anonymous requests get 401, non-administrators get 403, and an
  authenticated user is otherwise served. Requests `wrapped` itself fails on
  never reach a backend; what they get is the subject of `auth_no_user_agent`.
- `LdapConnReleased`: only LDAP requests hold a connection. A finished
  request's connection is unbound exactly when the bind succeeded and the
  handler returned.
- `AuthRefinesAbstract` (a temporal property): `Auth` implements
  `AuthAbstract` under the refinement mapping.

Each property of a passing run has a mutant, a plausible bug that TLC catches:

| Property | Mutant |
|---|---|
| `TypeOK` | the machine name is not lowered |
| `HandlerSeesVerifiedUser` | LDAP/PAM skip authentication on every endpoint |
| `AdminHandlerOnlyForAdmins` | the handler is called without `authorize_admin` |
| `DenialHasCause` | the realm is compared case-sensitively |
| `AuthorizationMatrix` | LDAP/PAM skip authentication on every endpoint |
| `LdapConnReleased` | the handler never unbinds the connection |
| `AuthRefinesAbstract` | LDAP/PAM skip authentication on every endpoint, which admits a request with no proving identity |

### Bounds

The runs use a single request thread. Request threads share no state in
`auth.py`: every variable is indexed by the thread, and only the thread itself
writes its entry. Lemma `ThreadFrame` in `AuthProofs` proves this: a step of
thread `r` leaves every variable of every other thread `s` as it was. The
theorems below therefore hold for any number of threads. A run with two threads
squares the state space and adds nothing.

The remaining bounds:

- Two names are enough: one administrator and one non-administrator.
- Three realms are enough: the home realm spelled two ways, and a foreign one.

### No fairness, no liveness

No fairness is assumed and no liveness property is claimed. The code gives no
ground for one: `ldap_authenticate` calls `conn.simple_bind_s` (line 98) with no
network timeout set, so an LDAP server that never answers holds the request
thread forever; and whether an application handler returns is outside
`auth.py`. `Spec` therefore lets a thread stop in any state. `AuthAbstract`
promises only what may happen, not that it will.

`auth_pass` checks for deadlock: a finished thread can always take a new
request.

## 4. What is proved

The proofs hold for every value of the constants:

| Module | Theorem | Statement |
|---|---|---|
| `AuthProofs` | `TypeCorrect` | `Spec => []TypeOK` |
| `AuthProofs` | `HandlerSafety` | `Spec => []HandlerSeesVerifiedUser` |
| `AuthProofs` | `AdminSafety` | `Spec => []AdminHandlerOnlyForAdmins` |
| `AuthProofs` | `LdapConnSafety` | `Spec => []LdapConnReleased` |
| `AuthRefinementProofs` | `AuthRefinement` | `Spec => AuthRefinesAbstract`, that is `Spec => A!ASpec` |
| `AuthMatrixProofs` | `DenialSafety` | `Spec => []DenialHasCause` |
| `AuthMatrixProofs` | `MatrixSafety` | `Spec => []AuthorizationMatrix` |

Every invariant of `auth_pass`, and its refinement property, are theorems.

The assumptions on the constants:

- `AuthConstantsAssumption`: administrators are names, the domain is a realm,
  and `None` differs from the unset marker.
- `SentinelAssumption`: `None` and the unset marker are not user objects.

### The inductive invariants

`TypeOK` is not inductive by itself. The strengthening `TypeInv` adds one fact:
a thread that has left `idle` holds a request.

The safety properties are not inductive either. An admin handler's context, for
example, is built in two steps, the backend and then `authorize_admin`. The
invariant `SafetyInv` therefore adds `ReqInv(r)` for each thread:

- a thread still in `idle` or `auth` has an empty context and has called no
  handler;
- a thread in `authz` has called no handler, and its context already satisfies
  `VerifiedOrAnonymous`;
- a handler that has been called for an admin endpoint had `admin_authorized`
  set for an administrator.

`LdapConnReleased` speaks only of finished requests. It needs `ConnInv(r)`,
which follows the connection through the request:

- no connection before the backend;
- a connection only for LDAP;
- `unbound` only after a 200 with `ldap_conn`;
- `open` while an LDAP-authenticated request is in `authorize_admin` or the
  handler.

`DenialHasCause` and `AuthorizationMatrix` are not inductive either.
`authorize_admin` raises 403 for a non-administrator, and that 403 is the
taxonomy's only if the endpoint was admin-only. A handler that returns ends a
request, and that request follows the matrix only if it was served. `MatrixInv`
therefore adds `StageInv(r)`, which says how a thread reached where it is:

- in `authz` only for an admin-only endpoint;
- in `handler` only with `func` called.

With `SafetyInv` (the identity is verified), both properties then hold per
thread (`LocalInv(r)`).

### The argument

The step lemmas go one action at a time:

- `KerberosSafe`, `LdapSafe` and `PamSafe` split on the branches of the backend.
  Every branch either raises (`RejectSafe`) or calls on with a verified or an
  anonymous context (`CallFuncSafe`).
- `AuthorizeAdminSafe` uses the fact that `authorize_admin` adds
  `admin_authorized` and leaves the user unchanged.
- `HandlerSafe` and `ArriveSafe` cover the handler's return and a new request.
- `ThreadFrame` and `OtherThreadSafe` give the frame for the other threads.
- `NextSafetyInv` combines them, and PTL lifts the result to `Spec`.

The connection lemmas (`KerberosConn` to `ArriveConn`, then
`NextConnSafetyInv`) do the same for `ConnInv`.

`AuthMatrixProofs` has one lemma per action.

- `BackendRejectLocal` proves that a backend raising a code that fits the
  request (`CodeFits`) ends the request as both properties require.
- `KerberosLocal`, `LdapLocal` and `PamLocal` split on the branches of the
  backend and show that every code raised fits.
- `AuthorizeAdminLocal` and `HandlerLocal` use the lemma
  `NotAnonymousRequired`: a verified context never comes from an empty
  header.
- `WrappedRaisesLocal`: a failure of `wrapped` itself records no backend,
  so neither property speaks of it.

The refinement proof, `AuthRefinement`, follows the usual layout:

1. `Init` maps to `A!AInit`.
2. `StepRefines`: under `SafetyInv` before and after the step, every step maps
   to `[A!ANext]_A!avars`.
   - `BackendView` and `AuthorizeAdminView` split on raising, passing on and
     calling `func`.
   - `ViewRefuse`, `ViewAdmit`, `ViewReceive` and `ViewStutter` build the
     abstract step.
   - `Admit`'s guard is `AdmissibleUser`: `ReqInv(r)` read after the step is
     exactly `Admissible` for the user `func` receives. This is why the proof
     needs `SafetyInv`.
3. PTL combines the two with `SafetyInvariant`.

## 5. What is only model-checked

- The findings of `auth_malformed` and `auth_no_user_agent`: they are
  violations, shown by TLC's counterexamples.
- No liveness is stated at all (see "No fairness, no liveness").

## 6. What is not modelled, and why

- Multi-round GSSAPI negotiation, and malformed principal names (line 50).
- The signing pipeline, signer channel, revocation and CRLs, enrollment tokens,
  and tags and leases. `certidude.api`, `certidude.authority` and the signer
  are not in this repository. Only `test_cli.py` calls them, end to end. A
  module for them could not be checked against any code, so none is written
  and none of their behaviour (long-poll waiters racing a timeout, CRL
  ordering, token expiry) is claimed.
- The command line, setup and static files: bootstrapping with no protocol of
  its own.
