------------------------------- MODULE AuthData -------------------------------
(***************************************************************************)
(* The constants and the inputs of certidude's authentication shim         *)
(* (src/certidude/auth.py), shared by the detailed model Auth and by the   *)
(* abstract specification AuthAbstract.                                    *)
(***************************************************************************)
EXTENDS Naturals, FiniteSets

CONSTANTS
    Requests,       \* concurrent request threads
    Names,          \* account names (strings)
    Realms,         \* Kerberos realms a client may present (strings)
    Domain,         \* const.DOMAIN
    Admins,         \* the accounts for which User.is_admin() holds
    Lower(_),       \* str.lower on the strings of Names and Realms
    None,           \* Python's None stored in req.context["user"]
    Unset,          \* a req.context key that was never assigned
    NoRequest       \* a thread that has not taken a request yet

ASSUME AuthConstantsAssumption ==
    /\ Admins \subseteq Names
    /\ Domain \in Realms
    /\ None # Unset

(***************************************************************************)
(* The inputs of a request.                                                *)
(***************************************************************************)
BackendNames == {"kerberos", "ldap", "pam"}

\* gssapi's view of a Kerberos ticket: the initiator name after context.step
Principals == [name : Names, machine : BOOLEAN, realm : Realms]

\* The token after "Negotiate ": it is valid base64 carrying a GSS token for
\* a principal, or it is not valid base64, or GSSAPI rejects it.
NegotiateTokens ==
    [form : {"ok"}, p : Principals] \cup [form : {"bad_b64", "bad_gss"}]

\* The token after "Basic ": base64 of "user:password", or not valid base64,
\* or valid base64 without the ":" separator.
BasicTokens ==
    [form : {"ok"}, user : Names, pw : {"good", "bad"}]
        \cup [form : {"bad_b64", "no_colon"}]

\* req.auth: absent, "Negotiate <token>", "Basic <token>" or another scheme
Headers ==
    {[scheme |-> "none"], [scheme |-> "other"]}
        \cup [scheme : {"Negotiate"}, tok : NegotiateTokens]
        \cup [scheme : {"Basic"}, tok : BasicTokens]

\* The decorator stack of the handler: login_required, login_optional, and
\* either of them around authorize_admin.
Endpoints == {"required", "optional", "admin", "optional_admin"}

Optional(e) == e \in {"optional", "optional_admin"}
AdminOnly(e) == e \in {"admin", "optional_admin"}

Inputs ==
    [hdr : Headers,
     ua : {"mobile", "desktop", "none"},  \* "Android"/"iPhone" in it, or no header
     endpoint : Endpoints,
     authenticate : BOOLEAN]        \* req.get_param_as_bool("authenticate")

(***************************************************************************)
(* certidude.user: User.objects.get(username) and User.is_admin().  The    *)
(* username of a machine account ends with "$".                            *)
(***************************************************************************)
UserObjects == [name : Names, machine : BOOLEAN]

UserObject(name, machine) == [name |-> name, machine |-> machine]

IsAdmin(u) == u \in UserObjects /\ ~u.machine /\ u.name \in Admins

ASSUME SentinelAssumption ==
    /\ None \notin UserObjects
    /\ Unset \notin UserObjects
=============================================================================
