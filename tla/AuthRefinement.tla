---------------------------- MODULE AuthRefinement ----------------------------
(***************************************************************************)
(* The detailed model Auth implements the abstract specification           *)
(* AuthAbstract.  A thread inside a backend or inside authorize_admin has  *)
(* a pending request; once func has been called the request is admitted,  *)
(* with the user the handler sees; a request that ended without func is    *)
(* refused.  The handler's own return or raise, the status code and the    *)
(* LDAP connection are invisible to the abstract specification.            *)
(***************************************************************************)
EXTENDS Auth

AbsPhase(r) ==
    CASE pc[r] = "idle"                              -> "idle"
      [] pc[r] \in {"auth", "authz"}                 -> "pending"
      [] pc[r] \in {"handler", "done"} /\ served[r]  -> "admitted"
      [] pc[r] \in {"handler", "done"} /\ ~served[r] -> "refused"

AbsUser(r) == IF served[r] THEN ctx[r].user ELSE Unset

A == INSTANCE AuthAbstract
        WITH areq  <- req,
             phase <- [r \in Requests |-> AbsPhase(r)],
             user  <- [r \in Requests |-> AbsUser(r)]

(* The decorators keep the promise of AuthAbstract: each step of a request *)
(* thread is a step of the abstract specification or leaves its view       *)
(* unchanged, so a handler is called only with an admissible identity,     *)
(* whichever backend, in whichever order, handled the request.             *)
AuthRefinesAbstract == A!ASpec
=============================================================================
