----------------------------- MODULE AuthForms ------------------------------
(***************************************************************************)
(* The two forms of the auth view in app.js and what they show of a        *)
(* failure, with the request engine of api.js behind them: a 401 is taken  *)
(* for an expired session, also the 401 by which the server refuses a      *)
(* password or an email that is taken.                                     *)
(*                                                                         *)
(* The vault behind a login is in VaultGrid; Page composes the two.        *)
(* cause and expired are history: no guard reads them.                     *)
(***************************************************************************)
EXTENDS Naturals

Forms == {"login", "register"}

\* What a form may show; "" is nothing.
Messages == {"", "mismatch", "short", "unreachable", "refused", "other",
             "no key", "load failed", "SESSION_EXPIRED"}

VARIABLES
  view,      \* the active view
  tab,       \* the active tab of the auth view
  refresh,   \* the refresh token in sessionStorage: none, or what it is worth
  captured,  \* form -> the refresh token its tryRefresh has sent
  pc,        \* form -> where its submit handler is; not "idle": disabled
  error,     \* form -> the message under it
  cause,     \* form -> why its last submission failed, or "none"
  expired    \* form -> its last submission ended in SESSION_EXPIRED

vars == <<view, tab, refresh, captured, pc, error, cause, expired>>

Init ==
  /\ view = "auth"
  /\ tab = "login"
  /\ refresh \in {"none", "valid", "expired"}    \* left by an earlier page
  /\ captured = [f \in Forms |-> "none"]
  /\ pc = [f \in Forms |-> "idle"]
  /\ error = [f \in Forms |-> ""]
  /\ cause = [f \in Forms |-> "none"]
  /\ expired = [f \in Forms |-> FALSE]

\* A click on a tab.
SelectTab(t) ==
  /\ view = "auth"
  /\ tab' = t
  /\ UNCHANGED <<view, refresh, captured, pc, error, cause, expired>>

\* The handler is over, and its button enabled; message is what it leaves
\* under the form.
End(f, why, message) ==
  /\ pc' = [pc EXCEPT ![f] = "idle"]
  /\ error' = [error EXCEPT ![f] = message]
  /\ cause' = [cause EXCEPT ![f] = why]

\* Both handlers empty the message first.
Submit(f) ==
  /\ view = "auth" /\ tab = f /\ pc[f] = "idle"
  /\ pc' = [pc EXCEPT ![f] = "sent"]
  /\ error' = [error EXCEPT ![f] = ""]
  /\ cause' = [cause EXCEPT ![f] = "none"]
  /\ expired' = [expired EXCEPT ![f] = FALSE]
  /\ UNCHANGED <<view, tab, refresh, captured>>

\* The register form's own checks.
Mistyped ==
  /\ view = "auth" /\ tab = "register" /\ pc["register"] = "idle"
  /\ \E why \in {"mismatch", "short"} : End("register", why, why)
  /\ expired' = [expired EXCEPT !["register"] = FALSE]
  /\ UNCHANGED <<view, tab, refresh, captured>>

\* fetch fails.
Break(f) ==
  /\ pc[f] \in {"sent", "retried"}
  /\ End(f, "unreachable", "unreachable")
  /\ UNCHANGED <<view, tab, refresh, captured, expired>>

\* 400, 429 or 500; the message is the server's.
AnswerOther(f) ==
  /\ pc[f] \in {"sent", "retried"}
  /\ End(f, "other", "other")
  /\ UNCHANGED <<view, tab, refresh, captured, expired>>

\* The first 401 starts a refresh, if there is a token for it.
AnswerRefused(f) ==
  /\ pc[f] = "sent"
  /\ refresh # "none"
  /\ captured' = [captured EXCEPT ![f] = refresh]
  /\ pc' = [pc EXCEPT ![f] = "refreshing"]
  /\ UNCHANGED <<view, tab, refresh, error, cause, expired>>

\* The second 401 is thrown with the message of the server.
AnswerRefusedAgain(f) ==
  /\ pc[f] = "retried"
  /\ End(f, "refused", "refused")
  /\ UNCHANGED <<view, tab, refresh, captured, expired>>

\* tryRefresh succeeds with the token it took: the new tokens are stored,
\* also over those of a login or a sign-out that came in between, and the
\* request is sent again.
Refreshed(f) ==
  /\ pc[f] = "refreshing"
  /\ captured[f] = "valid"
  /\ refresh' = "valid"
  /\ captured' = [captured EXCEPT ![f] = "none"]
  /\ pc' = [pc EXCEPT ![f] = "retried"]
  /\ UNCHANGED <<view, tab, error, cause, expired>>

\* Mutant: the register handler passes over SESSION_EXPIRED, as login does.
SessionExpiredQuiet(f) ==
  /\ \/ pc[f] = "sent" /\ refresh = "none"
     \/ pc[f] = "refreshing"
  /\ refresh' = "none"
  /\ End(f, "refused", "")
  /\ captured' = [captured EXCEPT ![f] = "none"]
  /\ expired' = [expired EXCEPT ![f] = TRUE]
  /\ UNCHANGED <<view, tab>>

\* There is no token, or it is refused, or the refresh breaks: the tokens
\* are cleared and SESSION_EXPIRED is thrown.  The login handler returns
\* without a word; the register handler shows it as it is.
SessionExpired(f) ==
  /\ \/ pc[f] = "sent" /\ refresh = "none"
     \/ pc[f] = "refreshing"
  /\ refresh' = "none"
  /\ End(f, "refused", IF f = "login" THEN "" ELSE "SESSION_EXPIRED")
  /\ captured' = [captured EXCEPT ![f] = "none"]
  /\ expired' = [expired EXCEPT ![f] = TRUE]
  /\ UNCHANGED <<view, tab>>

\* login: the answer's tokens are stored, and deriveKey is awaited.
StoreTokens ==
  /\ pc["login"] \in {"sent", "retried"}
  /\ refresh' = "valid"
  /\ pc' = [pc EXCEPT !["login"] = "deriving"]
  /\ UNCHANGED <<view, tab, captured, error, cause, expired>>

\* deriveKey throws: its message is shown, and the tokens stay.
DerivationFails ==
  /\ pc["login"] = "deriving"
  /\ End("login", "key", "no key")
  /\ UNCHANGED <<view, tab, refresh, captured, expired>>

\* performLogin, with the key: the vault is opened, and its load begins.
LoggedIn ==
  /\ pc["login"] = "deriving"
  /\ view' = "vault"
  /\ pc' = [pc EXCEPT !["login"] = "loading"]
  /\ UNCHANGED <<tab, refresh, captured, error, cause, expired>>

\* The vault is loaded, and the login handler returns.
Opened ==
  /\ pc["login"] = "loading"
  /\ End("login", "none", "")
  /\ UNCHANGED <<view, tab, refresh, captured, expired>>

\* A load that fails is reported under the login form, whatever view is
\* active.
OpenFailed ==
  /\ pc["login"] = "loading"
  /\ End("login", "load", "load failed")
  /\ UNCHANGED <<view, tab, refresh, captured, expired>>

\* The account is made, and the login tab is clicked for the user.
Registered ==
  /\ pc["register"] = "sent"
  /\ End("register", "none", "")
  /\ tab' = "login"
  /\ UNCHANGED <<view, refresh, captured, expired>>

\* A token runs out while nobody looks.
TokenExpires ==
  /\ refresh = "valid"
  /\ refresh' = "expired"
  /\ UNCHANGED <<view, tab, captured, pc, error, cause, expired>>

\* performLogout empties the fields of the login form, not its message.
PerformLogout ==
  /\ view = "vault"
  /\ view' = "auth"
  /\ refresh' = "none"
  /\ UNCHANGED <<tab, captured, pc, error, cause, expired>>

Answered(f) ==
  \/ Break(f) \/ AnswerOther(f) \/ AnswerRefused(f) \/ AnswerRefusedAgain(f)
  \/ Refreshed(f) \/ SessionExpired(f)

\* What happens in the auth view, and not in the vault view.
FormsStep ==
  \/ \E f \in Forms : SelectTab(f) \/ Submit(f) \/ Answered(f)
  \/ StoreTokens \/ DerivationFails \/ Registered \/ Mistyped \/ TokenExpires

\* The types of the auth view.
FormsTypeOK ==
  /\ view \in {"auth", "vault"}
  /\ tab \in Forms
  /\ refresh \in {"none", "valid", "expired"}
  /\ captured \in [Forms -> {"none", "valid", "expired"}]
  /\ pc \in [Forms -> {"idle", "sent", "refreshing", "retried", "deriving",
                       "loading"}]
  /\ error \in [Forms -> Messages]
  /\ cause \in [Forms -> {"none", "mismatch", "short", "unreachable",
                          "refused", "other", "key", "load"}]
  /\ expired \in [Forms -> BOOLEAN]
  /\ pc["register"] \notin {"deriving", "loading"}

=============================================================================
