---------------------------- MODULE MCApiServer ----------------------------
(* Servers of two releases, and servers whose settings Load refuses.       *)
EXTENDS ApiServer

MCServer == 1..4
MCRelease == <<2, 3, 1, 1>>

Hmac == [db |-> TRUE, env |-> "development", mode |-> "hmac", secret |-> TRUE, jwks |-> FALSE,
         issuer |-> FALSE, audience |-> FALSE, minConns |-> 0, maxConns |-> 1]
Jwks == [Hmac EXCEPT !.env = "production", !.mode = "jwks", !.secret = FALSE, !.jwks = TRUE,
                     !.issuer = TRUE, !.audience = TRUE]

MCSetting == <<Hmac, Jwks, [Hmac EXCEPT !.env = "production"],
               [Hmac EXCEPT !.mode = "other", !.secret = FALSE]>>
=============================================================================
