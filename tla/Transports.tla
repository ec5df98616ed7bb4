----------------------------- MODULE Transports -----------------------------
(* Putting a composed message on the wire: which transport MAIL_TRANSPORT      *)
(* selects, the SMTP session (smtp.ts) against a server that may answer        *)
(* anything or hang up, the one request of the other transports, and the       *)
(* error each provider answer is mapped to.                                    *)
(*                                                                             *)
(* The server is outside the program: it takes every step it can, and a step   *)
(* of the session is one command together with its reply.  Bytes, folding of   *)
(* multi-line replies and the MIME text are left out.                          *)
EXTENDS Naturals

CONSTANTS
  Recipients,  \* how many addresses to, cc and bcc name
  Reply,       \* reply codes the server may give; 0 is one that is no number
  MaxHangups   \* bound: connections that break

ASSUME TransportAssumption ==
  /\ Recipients \in Nat \ {0}
  /\ Reply \subseteq Nat /\ MaxHangups \in Nat

VARIABLES
  setup,    \* the environment the transport is selected from, fixed
  session,  \* [at, rcpt, secure, mechanisms]: where the send is
  error,    \* "" while running, then "sent" or the code of the error thrown
  server    \* [taken, shown, hangups]: what the far side saw and accepted

transportVars == <<setup, session, error, server>>

Names == {"cloudflare", "smtp", "ses", "resend"}

SecretsOf(name) ==
  CASE name = "smtp" -> {"SMTP_HOST", "SMTP_USERNAME", "SMTP_PASSWORD"}
    [] name = "ses" -> {"AWS_ACCESS_KEY_ID", "AWS_SECRET_ACCESS_KEY", "AWS_REGION"}
    [] name = "resend" -> {"RESEND_API_KEY"}
    [] OTHER -> {}

\* smtpSecurity, from SMTP_SECURE and whether SMTP_PORT says 465; smtpPort follows it.
Security(secure, implicitPort) ==
  CASE secure = "tls" -> "tls"
    [] secure \in {"starttls", ""} -> IF implicitPort THEN "tls" ELSE "starttls"
    [] OTHER -> "misconfigured"

\* selectTransport: the name, or that the send fails before anything is opened.
Selected(e) ==
  LET name == IF e.name = "" THEN "cloudflare" ELSE e.name IN
  CASE name \notin Names -> "misconfigured"
    [] name = "smtp" /\ Security(e.secure, e.implicitPort) = "misconfigured" -> "misconfigured"
    [] name \in Names /\ ~(SecretsOf(name) \subseteq e.secrets) -> "misconfigured"
    [] OTHER -> name

Environments ==
  {[name |-> "smtp", secrets |-> SecretsOf("smtp"), secure |-> s, implicitPort |-> p] :
     s \in {"tls", "starttls", "", "ssl"}, p \in BOOLEAN}
  \cup {[name |-> n, secrets |-> SecretsOf(m), secure |-> "", implicitPort |-> FALSE] :
     n \in Names \cup {"", "pigeon"}, m \in Names}

TransportInit ==
  /\ setup \in Environments
  /\ session = [at |-> "select", rcpt |-> 0, secure |-> FALSE, mechanisms |-> {}]
  /\ error = ""
  /\ server = [taken |-> FALSE, shown |-> FALSE, hangups |-> 0]

----------------------------------------------------------------------------
Go(where) == session' = [session EXCEPT !.at = where] /\ UNCHANGED error

\* A throw: the finally clause closes the socket, nothing more is said to the server.
Throw(code) == error' = code /\ session' = [session EXCEPT !.at = "closed"]

Select ==
  /\ session.at = "select"
  /\ CASE Selected(setup) = "misconfigured" -> Throw("sender_not_verified")
       [] Selected(setup) = "smtp" ->
            /\ session' = [session EXCEPT !.at = "greeting",
                             !.secure = Security(setup.secure, setup.implicitPort) = "tls"]
            /\ UNCHANGED error
       [] OTHER -> Go("request")
  /\ UNCHANGED <<setup, server>>

\* The greeting and EHLO; the reply to EHLO lists AUTH mechanisms.
Greeting(code) ==
  /\ session.at = "greeting"
  /\ IF code = 220 THEN Go("ehlo") ELSE Throw("message_rejected")
  /\ UNCHANGED <<setup, server>>

Ehlo(code, offered) ==
  /\ session.at = "ehlo"
  /\ IF code # 250 THEN Throw("message_rejected")
     ELSE /\ session' = [session EXCEPT !.mechanisms = offered,
                           !.at = IF session.secure THEN "auth" ELSE "starttls"]
          /\ UNCHANGED error
  /\ UNCHANGED <<setup, server>>

\* STARTTLS, the upgrade and the second EHLO to come; a refusal ends the session.
StartTlsLax(code) ==                     \* mutant: a refusal is carried on in clear
  /\ session.at = "starttls"
  /\ session' = [session EXCEPT !.secure = (code = 220),
                   !.at = IF code = 220 THEN "ehlo" ELSE "auth"]
  /\ UNCHANGED <<setup, error, server>>

StartTls(code) ==
  /\ session.at = "starttls"
  /\ IF code # 220 THEN Throw("message_rejected")
     ELSE session' = [session EXCEPT !.secure = TRUE, !.at = "ehlo"] /\ UNCHANGED error
  /\ UNCHANGED <<setup, server>>

\* authenticate: LOGIN only when PLAIN is not offered, PLAIN otherwise.
UsesLogin == "LOGIN" \in session.mechanisms /\ "PLAIN" \notin session.mechanisms

Refused(code) == IF code = 235 THEN Go("mail") ELSE Throw("sender_not_verified")

AuthPlain(code) ==
  /\ session.at = "auth" /\ ~UsesLogin
  /\ server' = [server EXCEPT !.shown = @ \/ ~session.secure]
  /\ Refused(code)
  /\ UNCHANGED setup

\* AUTH LOGIN, the user name, the password: each but the last must be answered 334.
AuthLogin(code) ==
  /\ session.at \in {"auth", "user"} /\ UsesLogin
  /\ IF code # 334 THEN Refused(code) ELSE Go(IF session.at = "auth" THEN "user" ELSE "password")
  /\ UNCHANGED <<setup, server>>

AuthPassword(code) ==
  /\ session.at = "password"
  /\ server' = [server EXCEPT !.shown = @ \/ ~session.secure]
  /\ Refused(code)
  /\ UNCHANGED setup

\* envelope: MAIL FROM, then one RCPT TO for each recipient; a reply below 400, or one
\* that is no number, goes on.
MailFrom(code) ==
  /\ session.at = "mail"
  /\ CASE code >= 500 -> Throw("sender_not_verified")
       [] code >= 400 /\ code < 500 -> Throw("too_many_requests")
       [] OTHER -> Go("rcpt")
  /\ UNCHANGED <<setup, server>>

RcptTo(code) ==
  /\ session.at = "rcpt" /\ session.rcpt < Recipients
  /\ CASE code >= 500 -> Throw("recipient_suppressed")
       [] code >= 400 /\ code < 500 -> Throw("too_many_requests")
       [] OTHER -> session' = [session EXCEPT !.rcpt = @ + 1] /\ UNCHANGED error
  /\ UNCHANGED <<setup, server>>

\* transmit: DATA, then the text; the server takes the mail when it answers 250.
Data(code) ==
  /\ session.at = "rcpt" /\ session.rcpt = Recipients
  /\ IF code = 354 THEN Go("text") ELSE Throw("message_rejected")
  /\ UNCHANGED <<setup, server>>

Text(code) ==
  /\ session.at = "text"
  /\ server' = [server EXCEPT !.taken = (code = 250)]
  /\ IF code = 250 THEN Go("quit") ELSE Throw("message_rejected")
  /\ UNCHANGED setup

\* QUIT: its reply is read and ignored, then the send returns.
QuitStrict(code) ==                      \* mutant: the goodbye is checked
  /\ session.at = "quit"
  /\ Throw(IF code \in {221, 250} THEN "sent" ELSE "message_rejected")
  /\ UNCHANGED <<setup, server>>

Quit(code) ==
  /\ session.at = "quit"
  /\ code >= 0
  /\ Throw("sent")
  /\ UNCHANGED <<setup, server>>

\* readLine: the server closes the connection instead of answering.  After the text
\* it may have taken the mail already; after QUIT it has.
HangUp ==
  /\ session.at \notin {"select", "request", "closed"} /\ server.hangups < MaxHangups
  /\ Throw("message_rejected")
  /\ \E t \in IF session.at = "text" THEN BOOLEAN ELSE {server.taken} :
       server' = [server EXCEPT !.hangups = @ + 1, !.taken = t]
  /\ UNCHANGED setup

----------------------------------------------------------------------------
(* The transports that make one request.  What the provider may answer.       *)
Answers(name) ==
  CASE name = "cloudflare" ->
         {"ok", "E_SENDER_NOT_VERIFIED", "E_RECIPIENT_SUPPRESSED", "E_RATE_LIMIT_EXCEEDED",
          "E_TOO_MANY_RECIPIENTS", "E_CONTENT_TOO_LARGE", "E_HEADER_NOT_ALLOWED", "other"}
    [] name = "ses" ->
         {"ok", "MailFromDomainNotVerified", "AccountSuppressionList", "Throttling", "429",
          "MessageRejected"}
    [] OTHER -> {"ok", "429", "422 domain", "other"}

\* sendOrMapError: what it does not know it throws on, which answers internal_error.
CloudflareError(answer) ==
  CASE answer = "E_SENDER_NOT_VERIFIED" -> "sender_not_verified"
    [] answer = "E_RECIPIENT_SUPPRESSED" -> "recipient_suppressed"
    [] answer = "E_RATE_LIMIT_EXCEEDED" -> "too_many_requests"
    [] answer = "other" -> "internal_error"
    [] OTHER -> answer               \* the three other E_ codes, lowercased

SesError(answer) ==
  CASE answer = "MailFromDomainNotVerified" -> "sender_not_verified"
    [] answer = "AccountSuppressionList" -> "recipient_suppressed"
    [] answer \in {"Throttling", "429"} -> "too_many_requests"
    [] OTHER -> "message_rejected"

ResendError(answer) ==
  CASE answer = "429" -> "too_many_requests"
    [] answer = "422 domain" -> "sender_not_verified"
    [] OTHER -> "message_rejected"

Mapped(name, answer) ==
  CASE answer = "ok" -> "sent"
    [] answer # "ok" /\ name = "cloudflare" -> CloudflareError(answer)
    [] answer # "ok" /\ name = "ses" -> SesError(answer)
    [] OTHER -> ResendError(answer)

Request(answer) ==
  /\ session.at = "request"
  /\ Throw(Mapped(Selected(setup), answer))
  /\ server' = [server EXCEPT !.taken = (answer = "ok")]
  /\ UNCHANGED setup

\* The request is lost, or its answer is: fetch and the binding throw.
RequestLost ==
  /\ session.at = "request" /\ server.hangups < MaxHangups
  /\ Throw("internal_error")
  /\ \E t \in BOOLEAN : server' = [server EXCEPT !.hangups = @ + 1, !.taken = t]
  /\ UNCHANGED setup

Replied(code) ==
  \/ Greeting(code) \/ StartTls(code) \/ AuthPlain(code) \/ AuthLogin(code)
  \/ AuthPassword(code) \/ MailFrom(code) \/ RcptTo(code) \/ Data(code) \/ Text(code)
  \/ Quit(code)

TransportNext ==
  \/ Select \/ HangUp \/ RequestLost
  \/ \E code \in Reply : Replied(code)
  \/ \E code \in Reply, offered \in SUBSET {"PLAIN", "LOGIN"} : Ehlo(code, offered)
  \/ \E answer \in Answers(Selected(setup)) : Request(answer)


\* One send on its own.
TransportSpec == TransportInit /\ [][TransportNext]_transportVars

----------------------------------------------------------------------------
(* The password is never written to a connection that is not encrypted,        *)
(* whatever the server answers to EHLO and STARTTLS and whatever the port and  *)
(* SMTP_SECURE say.                                                            *)
CredentialsStayInTls == ~server.shown

(* A send that is reported as failed, and so may be tried again, left no mail  *)
(* with the provider unless the connection broke; one reported as sent did.    *)
FailedMailNeedsHangup ==
  session.at = "closed" =>
    /\ error = "sent" => server.taken
    /\ (error # "sent" /\ server.taken) => server.hangups > 0

(* docs/api.md: "the contract every transport maps its provider's rejections   *)
(* onto, so a caller reads the same four codes whichever MAIL_TRANSPORT is     *)
(* set", and the three e_* codes for the send binding (here without the        *)
(* lowercasing).                                                               *)
RejectionsAreMapped ==
  (session.at = "closed" /\ server.hangups = 0) =>
    error \in {"sent", "sender_not_verified", "too_many_requests", "recipient_suppressed",
               "message_rejected", "E_TOO_MANY_RECIPIENTS", "E_CONTENT_TOO_LARGE",
               "E_HEADER_NOT_ALLOWED"}
=============================================================================
