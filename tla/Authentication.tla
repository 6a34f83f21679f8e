---------------------------- MODULE Authentication ----------------------------
(***************************************************************************)
(* What a request has to bring before its view runs: a body that is        *)
(* accepted, an App Check token and a Firebase ID token, or a device id    *)
(* (backend/config, backend/apps/accounts and backend/apps/progress).      *)
(*                                                                         *)
(* A header is the way it is written and the credential it carries.  A     *)
(* credential has the form of one or not; when it is verified Firebase     *)
(* Admin says what is wrong with it, or the claims of the token it is.     *)
(* server is the settings and the time, its Firebase app, and the users    *)
(* that the provider has.                                                  *)
(***************************************************************************)
EXTENDS Integers

Never == -1
Failed(failure) == [failure |-> failure]
Verified(uid, authTime) == [failure |-> "none", uid |-> uid, authTime |-> authTime]

\* validate_credential_shape and its twin for App Check: printable ASCII, no spaces.
WellFormed(credential) == credential.form = "word"

\* get_firebase_admin_app: the app there is, or a new one of the configured project.
AdminAppStarts(server) ==
  /\ server.project
  /\ server.installed
  /\ server.initialized \/ server.initializes

\* AdminFirebaseTokenVerifier._ensure_app: a failure is remembered as success is.
EnsureApp(app, starts) ==
  IF app # "new" THEN app ELSE IF starts THEN "ready" ELSE "failed"

\* Firebase Admin looks the token's user up to see whether it is revoked.
AdminSays(credential, server) ==
  IF credential.says = "valid" /\ credential.uid \notin server.users THEN "error"
  ELSE credential.says

\* What Firebase Admin raises, as the backend calls it.
FailureOf ==
  [expired |-> "expired", revoked |-> "revoked", disabled |-> "revoked",
   uncertified |-> "unverifiable", invalid |-> "malformed", error |-> "unverifiable"]

\* _verify_with_admin: the claims of the token, whose uid must be fit to be one.
AdminVerifies(credential, server) ==
  LET says == AdminSays(credential, server) IN
  IF server.app = "failed" THEN Failed("unverifiable")
  ELSE IF says # "valid" THEN Failed(FailureOf[says])
  ELSE IF ~credential.fits THEN Failed("malformed")
  ELSE Verified(credential.uid, credential.authTime)

\* MockFirebaseTokenVerifier: the uid is in the token, which was signed in just now.
MockVerifies(credential, server) ==
  IF credential.says \in {"expired", "revoked"} THEN Failed(credential.says)
  ELSE IF credential.says # "valid" \/ ~credential.fits THEN Failed("malformed")
  ELSE Verified(credential.uid, server.now)

\* _authorization_header: a blank one is missing.
Present(header) == header.scheme \notin {"missing", "blank"}

\* verify_firebase_token: every failure is the same 401. The settings let no server start
\* whose mode is neither mock nor admin.
VerifyFirebaseToken(header, server) ==
  IF header.scheme # "bearer" \/ ~WellFormed(header) THEN Failed("malformed")
  ELSE IF server.mode = "mock" THEN MockVerifies(header, server)
  ELSE AdminVerifies(header, server)

\* OptionalFirebaseIdTokenAuthentication: nobody only without a header.
OptionalToken(header, server) ==
  IF Present(header) THEN VerifyFirebaseToken(header, server) ELSE Failed("anonymous")

\* request_account_deletion: a sign-in of the last five minutes, which a token
\* without its time is not.
RecentlySignedIn(verified, server) ==
  /\ verified.authTime # Never
  /\ server.now - verified.authTime \in 0 .. 5

\* _require_device_id: a UUID, however it is spelled; anything else is answered 400.
IsDeviceId(device) == device.form = "uuid"

-----------------------------------------------------------------------------
(* Before the view. *)

\* _is_protected_consumer_request: a path of the API but the two callbacks.
Protected(request) ==
  /\ request.api
  /\ request.path # "admob callback"
  /\ ~(request.path = "purchase callback" /\ request.method = "POST")

\* MockAppCheckTokenVerifier and AdminAppCheckTokenVerifier: the app of the settings.
AppChecked(token, server) ==
  /\ WellFormed(token)
  /\ server.appId # "none"
  /\ IF server.appCheck = "mock" THEN token.mocks
     ELSE AdminAppStarts(server) /\ token.appId = server.appId

\* FirebaseAppCheckMiddleware.
PassesAppCheck(request, server) ==
  (server.enforced /\ Protected(request)) => AppChecked(request.token, server)

\* APIRequestBoundaryMiddleware: a body is JSON of at most MaxBody bytes; an empty
\* form is let through where a body is not required.  A length that is not a number
\* is refused as a negative one is.
Body(request) == request.length > 0 \/ request.chunked
MediaAccepted(request) ==
  \/ request.media = "json"
  \/ /\ request.media = "empty form"
     /\ request.method \notin {"PATCH", "PUT"}
WithinBoundaries(request, server) ==
  (request.api /\ request.method \in {"PATCH", "POST", "PUT"}) =>
    /\ request.length \in 0 .. server.maxBody
    /\ Body(request) => MediaAccepted(request)

\* The middleware in its order, then the view.
Admitted(request, server) ==
  WithinBoundaries(request, server) /\ PassesAppCheck(request, server)
=============================================================================
