----------------------------- MODULE Credentials -----------------------------
(* The credential providers of credentials.py, as a run uses them: the       *)
(* choice of a provider, discovery of the installation, minting and          *)
(* refreshing its token, and the data request that carries the token.        *)
(*                                                                           *)
(* Time is GitHub's, in whole minutes; the host's clock trails it by Slow    *)
(* (a negative Slow is a fast clock).  A run sends one request at a time     *)
(* (no task is ever spawned), so there is one caller.                        *)
EXTENDS Integers

CONSTANTS
    Lifetime,       \* minutes an installation token lives (GitHub: 60)
    Margin,         \* _REFRESH_MARGIN_SECONDS
    IatSkew,        \* _JWT_IAT_SKEW_SECONDS
    JwtLife,        \* _JWT_EXP_SECONDS
    JwtCeiling,     \* how far in the future GitHub lets a JWT expire
    MaxAttempts,    \* _BOOTSTRAP_MAX_ATTEMPTS
    Slow,           \* how far the host's clock trails GitHub's
    MaxDelay,       \* bound on the time from get_token to the request's arrival
    MaxTime         \* bound on time, for TLC

ASSUME CredentialAssumption ==
    /\ Lifetime \in Nat /\ Margin \in Nat /\ MaxDelay \in Nat /\ MaxTime \in Nat
    /\ IatSkew \in Nat /\ JwtLife \in Nat /\ JwtCeiling \in Nat /\ MaxAttempts \in Nat
    /\ Slow \in Int
    /\ MaxAttempts > 0

VARIABLES
    now,            \* GitHub's clock
    provider,       \* which CredentialProvider was built
    known,          \* installation_id is set
    expires,        \* when the current token expires; None: there is no token
    jwt,            \* the App JWT of the refresh under way
    pc,             \* where the caller stands
    attempt,        \* attempt of the bootstrap request under way
    waited,         \* time since get_token returned
    outcome,        \* ErrorKind that ended the run
    installed,      \* GitHub: the App is installed, and not suspended
    exhausted       \* history: a bootstrap request ran out of attempts

vars == <<now, provider, known, expires, jwt, pc, attempt, waited, outcome, installed, exhausted>>

None == -1
HostClock == now - Slow

\* Credential forms a caller can hand over.
Form == {"private_key_path", "client_id", "token"}
Stop(kind) == pc' = "stopped" /\ outcome' = kind

Init ==
    /\ now = 0 /\ provider = "none" /\ known = FALSE /\ expires = None
    /\ jwt = [iat |-> 0, exp |-> 0]
    /\ pc = "build" /\ attempt = 0 /\ waited = 0 /\ outcome = "none"
    /\ installed \in BOOLEAN /\ exhausted = FALSE

\* The forms that name exactly one provider, and which.
ProviderFor(given) ==
    CASE given = {"token"} -> "static"
      [] given = {"private_key_path", "client_id"} -> "app"
      [] OTHER -> "none"

\* A pre-minted token was minted at most Lifetime ago, by someone else.  The
\* constructor refuses an empty token, an empty client ID and an unusable key.
BuildProvider ==
    /\ pc = "build"
    /\ \E given \in SUBSET Form : provider' = ProviderFor(given)
    /\ \/ provider' = "none" /\ Stop("CREDENTIAL_CONFLICT") /\ UNCHANGED expires
       \/ provider' # "none" /\ Stop("CREDENTIAL_INVALID") /\ UNCHANGED expires
       \/ /\ provider' # "none" /\ pc' = "idle" /\ UNCHANGED outcome
          /\ expires' \in IF provider' = "static" THEN {1, Lifetime} ELSE {expires}
    /\ UNCHANGED <<now, known, jwt, attempt, waited, installed, exhausted>>

-----------------------------------------------------------------------------
(* get_token *)

\* Mutant: refreshed once it has run out, rather than a margin before.
MutantNeedsRefresh == expires = None \/ expires - HostClock < 0

NeedsRefresh == expires = None \/ expires - HostClock < Margin

\* The token in hand is good enough: the request goes out with it.
UseToken ==
    /\ pc = "idle" /\ provider # "none"
    /\ provider = "static" \/ ~NeedsRefresh
    /\ pc' = "send" /\ waited' = 0
    /\ UNCHANGED <<now, provider, known, expires, jwt, attempt, outcome, installed, exhausted>>

\* Mutant: the JWT of the first refresh is kept for the later ones.
MutantBuiltJwt ==
    IF known THEN jwt ELSE [iat |-> HostClock - IatSkew, exp |-> HostClock + JwtLife]

\* _build_jwt, dated by the host's clock.
BuiltJwt == [iat |-> HostClock - IatSkew, exp |-> HostClock + JwtLife]

\* _refresh: one JWT for every request of this refresh.
BeginRefresh ==
    /\ pc = "idle" /\ provider = "app" /\ NeedsRefresh
    /\ jwt' = BuiltJwt
    /\ pc' = IF known THEN "mint" ELSE "discover"
    /\ attempt' = 0
    /\ UNCHANGED <<now, provider, known, expires, waited, outcome, installed, exhausted>>

JwtAccepted == jwt.iat <= now /\ now < jwt.exp /\ jwt.exp <= now + JwtCeiling

MoreAttempts == attempt + 1 < MaxAttempts

\* A timeout, a transport error or a retryable status: three attempts in all,
\* each of which may take its time.
BootstrapFails ==
    /\ pc \in {"discover", "probe", "mint"}
    /\ now' \in {now, now + 1} /\ now' <= MaxTime
    /\ \/ MoreAttempts /\ attempt' = attempt + 1 /\ UNCHANGED <<pc, outcome, exhausted>>
       \/ ~MoreAttempts /\ Stop("AUTH_FAILED") /\ exhausted' = TRUE /\ UNCHANGED attempt
    /\ UNCHANGED <<provider, known, expires, jwt, waited, installed>>

\* raise_for_status: any other error status leaves as httpx's own exception.
StrayStatus ==
    /\ pc \in {"discover", "mint"}
    /\ pc' = "crashed"
    /\ UNCHANGED <<now, provider, known, expires, jwt, attempt, waited, outcome, installed, exhausted>>

Discover ==
    /\ pc = "discover"
    /\ \/ ~JwtAccepted /\ Stop("CREDENTIAL_INVALID") /\ UNCHANGED <<known, attempt>>
       \/ /\ JwtAccepted /\ attempt' = 0 /\ UNCHANGED outcome
          /\ \/ ~installed /\ pc' = "probe" /\ UNCHANGED known
             \/ installed /\ pc' = "mint" /\ known' = TRUE
    /\ UNCHANGED <<now, provider, expires, jwt, waited, installed, exhausted>>

\* GET /orgs/{org}: is it the organization that is missing, or the App?
Probe ==
    /\ pc = "probe"
    /\ \E kind \in {"ORG_NOT_FOUND", "APP_NOT_INSTALLED"} : Stop(kind)
    /\ UNCHANGED <<now, provider, known, expires, jwt, attempt, waited, installed, exhausted>>

\* The token just minted, on GitHub's clock.
MintedExpiry == now + Lifetime

Mint ==
    /\ pc = "mint"
    /\ IF JwtAccepted /\ installed
       THEN pc' = "send" /\ waited' = 0 /\ expires' = MintedExpiry /\ UNCHANGED outcome
       ELSE Stop("AUTH_FAILED") /\ UNCHANGED <<expires, waited>>
    /\ UNCHANGED <<now, provider, known, jwt, attempt, installed, exhausted>>

-----------------------------------------------------------------------------
(* The data request *)

\* The request waits for its slot and crosses the network.
Delay ==
    /\ pc = "send" /\ waited < MaxDelay /\ now < MaxTime
    /\ now' = now + 1 /\ waited' = waited + 1
    /\ UNCHANGED <<provider, known, expires, jwt, pc, attempt, outcome, installed, exhausted>>

TokenLive == now < expires

\* raise_on_unauthorized: what a 401 means to each provider.
RejectedAs == IF provider = "static" THEN "AUTH_EXPIRED" ELSE "AUTH_FAILED"

Send ==
    /\ pc = "send"
    /\ IF TokenLive /\ installed
       THEN pc' = "idle" /\ UNCHANGED outcome
       ELSE Stop(RejectedAs)
    /\ UNCHANGED <<now, provider, known, expires, jwt, attempt, waited, installed, exhausted>>

\* The run writes pages, or waits for the rate limit, between two requests.
Elapse ==
    /\ pc = "idle" /\ now < MaxTime
    /\ now' = now + 1
    /\ UNCHANGED <<provider, known, expires, jwt, pc, attempt, waited, outcome, installed, exhausted>>

\* An administrator suspends or uninstalls the App.
Uninstall ==
    /\ installed /\ pc \notin {"stopped", "crashed"}
    /\ installed' = FALSE
    /\ UNCHANGED <<now, provider, known, expires, jwt, pc, attempt, waited, outcome, exhausted>>

Next ==
    \/ BuildProvider \/ UseToken \/ BeginRefresh \/ BootstrapFails \/ StrayStatus
    \/ Discover \/ Probe \/ Mint \/ Delay \/ Send \/ Elapse \/ Uninstall

Spec == Init /\ [][Next]_vars

-----------------------------------------------------------------------------
(* Properties *)

\* Every variable holds a value of its type.
TypeOK ==
    /\ now \in Nat /\ provider \in {"none", "static", "app"}
    /\ known \in BOOLEAN /\ expires \in Nat \union {None}
    /\ jwt \in [iat : Int, exp : Int]
    /\ pc \in {"build", "idle", "discover", "probe", "mint", "send", "stopped", "crashed"}
    /\ attempt \in 0..(MaxAttempts - 1) /\ waited \in 0..MaxDelay
    /\ outcome \in {"none", "CREDENTIAL_CONFLICT", "CREDENTIAL_INVALID", "AUTH_FAILED",
                    "AUTH_EXPIRED", "ORG_NOT_FOUND", "APP_NOT_INSTALLED"}
    /\ installed \in BOOLEAN /\ exhausted \in BOOLEAN

\* A request of the App-key provider is never on the wire with a token that
\* has run out: get_token's margin (credentials.py:159) covers both the
\* host's slow clock and the time the request takes to arrive.
SentTokenIsLive == pc = "send" /\ provider = "app" => TokenLive

\* A run on an App key outlives any number of tokens (AC-3.3): it ends in an
\* authentication failure only if the App was removed, or GitHub could not be
\* reached three times running during a refresh.
OutlivesItsTokens == outcome = "AUTH_FAILED" => ~installed \/ exhausted

=============================================================================
