-------------------------- MODULE CredentialsProofs --------------------------
(* Theorems about Credentials.tla: how slow a host clock, and how late a      *)
(* request, the refresh margin covers.                                        *)
EXTENDS Credentials, TLAPS

\* The margin covers the host's slow clock and the request's delay.
MarginCovers == Slow + MaxDelay < Margin /\ MaxDelay < Lifetime

\* GitHub accepts a JWT dated by the host's clock, however long the retries of
\* discovery and minting take.
SkewTolerated ==
    /\ -IatSkew <= Slow /\ JwtLife - Slow <= JwtCeiling
    /\ 2 * (MaxAttempts - 1) < JwtLife - Slow

LEMMA TypeInductive == Spec => []TypeOK
<1> USE CredentialAssumption DEF CredentialAssumption, TypeOK, None
<1>1. ASSUME Init PROVE TypeOK
  <2>1. known \in BOOLEAN /\ installed \in BOOLEAN /\ exhausted \in BOOLEAN
    BY <1>1, Zenon DEF Init
  <2>2. 0 \in 0..(MaxAttempts - 1) /\ 0 \in 0..MaxDelay
    OBVIOUS
  <2> QED BY <1>1, <2>1, <2>2 DEF Init
<1>2. TypeOK /\ [Next]_vars => TypeOK'
  <2> SUFFICES ASSUME TypeOK, [Next]_vars PROVE TypeOK'
    OBVIOUS
  <2>1. CASE BuildProvider
    BY <2>1 DEF BuildProvider, ProviderFor, Stop
  <2>2. CASE UseToken
    BY <2>2 DEF UseToken
  <2>3. CASE BeginRefresh
    BY <2>3 DEF BeginRefresh, BuiltJwt, HostClock
  <2>4. CASE BootstrapFails
    <3>1. now' \in Nat /\ attempt' \in 0..(MaxAttempts - 1)
      BY <2>4 DEF BootstrapFails, MoreAttempts
    <3>2. known' \in BOOLEAN /\ installed' \in BOOLEAN /\ exhausted' \in BOOLEAN
      BY <2>4, Zenon DEF BootstrapFails
    <3> QED BY <2>4, <3>1, <3>2 DEF BootstrapFails, Stop
  <2>5. CASE StrayStatus
    BY <2>5 DEF StrayStatus
  <2>6. CASE Discover
    <3>1. attempt' \in 0..(MaxAttempts - 1)
      BY <2>6 DEF Discover
    <3>2. known' \in BOOLEAN /\ installed' \in BOOLEAN /\ exhausted' \in BOOLEAN
      BY <2>6, Zenon DEF Discover
    <3> QED BY <2>6, <3>1, <3>2 DEF Discover, Stop
  <2>7. CASE Probe
    BY <2>7 DEF Probe, Stop
  <2>8. CASE Mint
    BY <2>8 DEF Mint, MintedExpiry, Stop
  <2>9. CASE Delay
    BY <2>9 DEF Delay
  <2>10. CASE Send
    BY <2>10 DEF Send, RejectedAs, Stop
  <2>11. CASE Elapse
    BY <2>11 DEF Elapse
  <2>12. CASE Uninstall
    BY <2>12 DEF Uninstall
  <2>13. CASE UNCHANGED vars
    BY <2>13 DEF vars
  <2> QED BY <2>1, <2>2, <2>3, <2>4, <2>5, <2>6, <2>7, <2>8, <2>9, <2>10, <2>11, <2>12,
             <2>13 DEF Next
<1> QED BY <1>1, <1>2, PTL DEF Spec

(* Every state of every run is of its type: nothing in credentials.py makes   *)
(* an attempt count, an expiry or an outcome run out of its range.            *)
THEOREM CredentialTypes == Spec => []TypeOK
BY TypeInductive

-----------------------------------------------------------------------------

\* The token on the wire outlasts the delay its request still has to come.
TokenOutlastsDelay ==
    pc = "send" /\ provider = "app" => expires - now > MaxDelay - waited

LEMMA DelayInductive == ASSUME MarginCovers PROVE Spec => []TokenOutlastsDelay
<1> USE CredentialAssumption DEF CredentialAssumption
<1>1. Init => TokenOutlastsDelay
  BY DEF Init, TokenOutlastsDelay
<1>2. TypeOK /\ TokenOutlastsDelay /\ [Next]_vars => TokenOutlastsDelay'
  <2> SUFFICES ASSUME TypeOK, TokenOutlastsDelay, [Next]_vars PROVE TokenOutlastsDelay'
    OBVIOUS
  <2> USE DEF TypeOK, TokenOutlastsDelay, None
  <2>1. CASE BuildProvider
    BY <2>1 DEF BuildProvider, Stop
  <2>2. CASE UseToken
    BY <2>2 DEF UseToken, NeedsRefresh, HostClock, MarginCovers
  <2>3. CASE BeginRefresh
    BY <2>3 DEF BeginRefresh
  <2>4. CASE BootstrapFails
    BY <2>4 DEF BootstrapFails, Stop
  <2>5. CASE StrayStatus
    BY <2>5 DEF StrayStatus
  <2>6. CASE Discover
    BY <2>6 DEF Discover, Stop
  <2>7. CASE Probe
    BY <2>7 DEF Probe, Stop
  <2>8. CASE Mint
    BY <2>8 DEF Mint, MintedExpiry, Stop, MarginCovers
  <2>9. CASE Delay
    BY <2>9 DEF Delay
  <2>10. CASE Send
    BY <2>10 DEF Send, Stop
  <2>11. CASE Elapse
    BY <2>11 DEF Elapse
  <2>12. CASE Uninstall
    BY <2>12 DEF Uninstall
  <2>13. CASE UNCHANGED vars
    BY <2>13 DEF vars
  <2> QED BY <2>1, <2>2, <2>3, <2>4, <2>5, <2>6, <2>7, <2>8, <2>9, <2>10, <2>11, <2>12,
             <2>13 DEF Next
<1> QED BY <1>1, <1>2, TypeInductive, PTL DEF Spec

(* If the margin covers the slow clock and the delay, no request of the       *)
(* App-key provider is ever on the wire with a token that has run out         *)
(* (get_token, credentials.py:157).                                           *)
THEOREM RequestsCarryLiveTokens == MarginCovers => (Spec => []SentTokenIsLive)
<1> SUFFICES ASSUME MarginCovers PROVE Spec => []SentTokenIsLive
  OBVIOUS
<1>1. TypeOK /\ TokenOutlastsDelay => SentTokenIsLive
  BY CredentialAssumption
  DEF CredentialAssumption, TypeOK, TokenOutlastsDelay, SentTokenIsLive, TokenLive, None
<1> QED BY <1>1, TypeInductive, DelayInductive, PTL

-----------------------------------------------------------------------------

\* When, by GitHub's clock, the JWT in hand was built.
BuiltAt == jwt.exp - JwtLife + Slow

\* The JWT of the refresh under way is no older than its retries make it.
JwtIsYoung ==
    pc \in {"discover", "mint"} =>
        /\ jwt.iat = BuiltAt - Slow - IatSkew
        /\ BuiltAt <= now
        /\ now - BuiltAt <= attempt + (IF pc = "mint" THEN MaxAttempts - 1 ELSE 0)

ProviderChosen == pc \in {"discover", "probe", "mint", "send"} => provider # "none"

(* The strengthening of OutlivesItsTokens that the steps preserve.            *)
IInv == TypeOK /\ TokenOutlastsDelay /\ JwtIsYoung /\ ProviderChosen /\ OutlivesItsTokens

LEMMA YoungJwtAccepted ==
    ASSUME SkewTolerated, IInv, pc \in {"discover", "mint"}
    PROVE  JwtAccepted
<1> USE CredentialAssumption DEF CredentialAssumption
<1>1. /\ now \in Nat /\ jwt.iat \in Int /\ jwt.exp \in Int
      /\ attempt \in Int /\ attempt <= MaxAttempts - 1
  BY DEF IInv, TypeOK
<1>2. now - BuiltAt <= 2 * (MaxAttempts - 1) /\ BuiltAt <= now
      /\ jwt.iat = BuiltAt - Slow - IatSkew
  BY <1>1 DEF IInv, JwtIsYoung, BuiltAt
<1> QED BY <1>1, <1>2 DEF BuiltAt, JwtAccepted, SkewTolerated

LEMMA OutlivesNext ==
    ASSUME MarginCovers, SkewTolerated, IInv, [Next]_vars
    PROVE  JwtIsYoung' /\ ProviderChosen' /\ OutlivesItsTokens'
<1> USE CredentialAssumption
    DEF CredentialAssumption, IInv, TypeOK, JwtIsYoung, BuiltAt, ProviderChosen,
        OutlivesItsTokens, None
<1>1. CASE BuildProvider
  BY <1>1 DEF BuildProvider, Stop
<1>2. CASE UseToken
  BY <1>2 DEF UseToken
<1>3. CASE BeginRefresh
  BY <1>3 DEF BeginRefresh, BuiltJwt, HostClock
<1>4. CASE BootstrapFails
  BY <1>4 DEF BootstrapFails, MoreAttempts, Stop
<1>5. CASE StrayStatus
  BY <1>5 DEF StrayStatus
<1>6. CASE Discover
  BY <1>6, YoungJwtAccepted DEF Discover, Stop
<1>7. CASE Probe
  BY <1>7 DEF Probe, Stop
<1>8. CASE Mint
  BY <1>8, YoungJwtAccepted DEF Mint, Stop
<1>9. CASE Delay
  BY <1>9 DEF Delay
<1>10. CASE Send
  <2>1. pc = "send" /\ provider = "app" => TokenLive
    BY DEF TokenOutlastsDelay, TokenLive
  <2> QED BY <1>10, <2>1 DEF Send, RejectedAs, Stop
<1>11. CASE Elapse
  BY <1>11 DEF Elapse
<1>12. CASE Uninstall
  BY <1>12 DEF Uninstall
<1>13. CASE UNCHANGED vars
  BY <1>13 DEF vars
<1> QED BY <1>1, <1>2, <1>3, <1>4, <1>5, <1>6, <1>7, <1>8, <1>9, <1>10, <1>11, <1>12,
           <1>13 DEF Next

(* If the host's clock is tolerable to GitHub and covered by the margin, a    *)
(* run on an App key ends in an authentication failure only when the App is   *)
(* gone or a refresh could not reach GitHub (AC-3.3).                         *)
THEOREM RunsOutliveTokens ==
    MarginCovers /\ SkewTolerated => (Spec => []OutlivesItsTokens)
<1> SUFFICES ASSUME MarginCovers, SkewTolerated PROVE Spec => []OutlivesItsTokens
  OBVIOUS
<1>1. Init => JwtIsYoung /\ ProviderChosen /\ OutlivesItsTokens
  BY DEF Init, JwtIsYoung, ProviderChosen, OutlivesItsTokens
<1>2. TypeOK /\ TokenOutlastsDelay /\ JwtIsYoung /\ ProviderChosen /\ OutlivesItsTokens
      /\ [Next]_vars => JwtIsYoung' /\ ProviderChosen' /\ OutlivesItsTokens'
  BY OutlivesNext DEF IInv
<1> QED BY <1>1, <1>2, TypeInductive, DelayInductive, PTL DEF Spec
=============================================================================
