SPECIFICATION Spec
CONSTANTS
    Lifetime <- MCLifetime
    Margin <- MCMargin
    IatSkew <- MCIatSkew
    JwtLife <- MCJwtLife
    JwtCeiling <- MCJwtCeiling
    MaxAttempts <- MCMaxAttempts
    Slow <- MCSlightlySlow
    MaxDelay <- MCMaxDelay
    MaxTime <- MCMaxTime
INVARIANTS SentTokenIsLive OutlivesItsTokens
CHECK_DEADLOCK FALSE
