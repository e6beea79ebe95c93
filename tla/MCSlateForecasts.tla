--------------------------- MODULE MCSlateForecasts ---------------------------
(* One slate of two positions; a recomposition swaps its two matches.          *)
EXTENDS SlateForecasts, TLC
CONSTANTS api, worker, league, cup, A, B
MCFixtureAt == (A :> <<league, cup>>) @@ (B :> <<cup, league>>)
MCNameSays == (league :> "no") @@ (cup :> "unknown")
=============================================================================
