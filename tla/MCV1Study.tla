------------------------------- MODULE MCV1Study -------------------------------
(***************************************************************************)
(* Two Null positives of three kill, two causal pairs cover both orders of *)
(* the arms, and three tokens for two meet the ratio bound exactly.        *)
(***************************************************************************)
EXTENDS V1Study

MCTokens == {0, 1, None}
MCAlpha == <<1, 2>>
MCMinAdvantage == <<1, 20>>
MCKillRate == <<1, 2>>
MCRatioBound == <<3, 2>>

\* Four draws, one of each.
MCDraws == <<<<1, 1>>, <<1, -1>>, <<-1, 1>>, <<-1, -1>>>>

================================================================================
