--------------------------- MODULE MCBlockMonitors ---------------------------
EXTENDS BlockMonitors, TLC

CONSTANTS bitcoin, ethereum, solana, tron, wb, we1, we2, ws, wt

MCKind == bitcoin :> "BTC" @@ ethereum :> "EVM" @@ solana :> "SOL" @@ tron :> "TRX"
MCQueue == wb :> "BTC" @@ we1 :> "EVM" @@ we2 :> "EVM" @@ ws :> "SOL" @@ wt :> "TRX"
MCSettings == {{"BTC"}, {"EVM"}, {"SOL"}, {"TRX"}}
=============================================================================
