--------------------------- MODULE MCVerification ---------------------------
(***************************************************************************)
(* A native token and a stable one, two tiers, prices that move by 4       *)
(* percent; the chains file has one chain that is not valid.               *)
(***************************************************************************)
EXTENDS Verification, TLC

MCToken(type, decimals) == [type |-> type, decimals |-> decimals]
MCTier(usd, quota) == [amount_usd |-> usd, amount_wei |-> Absent, quota_bytes |-> quota]

MCBase == [named |-> TRUE, explorer |-> "blockscout",
           tokens |-> ("ETH" :> MCToken("native", Absent) @@ "USDC" :> MCToken("erc20", 1)),
           tiers |-> <<MCTier(50, 1), MCTier(150, 5)>>]
\* Its tier has no quota.
MCBroken == [MCBase EXCEPT !.tiers = <<MCTier(50, Absent)>>]

MCChain ==
    ChainConfig(LoadChains("base" :> MCBase @@ "bad" :> MCBroken, "base" :> MCBase),
                "bad", "base")

MCMarket == {"ETH" :> 100 @@ "USDC" :> 100, "ETH" :> 104 @@ "USDC" :> 100}
\* Prices that move by more than the tolerance.
MCVolatile == {"ETH" :> 100 @@ "USDC" :> 100, "ETH" :> 110 @@ "USDC" :> 100}
MCTolerance == "ETH" :> 5 @@ "USDC" :> 0
=============================================================================
