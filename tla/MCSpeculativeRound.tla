-------------------------- MODULE MCSpeculativeRound --------------------------
EXTENDS SpeculativeRound

\* No window; and a sliding window of two rows on the proposer's layers only.
NoWindow == [p \in Pools |-> 0]
ProposerWindow == [p \in Pools |-> IF p = "proposer" THEN 2 ELSE 0]

BlocksOf == 1 .. MaxTokens \div BlockSize
==============================================================================
