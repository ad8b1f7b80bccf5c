SPECIFICATION FairSpec
CONSTANT MaxFaults <- MCMaxFaults
INVARIANT TypeOK
INVARIANT ApprovedOnEvidence
INVARIANT LastingFaultBlocksApproval
PROPERTY RefinesPolicy
PROPERTY SoundRunConcludes
