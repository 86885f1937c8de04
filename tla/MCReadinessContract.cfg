SPECIFICATION Spec
CONSTANT ContractNamesRef = FALSE
INVARIANT GeneratedArtifactAccepted
