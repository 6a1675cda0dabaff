SPECIFICATION AccessSpec
CONSTANT GrantChoices <- MCGrantChoices
INVARIANT CatalogUnlocksHandlers
