SPECIFICATION Spec
CONSTANTS
    None = None
    IntLimit <- MCIntLimit
    AmountLimit <- MCAmountLimit
    Prices <- MCPrices
    Promos <- MCPromos
    Bodies <- MCBodies
INVARIANT SuccessIsReal
