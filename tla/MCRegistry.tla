----------------------------- MODULE MCRegistry -----------------------------
\* Two exchanges: alpha joins by its config file; beta is configured to run on its
\* own under a code nobody has registered for it, and joins by its panel.
EXTENDS Registry

CONSTANTS alpha, beta, a201, a202, a800

MCExchange == {alpha, beta}
MCArea == {a201, a202, a800}
MCReservedArea == {a800}
MCConfigArea == [e \in MCExchange |-> IF e = alpha THEN a201 ELSE None]
MCLineArea == [e \in MCExchange |-> IF e = beta THEN a202 ELSE None]
MCConfigJoins == {alpha}
=============================================================================
