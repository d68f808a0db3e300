------------------------- MODULE MCReviewLifecycle -------------------------
\* Two codes; one of them is that of a product the store knows.
EXTENDS ReviewLifecycle

CONSTANTS c, d

Shelf == <<{d}>>
=============================================================================
