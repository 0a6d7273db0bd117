----------------------------- MODULE MCStorage -----------------------------
EXTENDS Storage

CONSTANTS d, e

MCRequest == {<<d, e>>}
=============================================================================
