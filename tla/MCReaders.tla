----------------------------- MODULE MCReaders ------------------------------
EXTENDS Readers

CONSTANTS main, side

=============================================================================
