------------------------- MODULE MCGarbageCollector -------------------------
EXTENDS GarbageCollector
=============================================================================
