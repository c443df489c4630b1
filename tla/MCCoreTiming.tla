----------------------------- MODULE MCCoreTiming -----------------------------
EXTENDS CoreTiming

CONSTANTS shot, loop
=============================================================================
