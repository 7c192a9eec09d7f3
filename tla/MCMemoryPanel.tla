----------------------------- MODULE MCMemoryPanel -----------------------------
\* An instance of MemoryPanel for TLC.
EXTENDS MemoryPanel

TwoItems == {"m1", "m2"}

================================================================================
