------------------------------ MODULE MCUiSession ------------------------------
\* An instance of UiSession for TLC.
EXTENDS UiSession

OneFrame == <<[kind |-> "tool_called", node |-> "a"]>>

================================================================================
