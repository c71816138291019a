------------------------------ MODULE MCReplay ------------------------------
EXTENDS Replay

\* A page with one widget and a page with another.
MCWidgets == {"p", "q"}
MCValues == {"a", "b"}
MCPages == {"P", "Q"}
MCPageOf == [p |-> "P", q |-> "Q"]
MCObjects == 1..12
=============================================================================
