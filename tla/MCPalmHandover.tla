--------------------------- MODULE MCPalmHandover ---------------------------
EXTENDS PalmHandover

\* The options of the router and the script's own defaults: the floor, or the last step, comes first.
MCConfigs ==
    {[contact |-> FALSE, recheck |-> FALSE, floor |-> 2, steps |-> 3],
     [contact |-> TRUE, recheck |-> TRUE, floor |-> 3, steps |-> 2]}

=============================================================================
