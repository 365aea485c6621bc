---------------------------- MODULE MCControlPanel ----------------------------
EXTENDS ControlPanel

Now(keys) == [keys |-> keys, expanded |-> TRUE]
Bare(keys) == [keys |-> keys, expanded |-> FALSE]

MCSelections == {Bare(<<"side_grip", Recipe, "home_robot">>), Now(<<"lid_grip_close", Recipe>>)}

\* What StepsOf makes of the keys one or two buttons select: keys of steps, each once, and no
\* recipe beside the side grip that it is chained to.
ASSUME ListsOfSteps ==
    \A a, b \in Keys, now \in BOOLEAN :
        LET list == StepsOf([keys |-> <<a, b>>, expanded |-> now])
        IN  list \in Seq(Keys) /\ IsInjective(list) /\ ~ {"side_grip", Recipe} \subseteq ToSet(list)
=============================================================================
