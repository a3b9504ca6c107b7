---- MODULE MCAmendedRuns ----
\* Instances of AmendedRuns for TLC.
EXTENDS AmendedRuns

CONSTANTS a1, a2, h1, h2, h3, w1, w2

Typed(a, h) == [op |-> "ask", who |-> a, hash |-> h, typed |-> TRUE, joins |-> TRUE,
    tools |-> {}]
Untyped(a, h) == [op |-> "ask", who |-> a, hash |-> h, typed |-> FALSE, joins |-> TRUE,
    tools |-> {}]
World(op, h) == [op |-> op, who |-> NoActor, hash |-> h, typed |-> FALSE, joins |-> TRUE,
    tools |-> {}]
Looking(call) == [call EXCEPT !.tools = {"look"}]
Writing(call) == [call EXCEPT !.tools = {"write"}]
AtOnce(call) == [call EXCEPT !.joins = FALSE]

\* One subagent: asked the same again, then from its second ask on otherwise.
Chain == <<
    <<Typed(a1, h1), Untyped(a1, h2)>>,
    <<Typed(a1, h1), Untyped(a1, h2)>>,
    <<Typed(a1, h1), Typed(a1, h3)>> >>

\* Two subagents and world commands, made at once.
Fanout == <<
    <<Looking(Typed(a1, h1)), Untyped(a2, h2), World("read", w1)>>,
    <<AtOnce(Writing(Untyped(a2, h2))), AtOnce(Typed(a1, h1)),
      AtOnce(World("read", w1))>> >>

\* The same command twice.
Repeats == <<
    <<World("read", w1), World("read", w1)>>,
    <<World("read", w1), World("read", w1)>> >>

\* A command the second run makes before the one both make.
Deploy == <<
    <<World("run", w1)>>,
    <<World("run", w2), World("run", w1)>> >>

\* Two typed asks of one subagent, made at once.
Pipelined == << <<Looking(Typed(a1, h1)), AtOnce(Typed(a1, h2))>> >>

\* An ask that closes the cache, then one that was impure in the predecessor.
Torn == <<
    <<Looking(Typed(a1, h1))>>,
    <<World("run", w1), Typed(a1, h1)>> >>

\* A plan: the scripts, the run (0: none) that gives the second subagent
\* another persona, the runs that may crash, and whether between two writes.
Plan(scripts, renews, crashes, torn) ==
    [scripts |-> scripts,
     persona |-> [r \in DOMAIN scripts |-> [a \in Actors |->
                     IF r = renews /\ a = a2 THEN "new" ELSE "same"]],
     crashes |-> crashes, torn |-> torn]

ChainOrFanout == {Plan(Chain, 0, {1, 2, 3}, TRUE), Plan(Fanout, 2, {2}, FALSE)}
OnlyRepeats == {Plan(Repeats, 0, {2}, FALSE)}
OnlyFanout == {Plan(Fanout, 2, {1}, FALSE)}
OnlyDeploy == {Plan(Deploy, 0, {}, FALSE)}
OnlyPipelined == {Plan(Pipelined, 0, {}, FALSE)}
OnlyTorn == {Plan(Torn, 0, {2}, TRUE)}
====
