---------------------------- MODULE MCProbeTasks ----------------------------
\* Two resources, of which a task measures one or both.
EXTENDS ProbeTasks

CONSTANTS r1, r2

OneOrBoth == {{r1}, {r1, r2}}

=============================================================================
