---------------------------- MODULE MCDetectors ----------------------------
EXTENDS Detectors, TLC

CONSTANTS s1, s2, sqlite, build, test, ssh, page, refused, notFound, broken, guard, hole, ruleDoc

Blank == [kind |-> Null, program |-> Null, command |-> Null, signature |-> Null, tool |-> Null,
          path |-> Null, excerpt |-> Null, rule |-> Null, gap |-> Null, host |-> Null]

Run(kind, command) == [Blank EXCEPT !.kind = kind, !.command = command]
Fails(program, signature) ==
    [Run("run_failed", program) EXCEPT !.program = program, !.signature = signature]

Retries == {Run("run_failed", build), Run("run_succeeded", build)}
Missing == {Fails(sqlite, notFound), Fails(test, notFound),
            [Blank EXCEPT !.kind = "tool_error", !.signature = notFound]}
Cut == {Fails(build, notFound), Fails(test, notFound), [Blank EXCEPT !.kind = "denied", !.rule = guard]}
Stops == {[Blank EXCEPT !.kind = "tool_rejected", !.tool = ssh],
          [Blank EXCEPT !.kind = "interrupt"],
          [Blank EXCEPT !.kind = "correction", !.excerpt = refused]}
Reads == {[Blank EXCEPT !.kind = "file_read", !.path = page],
          [Blank EXCEPT !.kind = "file_changed", !.path = page],
          [Run("run_succeeded", build) EXCEPT !.gap = hole, !.host = ssh]}

MCSuites == {Retries, Missing, Cut, Stops, Reads}
MCContents == UNION MCSuites
MCNotFound == {notFound}
MCNamed == {<<sqlite, ruleDoc>>, <<ssh, ruleDoc>>}
\* Two long commands, or program names, with one beginning.
MCShort == (build :> page) @@ (test :> page)
MCMaxObs == [x \in MCSuites |-> IF x \in {Retries, Stops} THEN 4 ELSE 3]
Symmetric == Permutations({s1, s2})
=============================================================================
