---------------------------- MODULE ChildProcess ----------------------------
(***************************************************************************)
(* What the two wrappers of the smoke script (scripts/) have in common:    *)
(* they do all their work by child processes, one at a time.               *)
(***************************************************************************)
EXTENDS Integers

CONSTANTS
    Runs,   \* runs of a wrapper
    Nobody  \* whoever made what no run made; also: no name, number, exit code

ASSUME RunsAssumption == Nobody \notin Runs \cup Int

\* spawnRunner, and run: what the promise of a child process does when it
\* closes.
Runner(exitCode) == IF exitCode = 0 THEN "resolves" ELSE "rejects"

=============================================================================
