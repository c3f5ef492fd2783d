-------------------------- MODULE MCPipelineWaves --------------------------
(* Instances of PipelineWaves for TLC. *)
EXTENDS PipelineWaves

\* two builders side by side, then QA
BuildersThenQa == << <<"builder", "builder">>, <<"qa">> >>
BuildThenQa == << <<"builder">>, <<"qa">> >>

\* Everything that can go wrong; longer, what a wave loses track of; longer still,
\* what it keeps track of.
Everything == [contents |-> {"work", "FAIL", "bail"}, faults |-> AllFaults,
               advance |-> FALSE, dispatches |-> 3]
Untracked == [contents |-> {"work", "bail"},
              faults |-> {"duplicate", "reject", "ratelimit", "crash", "stale"},
              advance |-> FALSE, dispatches |-> 4]
TrackedOnly == [contents |-> {"work", "FAIL"},
                faults |-> {"duplicate", "disconnect", "crash", "cancel"},
                advance |-> TRUE, dispatches |-> 6]
Troubles == {Everything, Untracked, TrackedOnly}

\* No fault at all, and a builder that asks a question.
Questions == {[contents |-> {"work", "question"}, faults |-> {},
               advance |-> FALSE, dispatches |-> 5]}
=============================================================================
