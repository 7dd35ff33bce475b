------------------------------- MODULE MCPlugins -------------------------------
(* An instance of Plugins for TLC. *)
EXTENDS Plugins

MCConfs ==
    [input : {"exec"}, output : {"file", "kafka", "ingeek"}]
        \cup [input : {"kafka"}, output : {"file", "kafka", "ingeek"}]

\* A line that parse_buffer has room for or not, as it is read, and one without a byte.
MCNewlines == {{3, 4}}
=============================================================================
