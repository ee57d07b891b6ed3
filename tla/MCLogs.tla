------------------------------- MODULE MCLogs -------------------------------
\* LogPipeline for TLC: a service of three lines that writes to its streams in turn.
EXTENDS LogPipeline

InTurn == {<<"stdout", "stderr", "stdout">>}
=============================================================================
