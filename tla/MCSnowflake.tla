---------------------------- MODULE MCSnowflake ----------------------------
(* Small instances of Snowflake: two generators, three identifiers per     *)
(* millisecond, clocks of a few milliseconds around the epoch.             *)
EXTENDS Snowflake

CONSTANTS g1, g2

MCGenerators == {g1, g2}

\* Two machines that were given different worker numbers.  33 is 1 modulo 32.
DistinctWorkers == [g \in MCGenerators |-> IF g = g1 THEN 0 ELSE 33]

\* main.go: InitSnowflakeGenerator(0, 0) in every process.
AllZero == [g \in MCGenerators |-> 0]
=============================================================================
