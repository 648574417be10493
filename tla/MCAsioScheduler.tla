-------------------------- MODULE MCAsioScheduler --------------------------
\* Instances of AsioScheduler for TLC: the constants are model values and
\* numbers of the .cfg files.
EXTENDS AsioScheduler

=============================================================================
